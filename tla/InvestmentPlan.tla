--------------------------- MODULE InvestmentPlan ---------------------------
(***************************************************************************)
(* The saved investment plans of one user and the holdings they are moved  *)
(* into: core/views/investment_scenarios.py, investment_holdings.py, and   *)
(* the widget of a chat message that a plan is saved from.                 *)
(*                                                                         *)
(* Purchases and removals of an allocation are transactions that           *)
(* lock the plan's row; a purchase also locks the user's row before it     *)
(* reads the holding.  Two PATCHes take no lock: the one of a plan's title *)
(* and status, and the one of a holding.  Both read a row and save all of  *)
(* its columns later, which inserts the row again if it has been deleted.  *)
(*                                                                         *)
(* A quantity counts units; a purchase confirms one.  Prices, fees and     *)
(* amounts, and the edits of an allocation, which change nothing but them, *)
(* are the business of PlanFigures.  Numbers and dates a serializer        *)
(* refuses end a request before it has changed anything.                   *)
(* A plan is named by the message it is saved from; a second plan saved    *)
(* from the same message, after the first is deleted, is left out.         *)
(***************************************************************************)
EXTENDS Naturals, FiniteSets

CONSTANTS
  Plans,          \* rows of saved_investment_scenarios, and the messages that offer them
  Instruments,    \* the curated catalogue, and the items of the offered plan
  PlanThreads,    \* the web threads at work for this user
  MaxQuantity,    \* the units the column holds at most
  CarefulOwner    \* the two PATCHes without a lock do not overlap a change of their row

ASSUME InvestmentAssumption ==
  /\ Instruments # {}
  /\ MaxQuantity \in Nat \ {0}
  /\ CarefulOwner \in BOOLEAN

VARIABLES
  offer,      \* whether the message with the investment_plan widget exists
  plan,       \* rows of saved_investment_scenarios
  bought,     \* rows of saved_investment_allocation_purchases, by plan
  holding,    \* investment_holdings: units held of each instrument, 0 without a row
  planReq,    \* what each thread is in the middle of
  confirmed,  \* history: how often each allocation was added to a holding
  stated      \* history: the units the user's answered requests add up to

investmentVars == <<offer, plan, bought, holding, planReq, confirmed, stated>>

Quantities == 1..MaxQuantity
Units      == 0..MaxQuantity

\* A row of a plan: "unused" ids have no row yet, "gone" ones no longer.
PlanRow ==
  [status : {"unused", "saved", "archived", "gone"},
   items  : SUBSET Instruments]   \* instruments of payload_json.allocations

NoRow(status) == [status |-> status, items |-> {}]

Idle      == [at : {"idle"}]
Purchase  == [at : {"locked", "reading"}, plan : Plans, item : Instruments, seen : Units]
Renaming  == [at : {"renaming"}, plan : Plans, copy : PlanRow, sourced : BOOLEAN]
Adding    == [at : {"adding"}, item : Instruments, quantity : Quantities]
Adjusting == [at : {"adjusting"}, item : Instruments, copy : Units, orphan : BOOLEAN]

InvestmentTypeOK ==
  /\ offer \in [Plans -> BOOLEAN]
  /\ plan \in [Plans -> PlanRow]
  /\ bought \in [Plans -> SUBSET Instruments]
  /\ holding \in [Instruments -> Units]
  /\ planReq \in [PlanThreads -> Idle \cup Purchase \cup Renaming \cup Adding \cup Adjusting]
  /\ confirmed \in [Plans -> [Instruments -> Nat]]
  /\ stated \in [Instruments -> Units]

InvestmentInit ==
  /\ offer = [s \in Plans |-> TRUE]
  /\ plan = [s \in Plans |-> NoRow("unused")]
  /\ bought = [s \in Plans |-> {}]
  /\ holding = [i \in Instruments |-> 0]
  /\ planReq = [r \in PlanThreads |-> [at |-> "idle"]]
  /\ confirmed = [s \in Plans |-> [i \in Instruments |-> 0]]
  /\ stated = [i \in Instruments |-> 0]

Exists(s) == plan[s].status \in {"saved", "archived"}

PurchaseUnderWay(r) == planReq[r].at \in {"locked", "reading"}

\* Row locks, held by a purchase until it commits.
PlanLocked(s)    == \E r \in PlanThreads : PurchaseUnderWay(r) /\ planReq[r].plan = s
UserLocked       == \E r \in PlanThreads : planReq[r].at = "reading"
HoldingLocked(i) == \E r \in PlanThreads : /\ planReq[r].at = "reading"
                                           /\ planReq[r].item = i
                                           /\ planReq[r].seen > 0

\* What a careful owner waits for.
PlanAtRest(s)    == CarefulOwner => ~\E r \in PlanThreads : planReq[r].at = "renaming" /\ planReq[r].plan = s
HoldingAtRest(i) == CarefulOwner => ~\E r \in PlanThreads : planReq[r].at = "adjusting" /\ planReq[r].item = i
NoPurchaseOf(i)  == CarefulOwner => ~\E r \in PlanThreads : PurchaseUnderWay(r) /\ planReq[r].item = i

Begin(r, record) == planReq[r].at = "idle" /\ planReq' = [planReq EXCEPT ![r] = record]
Answer(r)        == planReq' = [planReq EXCEPT ![r] = [at |-> "idle"]]

(***************************************************************************)
(* Plans                                                                   *)
(***************************************************************************)

\* Mutant: the widget's save replaces the plan's row, and its purchases go.
SaveWidgetAfresh(s) ==
  /\ offer[s]
  /\ plan[s].status = "unused" \/ Exists(s)
  /\ ~PlanLocked(s) /\ PlanAtRest(s)
  /\ plan' = [plan EXCEPT ![s] = [NoRow("saved") EXCEPT !.items = Instruments]]
  /\ bought' = [bought EXCEPT ![s] = {}]
  /\ UNCHANGED <<offer, holding, planReq, confirmed, stated>>

\* PATCH of the message's widget.  The message is locked, so saves of it take
\* turns; a plan that is still linked to it gets the widget's payload again.
SaveWidget(s) ==
  /\ offer[s]
  /\ \/ /\ plan[s].status = "unused"
        /\ plan' = [plan EXCEPT ![s] = [NoRow("saved") EXCEPT !.items = Instruments]]
     \/ /\ Exists(s) /\ ~PlanLocked(s) /\ PlanAtRest(s)
        /\ plan' = [plan EXCEPT ![s].items = Instruments]
  /\ UNCHANGED <<offer, bought, holding, planReq, confirmed, stated>>

\* The conversation is deleted: the plan stays, without a source message.
WithdrawOffer(s) ==
  /\ offer[s] /\ ~PlanLocked(s)
  /\ offer' = [offer EXCEPT ![s] = FALSE]
  /\ UNCHANGED <<plan, bought, holding, planReq, confirmed, stated>>

\* What removal and purchase (and an edit) ask for under the plan's lock.
Pending(s, i) ==
  /\ plan[s].status = "saved" /\ ~PlanLocked(s)
  /\ i \in plan[s].items \ bought[s]

\* Removing the last pending allocation deletes the plan, and with it the
\* records of its purchases.
RemoveAllocation(s, i) ==
  /\ Pending(s, i) /\ PlanAtRest(s)
  /\ LET left == plan[s].items \ {i}
     IN  IF left \subseteq bought[s]
           THEN /\ plan' = [plan EXCEPT ![s] = NoRow("gone")]
                /\ bought' = [bought EXCEPT ![s] = {}]
           ELSE /\ plan' = [plan EXCEPT ![s].items = left]
                /\ UNCHANGED bought
  /\ UNCHANGED <<offer, holding, planReq, confirmed, stated>>

DeletePlan(s) ==
  /\ Exists(s) /\ ~PlanLocked(s) /\ PlanAtRest(s)
  /\ plan' = [plan EXCEPT ![s] = NoRow("gone")]
  /\ bought' = [bought EXCEPT ![s] = {}]
  /\ UNCHANGED <<offer, holding, planReq, confirmed, stated>>

\* PATCH of title and status: the row is read here ...
RenameRead(r, s) ==
  /\ Exists(s) /\ PlanAtRest(s)
  /\ Begin(r, [at |-> "renaming", plan |-> s, copy |-> plan[s], sourced |-> offer[s]])
  /\ UNCHANGED <<offer, plan, bought, holding, confirmed, stated>>

\* ... and all its columns are saved here, be it by UPDATE or by INSERT, unless
\* they refer to a message that has gone.
RenameSave(r) ==
  /\ planReq[r].at = "renaming"
  /\ LET s == planReq[r].plan
     IN  /\ ~PlanLocked(s)
         /\ IF planReq[r].sourced /\ ~offer[s]
              THEN UNCHANGED plan
              ELSE \E status \in {"saved", "archived"} :
                     plan' = [plan EXCEPT ![s] = [planReq[r].copy EXCEPT !.status = status]]
  /\ Answer(r)
  /\ UNCHANGED <<offer, bought, holding, confirmed, stated>>

(***************************************************************************)
(* Purchases                                                               *)
(***************************************************************************)

\* The plan is locked and found to be saved, with the item in it and no
\* purchase recorded (a retry would be answered here).
PurchaseLock(r, s, i) ==
  /\ Pending(s, i) /\ HoldingAtRest(i)
  /\ Begin(r, [at |-> "locked", plan |-> s, item |-> i, seen |-> 0])
  /\ UNCHANGED <<offer, plan, bought, holding, confirmed, stated>>

\* The user is locked, then the holding is read and locked if there is one.
PurchaseRead(r) ==
  /\ planReq[r].at = "locked"
  /\ ~UserLocked /\ ~HoldingLocked(planReq[r].item)
  /\ planReq' = [planReq EXCEPT ![r].at = "reading", ![r].seen = holding[planReq[r].item]]
  /\ UNCHANGED <<offer, plan, bought, holding, confirmed, stated>>

\* Mutant: the quantity is added up without a look at what the column holds.
RefusedButFits(r) ==
  LET i == planReq[r].item
  IN  (planReq[r].seen = 0 /\ holding[i] > 0) \/ i \in bought[planReq[r].plan]

\* What the database refuses: a second holding of the instrument, one that was
\* created by hand since the look, a second record of the purchase, or more
\* units than fit their column.
Refused(r) ==
  LET i == planReq[r].item
  IN  \/ (planReq[r].seen = 0 /\ holding[i] > 0)
      \/ planReq[r].seen = MaxQuantity
      \/ i \in bought[planReq[r].plan]

\* Holding and record are written and committed ...
PurchaseCommit(r) ==
  /\ planReq[r].at = "reading" /\ ~Refused(r)
  /\ LET s == planReq[r].plan
         i == planReq[r].item
     IN  /\ holding' = [holding EXCEPT ![i] = planReq[r].seen + 1]
         /\ bought' = [bought EXCEPT ![s] = @ \cup {i}]
         /\ confirmed' = [confirmed EXCEPT ![s][i] = @ + 1]
         /\ stated' = [stated EXCEPT ![i] = @ + 1]
  /\ Answer(r)
  /\ UNCHANGED <<offer, plan>>

\* ... or all is rolled back.
PurchaseRollback(r) ==
  /\ planReq[r].at = "reading" /\ Refused(r)
  /\ Answer(r)
  /\ UNCHANGED <<offer, plan, bought, holding, confirmed, stated>>

(***************************************************************************)
(* Holdings entered by hand                                                *)
(***************************************************************************)

\* The serializer finds no holding of the instrument ...
HoldingCheck(r, i, q) ==
  /\ holding[i] = 0
  /\ Begin(r, [at |-> "adding", item |-> i, quantity |-> q])
  /\ UNCHANGED <<offer, plan, bought, holding, confirmed, stated>>

\* ... and the insertion succeeds unless one has come to be.
HoldingCreate(r) ==
  /\ planReq[r].at = "adding"
  /\ LET i == planReq[r].item
     IN  IF holding[i] = 0
           THEN /\ holding' = [holding EXCEPT ![i] = planReq[r].quantity]
                /\ stated' = [stated EXCEPT ![i] = planReq[r].quantity]
           ELSE UNCHANGED <<holding, stated>>
  /\ Answer(r)
  /\ UNCHANGED <<offer, plan, bought, confirmed>>

HoldingRead(r, i) ==
  /\ holding[i] > 0 /\ HoldingAtRest(i) /\ NoPurchaseOf(i)
  /\ Begin(r, [at |-> "adjusting", item |-> i, copy |-> holding[i], orphan |-> FALSE])
  /\ UNCHANGED <<offer, plan, bought, holding, confirmed, stated>>

\* The PATCH states a quantity, or none and saves the one it read.  The row it
\* read may be gone: then it is inserted, unless there is another one.
HoldingSave(r) ==
  /\ planReq[r].at = "adjusting"
  /\ LET i == planReq[r].item
         refused == planReq[r].orphan /\ holding[i] > 0
     IN  /\ ~HoldingLocked(i)
         /\ \/ refused /\ UNCHANGED <<holding, stated>>
            \/ /\ ~refused
               /\ \E q \in Quantities :
                    /\ holding' = [holding EXCEPT ![i] = q]
                    /\ stated' = [stated EXCEPT ![i] = q]
            \/ /\ ~refused
               /\ holding' = [holding EXCEPT ![i] = planReq[r].copy]
               /\ UNCHANGED stated
  /\ Answer(r)
  /\ UNCHANGED <<offer, plan, bought, confirmed>>

\* Purchases recorded for a deleted holding stay, without it.
HoldingDelete(i) ==
  /\ holding[i] > 0 /\ ~HoldingLocked(i) /\ HoldingAtRest(i)
  /\ holding' = [holding EXCEPT ![i] = 0]
  /\ stated' = [stated EXCEPT ![i] = 0]
  /\ planReq' = [r \in PlanThreads |->
                   IF planReq[r].at = "adjusting" /\ planReq[r].item = i
                     THEN [planReq[r] EXCEPT !.orphan = TRUE] ELSE planReq[r]]
  /\ UNCHANGED <<offer, plan, bought, confirmed>>

InvestmentNext ==
  \/ \E s \in Plans : SaveWidget(s) \/ WithdrawOffer(s) \/ DeletePlan(s)
  \/ \E s \in Plans, i \in Instruments : RemoveAllocation(s, i)
  \/ \E i \in Instruments : HoldingDelete(i)
  \/ \E r \in PlanThreads :
       \/ \E s \in Plans : RenameRead(r, s)
       \/ RenameSave(r)
       \/ \E s \in Plans, i \in Instruments : PurchaseLock(r, s, i)
       \/ PurchaseRead(r)
       \/ PurchaseCommit(r)
       \/ PurchaseRollback(r)
       \/ \E i \in Instruments, q \in Quantities : HoldingCheck(r, i, q)
       \/ HoldingCreate(r)
       \/ \E i \in Instruments : HoldingRead(r, i)
       \/ HoldingSave(r)

InvestmentSpec == InvestmentInit /\ [][InvestmentNext]_investmentVars

(***************************************************************************)
(* Properties                                                              *)
(***************************************************************************)

\* "Retries are idempotent and cannot add the quantity twice": an allocation
\* of a plan is added to a holding at most once, however purchases, edits,
\* renames and deletions of plans interleave.  A plan that a rename saved
\* again after its deletion would have lost the records that ensure it.
BoughtOnce ==
  \A s \in Plans, i \in Instruments : confirmed[s][i] <= 1

\* What a plan's purchases are about stays in the plan: nothing that is owned
\* can be removed from it, not by a widget saved again nor by a stale copy.
OwnedInPlan ==
  \A s \in Plans : bought[s] \subseteq plan[s].items

\* A plan and the purchases recorded for it belong together.
PurchasesFitPlan == BoughtOnce /\ OwnedInPlan

\* The units held are what the user's answered requests add up to: no update
\* of a holding is lost between purchases from several plans, holdings entered
\* by hand and corrections.
HoldingsAsStated ==
  \A i \in Instruments : holding[i] = stated[i]

\* What the user owns is what was confirmed and stated, once each, and no plan
\* forgets what was bought from it.
OwnedAsStated == PurchasesFitPlan /\ HoldingsAsStated
=============================================================================
