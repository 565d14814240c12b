----------------------------- MODULE BudgetPlan -----------------------------
(***************************************************************************)
(* The one budget and the one savings goal of a user: BudgetView, GoalView *)
(* and DashboardGoalView of core/views/budgets.py.                         *)
(*                                                                         *)
(* No request is a transaction: a PATCH of the budget writes the history,  *)
(* the row, the deletion of the allocations and each new allocation in     *)
(* statements of their own, and a POST looks for a row before it inserts   *)
(* one.  Only the unique constraints stand between two of them: one budget *)
(* and one goal per user, one allocation per budget and category.          *)
(*                                                                         *)
(* A request's percentages are shares of Whole; the serializers ask that   *)
(* they add up to it, and nothing else: a list may name a category twice.  *)
(* Shares of zero or less, which they accept as well, are left out.        *)
(***************************************************************************)
EXTENDS Naturals, Sequences, SequencesExt

CONSTANTS
  Categories,      \* expense categories
  Whole,           \* 100 %
  Figures,         \* values of a goal's target and of its months
  BudgetThreads,   \* the web threads at work for this user
  CarefulBudgeter  \* a change starts only when no change of the same row is under way

ASSUME BudgetAssumption ==
  /\ Categories # {}
  /\ Whole \in Nat \ {0}
  /\ CarefulBudgeter \in BOOLEAN

VARIABLES
  budget,      \* whether the row of budgets exists
  allocated,   \* rows of budget_allocations: the share of each category, 0 without a row
  history,     \* previous_values of the rows of budget_history
  goal,        \* the row of goals, if any
  budgetReq,   \* what each thread is in the middle of
  sent,        \* history: the list last answered or refused by the database halfway
  inForce,     \* history: the allocations that requests have left
  goalStated   \* history: what the answered requests say of the goal

budgetVars == <<budget, allocated, history, goal, budgetReq, sent, inForce, goalStated>>

Item        == [category : Categories, share : 1..Whole]
Allocations == [Categories -> 0..Whole]
Goal        == [target : Figures, months : Figures]
NoGoal      == [target |-> 0, months |-> 0]

Shares(list) == FoldLeft(LAMBDA sum, item : sum + item.share, 0, list)

\* What validate_allocations lets pass (an empty list adds up to nothing).
Lists == {list \in SeqOf(Item, Whole) : list # <<>> /\ Shares(list) = Whole}
NoList == <<>>   \* a PATCH without allocations

Nothing == [c \in Categories |-> 0]

Waiting  == [at : {"idle"}]
Creating == [at : {"creating"}, list : Lists]
Changing == [at : {"read", "recorded", "saved"}, copy : Allocations, list : Lists \cup {NoList}]
Applying == [at : {"applying"}, list : Lists, done : 0..Whole]
Setting  == [at : {"setting"}, goal : Goal]
Revising == [at : {"revising"}, goal : Goal, fields : SUBSET {"target", "months"}]

BudgetTypeOK ==
  /\ budget \in BOOLEAN
  /\ allocated \in Allocations
  /\ history \subseteq Allocations
  /\ goal \in Goal \cup {NoGoal}
  /\ budgetReq \in [BudgetThreads ->
                      Waiting \cup Creating \cup Changing \cup Applying \cup Setting \cup Revising]
  /\ sent \in Lists \cup {NoList}
  /\ inForce \subseteq Allocations
  /\ goalStated \in Goal \cup {NoGoal}

BudgetInit ==
  /\ budget = FALSE
  /\ allocated = Nothing
  /\ history = {}
  /\ goal = NoGoal
  /\ budgetReq = [r \in BudgetThreads |-> [at |-> "idle"]]
  /\ sent = NoList
  /\ inForce = {}
  /\ goalStated = NoGoal

BudgetAtRest ==
  CarefulBudgeter =>
    \A r \in BudgetThreads : budgetReq[r].at \notin {"read", "recorded", "saved", "applying"}
GoalAtRest ==
  CarefulBudgeter => \A r \in BudgetThreads : budgetReq[r].at # "revising"

Asks(r, record)  == budgetReq[r].at = "idle" /\ budgetReq' = [budgetReq EXCEPT ![r] = record]
Step(r, record)  == budgetReq' = [budgetReq EXCEPT ![r] = record]
Replies(r)       == Step(r, [at |-> "idle"])

(***************************************************************************)
(* The budget                                                              *)
(***************************************************************************)

\* POST finds no budget ...
CreateCheck(r, list) ==
  /\ ~budget
  /\ Asks(r, [at |-> "creating", list |-> list])
  /\ UNCHANGED <<budget, allocated, history, goal, sent, inForce, goalStated>>

\* ... and inserts one, unless another POST has: user_id is unique.
CreateRow(r) ==
  /\ budgetReq[r].at = "creating"
  /\ IF budget THEN Replies(r)
               ELSE Step(r, [at |-> "applying", list |-> budgetReq[r].list, done |-> 0])
  /\ budget' = TRUE
  /\ UNCHANGED <<allocated, history, goal, sent, inForce, goalStated>>

\* PATCH reads the row and prefetches its allocations ...
PatchRead(r, list) ==
  /\ budget /\ BudgetAtRest
  /\ Asks(r, [at |-> "read", copy |-> allocated, list |-> list])
  /\ UNCHANGED <<budget, allocated, history, goal, sent, inForce, goalStated>>

\* ... records what it read ...
PatchRecord(r) ==
  /\ budgetReq[r].at = "read"
  /\ history' = history \cup {budgetReq[r].copy}
  /\ budgetReq' = [budgetReq EXCEPT ![r].at = "recorded"]
  /\ UNCHANGED <<budget, allocated, goal, sent, inForce, goalStated>>

\* ... saves the row (name and template are left out), which is all when no
\* allocations were sent ...
PatchSave(r) ==
  /\ budgetReq[r].at = "recorded"
  /\ IF budgetReq[r].list = NoList THEN Replies(r)
                                   ELSE budgetReq' = [budgetReq EXCEPT ![r].at = "saved"]
  /\ UNCHANGED <<budget, allocated, history, goal, sent, inForce, goalStated>>

\* Mutant: the allocations sent are added to those there are.
PatchMerge(r) ==
  /\ budgetReq[r].at = "saved"
  /\ Step(r, [at |-> "applying", list |-> budgetReq[r].list, done |-> 0])
  /\ UNCHANGED <<budget, allocated, history, goal, sent, inForce, goalStated>>

\* ... and deletes every allocation before it creates the new ones.
PatchClear(r) ==
  /\ budgetReq[r].at = "saved"
  /\ allocated' = Nothing
  /\ Step(r, [at |-> "applying", list |-> budgetReq[r].list, done |-> 0])
  /\ UNCHANGED <<budget, history, goal, sent, inForce, goalStated>>

\* The allocations of a POST or PATCH are created one by one.  A category
\* that has one is refused by the database, and the request ends there.
Allocate(r) ==
  /\ budgetReq[r].at = "applying"
  /\ LET list == budgetReq[r].list
         done == budgetReq[r].done
         item == list[done + 1]
         refused == allocated[item.category] # 0
     IN  /\ allocated' = IF refused THEN allocated
                                    ELSE [allocated EXCEPT ![item.category] = item.share]
         /\ IF refused \/ done + 1 = Len(list)
              THEN /\ Replies(r)
                   /\ sent' = list
                   /\ inForce' = inForce \cup {allocated'}
              ELSE /\ Step(r, [budgetReq[r] EXCEPT !.done = @ + 1])
                   /\ UNCHANGED <<sent, inForce>>
  /\ UNCHANGED <<budget, history, goal, goalStated>>

(***************************************************************************)
(* The savings goal                                                        *)
(***************************************************************************)

GoalCheck(r, g) ==
  /\ goal = NoGoal
  /\ Asks(r, [at |-> "setting", goal |-> g])
  /\ UNCHANGED <<budget, allocated, history, goal, sent, inForce, goalStated>>

\* user_id is unique: a second goal is refused.
GoalCreate(r) ==
  /\ budgetReq[r].at = "setting"
  /\ IF goal = NoGoal THEN goal' = budgetReq[r].goal /\ goalStated' = budgetReq[r].goal
                      ELSE UNCHANGED <<goal, goalStated>>
  /\ Replies(r)
  /\ UNCHANGED <<budget, allocated, history, sent, inForce>>

\* PATCH: the row is read here, and the fields sent are written into the copy ...
GoalRead(r) ==
  /\ goal # NoGoal /\ GoalAtRest
  /\ \E fields \in SUBSET {"target", "months"} : \E values \in [fields -> Figures] :
       Asks(r, [at |-> "revising", fields |-> fields,
                goal |-> [f \in DOMAIN goal |-> IF f \in fields THEN values[f] ELSE goal[f]]])
  /\ UNCHANGED <<budget, allocated, history, goal, sent, inForce, goalStated>>

\* ... and all its columns are saved here, inserted if the row has gone.
GoalSave(r) ==
  /\ budgetReq[r].at = "revising"
  /\ goal' = budgetReq[r].goal
  /\ goalStated' = IF goalStated = NoGoal THEN NoGoal
                   ELSE [f \in DOMAIN goal |-> IF f \in budgetReq[r].fields
                                                THEN budgetReq[r].goal[f] ELSE goalStated[f]]
  /\ Replies(r)
  /\ UNCHANGED <<budget, allocated, history, sent, inForce>>

GoalDelete ==
  /\ goal # NoGoal /\ GoalAtRest
  /\ goal' = NoGoal
  /\ goalStated' = NoGoal
  /\ UNCHANGED <<budget, allocated, history, budgetReq, sent, inForce>>

\* PATCH /dashboard/goal: update_or_create locks the row it finds, and one
\* that another request inserts first is found on the second look.
GoalUpsert(g) ==
  /\ GoalAtRest
  /\ goal' = g
  /\ goalStated' = g
  /\ UNCHANGED <<budget, allocated, history, budgetReq, sent, inForce>>

AllocationsNext ==
  \E r \in BudgetThreads :
    \/ \E list \in Lists : CreateCheck(r, list)
    \/ CreateRow(r)
    \/ \E list \in Lists \cup {NoList} : PatchRead(r, list)
    \/ PatchRecord(r)
    \/ PatchSave(r)
    \/ PatchClear(r)
    \/ Allocate(r)

GoalNext ==
  \/ GoalDelete
  \/ \E g \in Goal : GoalUpsert(g)
  \/ \E r \in BudgetThreads :
       \/ \E g \in Goal : GoalCheck(r, g)
       \/ GoalCreate(r)
       \/ GoalRead(r)
       \/ GoalSave(r)

BudgetNext == AllocationsNext \/ GoalNext

BudgetSpec == BudgetInit /\ [][BudgetNext]_budgetVars

(***************************************************************************)
(* Properties                                                              *)
(***************************************************************************)

\* The category a list repeats, if any, ends its application.
Applied(list) ==
  LET first(i) == \A j \in 1..(i - 1) : list[j].category # list[i].category
      upTo     == {i \in DOMAIN list : \A j \in 1..i : first(j)}
  IN  [c \in Categories |->
         IF \E i \in upTo : list[i].category = c
           THEN list[CHOOSE i \in upTo : list[i].category = c].share
           ELSE 0]

\* "Fully replaces the existing category set rather than merging with it":
\* when nobody is applying a list, the allocations are those of one request
\* and of no other, up to the category that a list names twice.
PlanOfOneRequest ==
  (\A r \in BudgetThreads : budgetReq[r].at # "applying") =>
    (sent # NoList => allocated = Applied(sent))

\* "Every change is snapshotted into GET /budget/history before being applied":
\* allocations that were once in force are in force or in the history, also
\* in the middle of a change and after one that failed halfway.
ReplacedIsRecorded ==
  inForce \subseteq history \cup {allocated}

\* The goal is what the answered requests say, field by field: of creations and
\* upserts that race none is answered in vain, no PATCH takes back a field it
\* did not send, and a deleted goal stays deleted.
GoalAsStated ==
  goal = goalStated

\* What a user is told of budget, history and goal stays so.
BudgetAsStated == PlanOfOneRequest /\ ReplacedIsRecorded /\ GoalAsStated
=============================================================================
