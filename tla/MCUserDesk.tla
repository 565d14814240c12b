----------------------------- MODULE MCUserDesk -----------------------------
(***************************************************************************)
(* Instances for TLC of what a user and an administrator do at their desk. *)
(* The modules share no state, so that their product would be of no use:   *)
(* every behaviour plays one scene, the component it is about, and leaves  *)
(* the others as they are.  What a run says of the union it says of each.  *)
(*                                                                         *)
(* The instances share their model values: two threads, two things (plans, *)
(* categories, tickets, banks, wordings, conversations), and so on.        *)
(***************************************************************************)
EXTENDS InvestmentPlan, BudgetPlan, Sessions, AccountRegistry,
        PlanFigures, LedgerFigures, HoldingQuotes, SpendingFigures, AdminDesk,
        BankLogin, BankFeed, TLC

VARIABLE scene   \* the component a behaviour is about

deskVars == <<scene, investmentVars, budgetVars, sessionVars, registryVars, figuresVars,
              ledger, adminVars, spendingVars, loginVars, feedVars,
              quotesVars>>

Scenes == {"investment", "budget", "goal", "session", "registry", "figures",
           "ledger", "admin", "spending", "login", "feed", "quotes"}

DeskInit ==
  /\ scene \in Scenes
  /\ InvestmentInit /\ BudgetInit /\ RegistryInit /\ LedgerInit /\ AdminInit
  /\ SpendingInit /\ LoginInit /\ FeedInit /\ QuotesInit
  /\ SessionInit /\ (scene # "session" => \A r \in SessionThreads : IsAt(r, "idle"))
  /\ IF scene = "figures" THEN FiguresInit ELSE figures = <<>> /\ curated = Goods

PlayInvestment ==
  /\ scene = "investment" /\ InvestmentNext
  /\ UNCHANGED <<scene, budgetVars, sessionVars, registryVars, figuresVars,
                 ledger, adminVars, spendingVars, loginVars, feedVars,
                 quotesVars>>

\* A user's budget and savings goal share nothing but the threads.
PlayBudget ==
  /\ \/ scene = "budget" /\ AllocationsNext
     \/ scene = "goal" /\ GoalNext
  /\ UNCHANGED <<scene, investmentVars, sessionVars, registryVars, figuresVars,
                 ledger, adminVars, spendingVars, loginVars, feedVars,
                 quotesVars>>

PlaySession ==
  /\ scene = "session" /\ SessionNext
  /\ UNCHANGED <<scene, investmentVars, budgetVars, registryVars, figuresVars,
                 ledger, adminVars, spendingVars, loginVars, feedVars,
                 quotesVars>>

PlayRegistry ==
  /\ scene = "registry" /\ RegistryNext
  /\ UNCHANGED <<scene, investmentVars, budgetVars, sessionVars, figuresVars,
                 ledger, adminVars, spendingVars, loginVars, feedVars,
                 quotesVars>>

PlayFigures ==
  /\ scene = "figures" /\ FiguresNext
  /\ UNCHANGED <<scene, investmentVars, budgetVars, sessionVars, registryVars,
                 ledger, adminVars, spendingVars, loginVars, feedVars,
                 quotesVars>>

PlayLedgerFigures ==
  /\ scene = "ledger" /\ LedgerFiguresNext
  /\ UNCHANGED <<scene, investmentVars, budgetVars, sessionVars, registryVars,
                 figuresVars, adminVars, spendingVars, loginVars, feedVars,
                 quotesVars>>

PlayAdmin ==
  /\ scene = "admin" /\ AdminNext
  /\ UNCHANGED <<scene, investmentVars, budgetVars, sessionVars, registryVars,
                 figuresVars, ledger, spendingVars, loginVars, feedVars,
                 quotesVars>>

PlaySpending ==
  /\ scene = "spending" /\ SpendingNext
  /\ UNCHANGED <<scene, investmentVars, budgetVars, sessionVars, registryVars,
                 figuresVars, ledger, adminVars, loginVars, feedVars,
                 quotesVars>>

PlayBankLogin ==
  /\ scene = "login" /\ BankLoginNext
  /\ UNCHANGED <<scene, investmentVars, budgetVars, sessionVars, registryVars,
                 figuresVars, ledger, adminVars, spendingVars, feedVars,
                 quotesVars>>

PlayFeed ==
  /\ scene = "feed" /\ FeedNext
  /\ UNCHANGED <<scene, investmentVars, budgetVars, sessionVars, registryVars,
                 figuresVars, ledger, adminVars, spendingVars, loginVars,
                 quotesVars>>

PlayQuotes ==
  /\ scene = "quotes" /\ QuotesNext
  /\ UNCHANGED <<scene, investmentVars, budgetVars, sessionVars, registryVars,
                 figuresVars, ledger, adminVars, spendingVars, loginVars,
                 feedVars>>

DeskNext ==
  \/ PlayInvestment
  \/ PlayBudget
  \/ PlaySession
  \/ PlayRegistry
  \/ PlayFigures
  \/ PlayLedgerFigures
  \/ PlayAdmin
  \/ PlaySpending
  \/ PlayBankLogin
  \/ PlayFeed
  \/ PlayQuotes

DeskSpec == DeskInit /\ [][DeskNext]_deskVars

\* Within a scene the threads, and each of two kinds of things, are alike.
Symmetry ==
  Permutations(PlanThreads) \cup Permutations(Plans) \cup Permutations(Instruments)

\* The state of the component a behaviour is about is of its type: rows, requests
\* in progress and histories are what its code can hold.  (The others never move.)
DeskTypeOK ==
  CASE scene = "investment" -> InvestmentTypeOK
    [] scene \in {"budget", "goal"} -> BudgetTypeOK
    [] scene = "session"    -> SessionTypeOK
    [] scene = "registry"   -> RegistryTypeOK
    [] scene = "figures"    -> FiguresTypeOK
    [] scene = "ledger"     -> LedgerFiguresTypeOK
    [] scene = "admin"      -> AdminTypeOK
    [] scene = "spending"   -> SpendingTypeOK
    [] scene = "login"      -> LoginTypeOK
    [] scene = "feed"       -> FeedTypeOK
    [] scene = "quotes"     -> QuotesTypeOK

\* What the pages show of what a user owns is what was recorded of it: the balance
\* of a bank account is the bank's, as far as the ledger knows it, and the price of
\* a holding is the market's, as far as the cache lets it be.
ShownAsRecorded == BalanceAsStated /\ QuotesAsObserved

\* What the goods of a plan may be bought in, and the record of the bank.
Halves   == [g \in Goods |-> 2]
BankDays == <<1, 1, 2, 2, 2>>
BankSums == <<100, -30, -5, 40, -8>>

\* Transactions and days around the turn of a year, the end of a month and a
\* leap day, the envelopes of a budget and two goals.
On(year, month, day, kind, category, amount) ==
  [on |-> Date(year, month, day), kind |-> kind, category |-> category, amount |-> amount]
YearsEnds == {On(2023, 12, 31, "debit", "food", 4), On(2023, 12, 1, "credit", "pay", 3),
              On(2024, 1, 31, "debit", "food", 1), On(2024, 2, 29, "credit", "pay", 3),
              On(2024, 1, 2, "none", "food", 2), On(2024, 2, 10, "fee", "none", 2),
              On(2019, 12, 31, "credit", "pay", 1)}
FoodAndPay == [c \in {"food", "pay"} |-> IF c = "food" THEN 5 ELSE 0]
TwoGoals   == {[target |-> 3, months |-> 2], [target |-> 5, months |-> 12]}
LookedOn   == {Date(2023, 12, 1), Date(2023, 12, 31), Date(2024, 1, 31), Date(2024, 2, 15),
               Date(2024, 2, 29), Date(2024, 5, 1)}
=============================================================================
