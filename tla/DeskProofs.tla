----------------------------- MODULE DeskProofs ------------------------------
(***************************************************************************)
(* Proofs about the scenes of MCUserDesk, for every value of the constants *)
(* and not for the instances of its run.  A behaviour of the desk is one   *)
(* of each component, so that what is proved of the components in the      *)
(* modules extended here is proved of the desk.                            *)
(***************************************************************************)
EXTENDS MCUserDesk, UserDeskProofs, InvestmentProofs, MockBankProofs, FiguresProofs

\* Where the scene is the component's its code moves, and elsewhere nothing of it does.
LEMMA DeskSteps ==
  ASSUME [DeskNext]_deskVars
  PROVE  /\ [InvestmentNext]_investmentVars /\ [BudgetNext]_budgetVars
         /\ [SessionNext]_sessionVars /\ [RegistryNext]_registryVars
         /\ [LedgerFiguresNext]_ledger /\ [AdminNext]_adminVars
         /\ [SpendingNext]_spendingVars /\ [BankLoginNext]_loginVars
         /\ [FeedNext]_feedVars /\ [QuotesNext]_quotesVars
         /\ [FiguresNext]_figuresVars /\ scene' = scene
<1>1. CASE PlayInvestment
  BY <1>1 DEF PlayInvestment
<1>2. CASE PlayBudget
  BY <1>2 DEF PlayBudget, BudgetNext
<1>3. CASE PlaySession
  BY <1>3 DEF PlaySession
<1>4. CASE PlayRegistry
  BY <1>4 DEF PlayRegistry
<1>5. CASE PlayFigures
  BY <1>5 DEF PlayFigures
<1>6. CASE PlayLedgerFigures
  BY <1>6 DEF PlayLedgerFigures
<1>7. CASE PlayAdmin
  BY <1>7 DEF PlayAdmin
<1>8. CASE PlaySpending
  BY <1>8 DEF PlaySpending
<1>9. CASE PlayBankLogin
  BY <1>9 DEF PlayBankLogin
<1>10. CASE PlayFeed
  BY <1>10 DEF PlayFeed
<1>11. CASE PlayQuotes
  BY <1>11 DEF PlayQuotes
<1>12. CASE UNCHANGED deskVars
  BY <1>12 DEF deskVars
<1> QED BY <1>1, <1>2, <1>3, <1>4, <1>5, <1>6, <1>7, <1>8, <1>9, <1>10, <1>11, <1>12 DEF DeskNext

\* Every behaviour of the desk is a behaviour of each of its components, of core/views and
\* core/services, that has a scene: what is shown of a component alone holds at the desk.
\* (The figures of a plan begin elsewhere without a plan.)
THEOREM DeskPlaysComponents ==
  DeskSpec => /\ InvestmentSpec /\ BudgetSpec /\ SessionSpec /\ RegistrySpec
              /\ LedgerFiguresSpec /\ AdminSpec /\ SpendingSpec
              /\ BankLoginSpec /\ FeedSpec /\ QuotesSpec
<1>1. DeskInit => /\ InvestmentInit /\ BudgetInit /\ SessionInit /\ RegistryInit
                  /\ LedgerInit /\ AdminInit /\ SpendingInit
                  /\ LoginInit /\ FeedInit /\ QuotesInit
  BY DEF DeskInit
<1>2. [DeskNext]_deskVars =>
        /\ [InvestmentNext]_investmentVars /\ [BudgetNext]_budgetVars
        /\ [SessionNext]_sessionVars /\ [RegistryNext]_registryVars
        /\ [LedgerFiguresNext]_ledger /\ [AdminNext]_adminVars
        /\ [SpendingNext]_spendingVars /\ [BankLoginNext]_loginVars
        /\ [FeedNext]_feedVars /\ [QuotesNext]_quotesVars
  BY DeskSteps
<1> QED BY <1>1, <1>2, PTL DEF DeskSpec, InvestmentSpec, BudgetSpec, SessionSpec, RegistrySpec,
      LedgerFiguresSpec, AdminSpec, SpendingSpec, BankLoginSpec, FeedSpec, QuotesSpec

\* A scene is never left, and the figures of a plan, or of none, are of their type.
FiguresPlayed == scene \in Scenes /\ FiguresTypeOK

LEMMA FiguresStayTyped == DeskSpec => []FiguresPlayed
<1>1. DeskInit => FiguresPlayed
  <2> SUFFICES ASSUME DeskInit PROVE FiguresPlayed
    OBVIOUS
  <2>1. CASE scene = "figures"
    <3>1. FiguresInit /\ scene \in Scenes
      BY <2>1 DEF DeskInit
    <3> QED BY <3>1, FiguresBegin DEF FiguresPlayed
  <2>2. CASE scene # "figures"
    <3>1. figures = <<>> /\ curated = Goods /\ scene \in Scenes
      BY <2>2 DEF DeskInit
    <3>2. <<>> \in Seq(PlanFigure) /\ Len(<<>>) = 0 /\ 0 <= MaxItems
      BY FiguresAssumption
    <3> QED BY <3>1, <3>2 DEF FiguresPlayed, FiguresTypeOK
  <2> QED BY <2>1, <2>2
<1>2. FiguresPlayed /\ [DeskNext]_deskVars => FiguresPlayed'
  <2> SUFFICES ASSUME FiguresPlayed, [DeskNext]_deskVars PROVE FiguresPlayed'
    OBVIOUS
  <2>1. scene' = scene /\ [FiguresNext]_figuresVars
    BY DeskSteps
  <2>2. FiguresTypeOK'
    BY <2>1, FiguresStep DEF FiguresPlayed
  <2> QED BY <2>1, <2>2 DEF FiguresPlayed
<1> QED BY <1>1, <1>2, PTL DEF DeskSpec

\* Whatever is played, the component it is about keeps rows, requests and histories of its
\* type, if nobody starts a change of a row while another of it is under way.
THEOREM DeskTyping ==
  ASSUME CarefulOwner, CarefulBudgeter, CarefulProfile, CarefulLinker, CarefulAdmin
  PROVE  DeskSpec => []DeskTypeOK
<1>1. /\ InvestmentSpec => []InvestmentTypeOK
      /\ BudgetSpec => []BudgetTypeOK
      /\ SessionSpec => []SessionTypeOK
      /\ RegistrySpec => []RegistryTypeOK
      /\ AdminSpec => []AdminTypeOK
  <2>1. InvestmentSpec => []InvestmentTypeOK
    BY InvestmentAssumption, OwnedTyping
  <2>2. BudgetSpec => []BudgetTypeOK
    BY BudgetAssumption, BudgetTyping
  <2>3. SessionSpec => []SessionTypeOK
    BY SessionAssumption, SessionTyping
  <2>4. RegistrySpec => []RegistryTypeOK
    BY RegistryAssumption, RegistryTyping
  <2>5. AdminSpec => []AdminTypeOK
    BY AdminAssumption, AdminTyping
  <2> QED BY <2>1, <2>2, <2>3, <2>4, <2>5
<1>2. FeedSpec => []FeedTypeOK
  BY FeedAssumption, FeedTyping
<1>3. QuotesSpec => []QuotesTypeOK
  BY QuotesAssumption, QuotesTyping
<1>4. /\ InvestmentTypeOK /\ BudgetTypeOK /\ SessionTypeOK /\ RegistryTypeOK
      /\ LedgerFiguresTypeOK /\ AdminTypeOK /\ SpendingTypeOK /\ LoginTypeOK
      /\ FeedTypeOK /\ QuotesTypeOK /\ FiguresPlayed
      => DeskTypeOK
  BY DEF FiguresPlayed, DeskTypeOK, Scenes
<1> QED BY <1>1, <1>2, <1>3, <1>4, DeskPlaysComponents, FiguresStayTyped,
      LedgerFiguresTyping, SpendingTyping, LoginTyping, PTL

\* What the pages show of accounts and holdings is what was recorded of them: the balance is
\* the bank's, once nothing is missing, and no price is older than the cache lets it be.
THEOREM DeskShowsRecords == DeskSpec => []ShownAsRecorded
<1>1. QuotesSpec => []QuotesAsObserved
  BY QuotesAssumption, QuotesFresh
<1>2. BalanceAsStated /\ QuotesAsObserved => ShownAsRecorded
  BY DEF ShownAsRecorded
<1> QED BY <1>1, <1>2, DeskPlaysComponents, BalanceStated, PTL

\* What users, administrators and customers of the bank are told at the desk stays so, in any
\* number of threads and of any number of rows, plans, tokens, accounts and transactions.
THEOREM DeskKeepsWord ==
  ASSUME CarefulOwner, CarefulBudgeter, CarefulProfile, CarefulLinker, CarefulAdmin, CarefulCustomer
  PROVE  DeskSpec => /\ []OwnedAsStated /\ []BudgetAsStated /\ []AccountAsStated
                     /\ []OnlyStatementsShadow /\ []EditsOfSmallPlansPass /\ []AdminAsStated
                     /\ []PagesAgree /\ []LoginAsMailed /\ []FeedAsRecorded
<1>1. InvestmentSpec => []OwnedAsStated
  BY InvestmentAssumption, OwnedOnce
<1>2. BudgetSpec => []BudgetAsStated
  BY BudgetAssumption, BudgetKept
<1>3. SessionSpec => []AccountAsStated
  BY SessionAssumption, AccountKept
<1>4. RegistrySpec => []OnlyStatementsShadow
  BY RegistryAssumption, NoShadows
<1>5. FiguresPlayed => EditsOfSmallPlansPass
  BY EditsOfSmallPlans DEF FiguresPlayed
<1>6. AdminSpec => []AdminAsStated
  BY AdminAssumption, AdminKeepsWord
<1>7. BankLoginSpec => []LoginAsMailed
  BY LoginEndsAsMailed
<1>8. FeedSpec => []FeedAsRecorded
  BY FeedAssumption, NothingFallsBetween
<1> QED BY <1>1, <1>2, <1>3, <1>4, <1>5, <1>6, <1>7, <1>8, DeskPlaysComponents,
      FiguresStayTyped, PagesAlwaysAgree, PTL
==============================================================================
