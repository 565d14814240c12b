SPECIFICATION DeskSpec
CONSTANTS
  Plans = {y1, y2}
  Instruments = {z1, z2}
  PlanThreads = {h1, h2}
  MaxQuantity = 2
  CarefulOwner = TRUE
  Categories = {y1, y2}
  Whole = 2
  Figures = {1, 2}
  BudgetThreads = {h1, h2}
  CarefulBudgeter = TRUE
  Tokens = {z1, z2}
  Tickets = {y1, y2}
  SessionThreads = {h1, h2}
  CarefulProfile = TRUE
  AccountIds = {z1, z2}
  Banks = {y1, y2}
  Spellings = {"as printed"}
  Numbers = {"n"}
  Statements = {s1}
  RegistryThreads = {h1, h2}
  CarefulLinker = TRUE
  Goods = {y1, y2, x1}
  Increment <- Halves
  Grain = 4
  Sums = {2500, 6665, 70001}
  Prices = {333}
  Measures = {3, 40}
  MaxItems = 3
  Days <- BankDays
  Signed <- BankSums
  MaxRows = 5
  AdminTokens = {x1, x2, x3}
  Wordings = {y1, y2}
  Phrases = 2
  AdminThreads = {h1, h2}
  CarefulAdmin = TRUE
  Entries <- YearsEnds
  Envelopes <- FoodAndPay
  Goals <- TwoGoals
  Dates <- LookedOn
  Customers = {x1, x2}
  Challenges = {y1, y2}
  Codes = {z1, z2}
  MaxPasswords = 2
  LoginThreads = {h1, h2}
  CarefulCustomer = TRUE
  Holders = {x1}
  Events = {y1, y2}
  FeedThreads = {h1, h2}
  Papers = {x1}
  QuoteThreads = {h1, h2}
  MaxAge = 1
  Ttl = 1
  Patience = 1
  Horizon = 3
CHECK_DEADLOCK FALSE
SYMMETRY Symmetry
INVARIANTS
  DeskTypeOK
  OwnedAsStated
  BudgetAsStated
  AccountAsStated
  OnlyStatementsShadow
  EditsOfSmallPlansPass
  ShownAsRecorded
  AdminAsStated
  PagesAgree
  LoginAsMailed
  FeedAsRecorded
