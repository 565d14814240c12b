---------------------------- MODULE PlanFigures ----------------------------
(***************************************************************************)
(* The figures of a saved investment plan: how an edit or the removal of   *)
(* one of its items recalculates it, and the contract the outcome has to   *)
(* pass (core/serializers/investment_scenarios.py).                        *)
(*                                                                         *)
(* Money is in cents and a percentage in hundredths of a percent, as the   *)
(* code quantizes them.  Quantities are in grains, the unit in which an    *)
(* instrument's purchase increment is a whole number, and a price is that  *)
(* of Grain grains in cents: finer prices are left out.                    *)
(***************************************************************************)
EXTENDS Integers, Sequences, SequencesExt

CONSTANTS
  Goods,        \* instruments that plans may hold
  Increment,    \* minimum_increment of each, in grains
  Grain,        \* grains of a priced unit
  Sums,         \* amounts a user plans for an item, in cents
  Prices,       \* unit prices, in cents
  Measures,     \* quantities a user plans, in grains
  MaxItems      \* max_length of the allocations, 3 in the code

ASSUME FiguresAssumption ==
  /\ Increment \in [Goods -> Nat \ {0}] /\ Grain \in Nat \ {0}
  /\ Sums \subseteq Nat \ {0} /\ Prices \subseteq Nat \ {0} /\ Measures \subseteq Nat \ {0}
  /\ MaxItems \in 1..3

VARIABLES
  figures,   \* payload_json["allocations"], in order; empty once the plan is deleted
  curated    \* instruments that are active in the catalogue

figuresVars == <<figures, curated>>

MONEY_TOLERANCE == 2
Percent100 == 10000

Abs(n) == IF n < 0 THEN -n ELSE n
RoundHalfUp(n, d) == (2 * n + d) \div (2 * d)
RoundHalfEven(n, d) ==
  LET q == n \div d  twice == 2 * (n % d)
  IN  IF twice > d \/ (twice = d /\ q % 2 = 1) THEN q + 1 ELSE q

SumOf(numbers) == FoldLeft(+, 0, numbers)
Confirmed(items) == SumOf([i \in DOMAIN items |-> items[i].target])

\* What buying the quantity takes.
Worth(item) == RoundHalfEven(item.quantity * item.price, Grain)

\* The largest multiple of the increment that the target pays for.
Affordable(good, target, price) ==
  ((target * Grain) \div (price * Increment[good])) * Increment[good]

(***************************************************************************)
(* InvestmentScenarioPayloadSerializer.validate, as _recalculate reaches   *)
(* it: the amounts that follow from others (allocated, remainder, totals)  *)
(* have just been computed from them.                                      *)
(***************************************************************************)
Valid(items) ==
  /\ Len(items) \in 1..MaxItems
  /\ LET confirmed == Confirmed(items) IN \A item \in ToSet(items) :
       /\ item.good \in curated
       /\ item.percentage \in 0..Percent100
       /\ Abs(item.target - RoundHalfEven(confirmed * item.percentage, Percent100))
            <= MONEY_TOLERANCE
       /\ item.quantity <= Affordable(item.good, item.target, item.price)
       /\ item.quantity % Increment[item.good] = 0
  /\ SumOf([i \in DOMAIN items |-> items[i].percentage]) = Percent100

\* Mutant: every percentage is rounded by itself.
PercentagesRounded(items) ==
  [i \in DOMAIN items |-> RoundHalfUp(items[i].target * Percent100, Confirmed(items))]

\* All but the last are rounded; the last is what they leave.
Percentages(items) ==
  LET confirmed == Confirmed(items)
      rounded(i) == RoundHalfUp(items[i].target * Percent100, confirmed)
      used == SumOf([i \in 1..(Len(items) - 1) |-> rounded(i)])
  IN  [i \in DOMAIN items |-> IF i = Len(items) THEN Percent100 - used ELSE rounded(i)]

Recalculated(items) ==
  LET percentages == Percentages(items)
  IN  [i \in DOMAIN items |-> [items[i] EXCEPT !.percentage = percentages[i]]]

\* _recalculate_saved_payload answers with a plan rather than an error.
Accepted(items) ==
  /\ items # <<>>
  /\ \A item \in ToSet(items) :
       /\ item.quantity % Increment[item.good] = 0
       /\ Worth(item) <= item.target
  /\ Valid(Recalculated(items))

\* What a user may ask to change of an item.
Change == [target : Sums \cup {0}, price : Prices \cup {0}, quantity : Measures \cup {0}]
Kept == 0   \* a field that was not sent
Changes == Change \ {[target |-> Kept, price |-> Kept, quantity |-> Kept]}

\* The item a change makes of one: without a quantity, the largest there is
\* for the new amount or price.
Changed(item, change) ==
  LET target == IF change.target = Kept THEN item.target ELSE change.target
      price  == IF change.price = Kept THEN item.price ELSE change.price
  IN  [item EXCEPT !.target = target, !.price = price,
                   !.quantity = IF change.quantity # Kept THEN change.quantity
                                ELSE Affordable(item.good, target, price)]

Drafted(i, change) == [figures EXCEPT ![i] = Changed(@, change)]

(***************************************************************************)
(* The plan                                                                *)
(***************************************************************************)

PlanItem(good, target, price) ==
  [good |-> good, target |-> target, price |-> price, percentage |-> 0,
   quantity |-> Affordable(good, target, price)]

\* Plans the assistant proposes and validate_saved_payload lets be saved.
FiguresInit ==
  /\ curated = Goods
  /\ \E goods \in {s \in SeqOf(Goods, MaxItems) : s # <<>> /\ IsInjective(s)} :
       \E targets \in [DOMAIN goods -> Sums], price \in Prices :
         figures = Recalculated([i \in DOMAIN goods |-> PlanItem(goods[i], targets[i], price)])
  /\ Accepted(figures)

\* update_saved_allocation
EditItem(i, change) ==
  /\ Accepted(Drafted(i, change))
  /\ figures' = Recalculated(Drafted(i, change))
  /\ UNCHANGED curated

\* remove_saved_allocation; without its last item the plan is deleted.
RemoveItem(i) ==
  LET remaining == RemoveAt(figures, i)
  IN  /\ remaining = <<>> \/ Accepted(remaining)
      /\ figures' = IF remaining = <<>> THEN <<>> ELSE Recalculated(remaining)
      /\ UNCHANGED curated

\* An administrator takes an instrument out of the catalogue, or puts it back.
Curate(good) ==
  /\ curated' = IF good \in curated THEN curated \ {good} ELSE curated \cup {good}
  /\ UNCHANGED figures

FiguresNext ==
  \/ \E i \in DOMAIN figures, change \in Changes : EditItem(i, change)
  \/ \E i \in DOMAIN figures : RemoveItem(i)
  \/ \E good \in Goods : Curate(good)

FiguresSpec == FiguresInit /\ [][FiguresNext]_figuresVars

(***************************************************************************)
(* Properties                                                              *)
(***************************************************************************)

PlanFigure ==
  [good : Goods, target : Sums, price : Prices, percentage : 0..Percent100, quantity : Nat]

FiguresTypeOK ==
  /\ curated \subseteq Goods
  /\ figures \in Seq(PlanFigure) /\ Len(figures) <= MaxItems

\* Nothing is wrong with these items: they are in the catalogue, and their
\* quantities are whole increments that the amounts pay for.
WellFormed(items) ==
  \A item \in ToSet(items) :
    /\ item.good \in curated
    /\ item.quantity % Increment[item.good] = 0
    /\ item.quantity * item.price <= item.target * Grain

\* Below 200.00 a hundredth of a percent is at most the tolerance of 0.02.
Small(items) == Confirmed(items) <= MONEY_TOLERANCE * Percent100

\* "Edit a pending plan item and deterministically recalculate the plan": a
\* small plan never gets stuck in its own roundings, whatever sequence of edits
\* has led to it.  Every well-formed edit and removal of an item is accepted.
EditsOfSmallPlansPass ==
  /\ \A i \in DOMAIN figures, change \in Changes :
       LET draft == Drafted(i, change)
       IN  WellFormed(draft) /\ Small(draft) => Accepted(draft)
  /\ \A i \in DOMAIN figures :
       LET remaining == RemoveAt(figures, i)
       IN  remaining # <<>> /\ WellFormed(remaining) /\ Small(remaining) => Accepted(remaining)
=============================================================================
