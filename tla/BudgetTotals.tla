---------------------------- MODULE BudgetTotals ----------------------------
(***************************************************************************)
(* The arithmetic of BudgetsService.create: what a budget's items cost, in *)
(* the doubles JavaScript computes with, and what of it the integer        *)
(* columns take.                                                           *)
(*                                                                         *)
(* The DTO bounds quantity and unitAmountCents from below only.  A double  *)
(* holds every integer up to SafeInteger = 2^53 and above that only        *)
(* multiples of a power of two; a column holds up to Int4Max = 2^31 - 1.   *)
(* Both are constants, so that a run can cross them.                       *)
(***************************************************************************)
EXTENDS Integers, Sequences

CONSTANTS
  Quantities, UnitAmounts,   \* what the provider may ask for
  MaxItems,                  \* bound on the items of a budget
  Int4Max, SafeInteger

ASSUME TotalsAssumption ==
  /\ Quantities \subseteq Nat \ {0}
  /\ UnitAmounts \subseteq Nat
  /\ MaxItems \in Nat \ {0}
  /\ Int4Max \in Nat \ {0} /\ SafeInteger \in Nat
  /\ Int4Max < SafeInteger

VARIABLE budget   \* the budget stored, if one is: what was asked, and the columns

Item == [quantity : Quantities, unitAmountCents : UnitAmounts]

\* The distance of two doubles around n: it doubles where n does.
Spacing(n) ==
  LET spacing[i \in 0..n] ==
        IF i <= SafeInteger THEN 1 ELSE 2 * spacing[(i + 1) \div 2]
  IN spacing[n]

\* The double nearest to n, the even one of two.
Double(n) ==
  LET p == Spacing(n)
      q == n \div p
      r == n % p
  IN CASE 2 * r < p -> q * p
       [] 2 * r > p -> (q + 1) * p
       [] OTHER     -> (q + (q % 2)) * p

AmountCents(item) == Double(item.quantity * item.unitAmountCents)

SubtotalCents(items) ==
  LET sum[i \in 0..Len(items)] ==
        IF i = 0 THEN 0 ELSE Double(sum[i - 1] + AmountCents(items[i]))
  IN sum[Len(items)]

\* Mutant: wider columns.
FitsAnything(n) == TRUE

\* An Int column; Prisma refuses the whole nested write otherwise.
Fits(n) == n <= Int4Max

NoBudget == [asked |-> <<>>]

\* Mutant: the total's column takes any number.
StorableAmounts(items) ==
  \A i \in DOMAIN items :
    /\ Fits(items[i].quantity)
    /\ Fits(items[i].unitAmountCents)
    /\ Fits(AmountCents(items[i]))

\* What the columns take, each amount and the total.
Storable(items) ==
  /\ \A i \in DOMAIN items :
       /\ Fits(items[i].quantity)
       /\ Fits(items[i].unitAmountCents)
       /\ Fits(AmountCents(items[i]))
  /\ Fits(SubtotalCents(items))

\* budget.create with its items, in one transaction.
Create(items) ==
  budget' = [asked        |-> items,
             amountsCents |-> [i \in DOMAIN items |-> AmountCents(items[i])],
             totalCents   |-> SubtotalCents(items)]

-----------------------------------------------------------------------------
\* What a budget costs, without any rounding.
ExactCents(item) == item.quantity * item.unitAmountCents

ExactSubtotal(items) ==
  LET sum[i \in 0..Len(items)] ==
        IF i = 0 THEN 0 ELSE sum[i - 1] + ExactCents(items[i])
  IN sum[Len(items)]

\* Each item of a stored budget costs exactly what was asked for it: a product
\* that a double rounds never gets past the columns (create).
ExactAmounts ==
  budget # NoBudget =>
    \A i \in DOMAIN budget.asked :
      budget.amountsCents[i] = ExactCents(budget.asked[i])

\* And the budget costs what its items do, though the sum is rounded at each
\* item and only its end result meets a column (create).
ExactTotal ==
  budget # NoBudget => budget.totalCents = ExactSubtotal(budget.asked)
=============================================================================
