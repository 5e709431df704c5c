----------------------------- MODULE BalanceSheet -----------------------------
(***************************************************************************)
(* packages/core/src/finance/networth.ts and assetAllocation.ts: what the  *)
(* program computes from a list of accounts.  An account is a record       *)
(* [type, assetClass, currency, balance, isLiability]; ids are its keys.   *)
(***************************************************************************)
EXTENDS Money, Sequences, SequencesExt

NoClass == "none"   \* an account without an assetClass

Liabilities(book) == {i \in DOMAIN book : book[i].isLiability}
Owned(book)       == DOMAIN book \ Liabilities(book)
Held(book, c)     == {i \in Owned(book) : book[i].assetClass = c}

Balance(book, ids) == SumOver([i \in DOMAIN book |-> book[i].balance], ids)
Owed(book) ==
    SumOver([i \in DOMAIN book |-> Magnitude(book[i].balance)], Liabilities(book))
------------------------------------------------------------------------------
\* computeNetWorth: liabilities count by magnitude.
\* FAULT: a liability is among the assets as well.
ComputeNetWorthGross(book) ==
    LET assets == Balance(book, DOMAIN book)
    IN  [assets |-> assets, liabilities |-> Owed(book),
         netWorth |-> assets - Owed(book)]

ComputeNetWorth(book) ==
    LET assets == Balance(book, Owned(book))
    IN  [assets |-> assets, liabilities |-> Owed(book),
         netWorth |-> assets - Owed(book)]
------------------------------------------------------------------------------
\* ALL_CLASSES, in the order in which suggestions of equal drift stay.
AllClasses == <<"equity", "debt", "gold", "real_estate",
                "cash", "crypto", "business", "other">>
AssetClass == ToSet(AllClasses)

\* Allocation: the value held per class; accounts without a class are left out.
ValuesByClass(book) ==
    [c \in {book[i].assetClass : i \in Owned(book)} \ {NoClass} |->
        Balance(book, Held(book, c))]

ValueOf(values, c) == IF c \in DOMAIN values THEN values[c] ELSE 0

\* FAULT: the shares are taken of the classes held, not of their sum.
NormalizeLargest(values) ==
    LET largest == Max({ValueOf(values, c) : c \in AssetClass})
    IN  [c \in AssetClass |->
            IF largest > 0 THEN Round(1000 * ValueOf(values, c), largest) ELSE 0]

\* normalize: shares in tenths of a percent, all zero without a positive total.
Normalize(values) ==
    LET total == SumOver([c \in AssetClass |-> ValueOf(values, c)], AssetClass)
    IN  [c \in AssetClass |->
            IF total > 0 THEN Round(1000 * ValueOf(values, c), total) ELSE 0]

\* recommendedAllocation: the model portfolio, its equity share moved half way
\* to "100 - age" when the age is given; age 0 stands for none.
BaseMix(risk) ==
    CASE risk = "conservative" ->
           [equity |-> 30, debt |-> 45, gold |-> 10, real_estate |-> 10, cash |-> 5]
      [] risk = "moderate" ->
           [equity |-> 55, debt |-> 25, gold |-> 10, real_estate |-> 7, cash |-> 3]
      [] risk = "aggressive" ->
           [equity |-> 75, debt |-> 12, gold |-> 8, real_estate |-> 3, cash |-> 2]

RecommendedAllocation(risk, age) ==
    LET mix    == BaseMix(risk)
        glide  == Larger(20, Smaller(80, 100 - age))
        equity == Round(mix.equity + glide, 2)
    IN  Normalize(IF age = 0 THEN mix
                  ELSE [mix EXCEPT !.equity = equity,
                                   !.debt = @ + (mix.equity - equity)])

\* analyzeAllocation: the drift per class and the classes that are 5 points or
\* more off, the furthest first.
AnalyzeAllocation(values, risk, age) ==
    LET current     == Normalize(values)
        recommended == RecommendedAllocation(risk, age)
        drift       == [c \in AssetClass |-> current[c] - recommended[c]]
        Place(c)    == CHOOSE n \in DOMAIN AllClasses : AllClasses[n] = c
        Before(a, b) ==
            \/ Magnitude(drift[a]) > Magnitude(drift[b])
            \/ Magnitude(drift[a]) = Magnitude(drift[b]) /\ Place(a) < Place(b)
    IN  [current |-> current, recommended |-> recommended, drift |-> drift,
         suggestions |->
            SetToSortSeq({c \in AssetClass : Magnitude(drift[c]) >= 50}, Before)]
==============================================================================
