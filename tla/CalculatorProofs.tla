--------------------------- MODULE CalculatorProofs ---------------------------
(***************************************************************************)
(* What the calculators of packages/core compute, for every input.  The    *)
(* payoff simulation, for any number of debts, any amounts that are not    *)
(* negative and any number of months: what is paid and owed adds up, the   *)
(* payoff order is exact, and the budget goes where the strategy says.     *)
(* The public tools, for every form and every call: the closed formulas of *)
(* plans and corpora are what saving, or drawing, period by period comes   *)
(* to; mixes are whole, deductions add up, and a quiz is scored on what    *)
(* was sent.                                                               *)
(***************************************************************************)
EXTENDS DebtPayoff, Tools, MoneyProofs, SequenceTheorems

RunRow == [balance : [Debt -> Nat], month : Nat, interest : Nat,
           payoffOrder : Seq([debt : Debt, month : Nat])]

TypeOK ==
    /\ debts \in [Debt -> DebtRow]
    /\ extra \in Extra
    /\ run \in [Strategy -> RunRow]
    /\ paid \in [Strategy -> Int]

\* The amounts of a month before, during and after it.
Owing(s) == [i \in Debt |-> run[s].balance[i] + Accrue(run[s].balance)[i]]
Mid(s)   == PayMinimum(Owing(s))
Left(s)  == PayExtra(s, Mid(s))
------------------------------------------------------------------------------
\* The form lists a finite number of debts.
LEMMA DebtsFinite == IsFiniteSet(Debt)
  BY DebtAssumption, FS_Interval DEF Debt

\* Products of amounts that are not negative are not negative.
LEMMA ProductNat == \A a, b \in Nat : a * b \in Nat
  OBVIOUS

\* A month's interest is not negative.
LEMMA InterestNat ==
    ASSUME NEW b \in Nat, NEW r \in Nat
    PROVE  MonthlyInterest(b, r) \in Nat
  <1>1. b * r \in Nat
    BY ProductNat
  <1> DEFINE p == b * r
  <1> HIDE DEF p
  <1>2. p \in Nat => (2 * p + 1200) \div (2 * 1200) \in Nat
    OBVIOUS
  <1>3. QED
    BY <1>1, <1>2 DEF MonthlyInterest, Round, p

\* The rows of the input are rows of DebtInput.
LEMMA RowType ==
    ASSUME debts \in [Debt -> DebtRow], extra \in Extra, NEW i \in Debt
    PROVE  /\ debts[i].principal \in Nat /\ debts[i].rate \in Nat
           /\ debts[i].minimum \in Nat /\ extra \in Nat
  BY DebtAssumption DEF DebtRow

\* Interest is accrued on every debt, and is not negative (debt.ts, the accrual loop).
LEMMA AccrueType ==
    ASSUME TypeOK, NEW b \in [Debt -> Nat]
    PROVE  Accrue(b) \in [Debt -> Nat]
  <1>1. ASSUME NEW i \in Debt
        PROVE  (IF b[i] > 0 THEN MonthlyInterest(b[i], debts[i].rate) ELSE 0) \in Nat
    <2>1. b[i] \in Nat /\ debts[i].rate \in Nat
      BY <1>1, RowType DEF TypeOK
    <2>2. QED
      BY <2>1, InterestNat
  <1>2. QED
    BY <1>1 DEF Accrue

\* The minimums leave something between nothing and what was owed.
LEMMA PayMinimumType ==
    ASSUME TypeOK, NEW b \in [Debt -> Nat]
    PROVE  /\ PayMinimum(b) \in [Debt -> Nat]
           /\ \A i \in Debt :
                 /\ PayMinimum(b)[i] <= b[i]
                 /\ PayMinimum(b)[i] > 0 => b[i] - PayMinimum(b)[i] = debts[i].minimum
                 /\ b[i] - debts[i].minimum <= PayMinimum(b)[i]
  <1> DEFINE p(i) == b[i] - Smaller(debts[i].minimum, b[i])
  <1>1. ASSUME NEW i \in Debt
        PROVE  /\ p(i) \in Nat /\ p(i) <= b[i]
               /\ p(i) > 0 => b[i] - p(i) = debts[i].minimum
               /\ b[i] - debts[i].minimum <= p(i)
    <2>1. b[i] \in Nat /\ debts[i].minimum \in Nat
      BY <1>1, RowType DEF TypeOK
    <2>2. QED
      BY <2>1 DEF Smaller
  <1>2. PayMinimum(b) = [i \in Debt |-> p(i)]
    BY DEF PayMinimum
  <1> HIDE DEF p
  <1>3. QED
    BY <1>1, <1>2

\* What the extra pool still holds when a debt's turn comes.
First(s, b, i) == {j \in Open(b) : Before(s, b, j, i)}
Pool(s, b, i)  == extra - SumOver(b, First(s, b, i))

\* The pool is an amount: what is owed before a debt is a finite sum.
LEMMA PoolType ==
    ASSUME TypeOK, NEW s, NEW b \in [Debt -> Nat], NEW i \in Debt
    PROVE  /\ First(s, b, i) \in SUBSET Debt /\ IsFiniteSet(First(s, b, i))
           /\ SumOver(b, First(s, b, i)) \in Nat
           /\ Pool(s, b, i) \in Int /\ extra \in Nat
  <1>1. First(s, b, i) \in SUBSET Debt
    BY DEF First, Open
  <1>2. IsFiniteSet(First(s, b, i))
    BY <1>1, DebtsFinite, FS_Subset
  <1>3. SumOver(b, First(s, b, i)) \in Nat
    BY <1>1, <1>2, SumNat
  <1>4. extra \in Nat
    BY RowType DEF TypeOK
  <1>5. QED
    BY <1>1, <1>2, <1>3, <1>4 DEF Pool

\* The extra leaves something between nothing and what there was; where it
\* leaves something the pool ended there, or had ended.
LEMMA PayExtraType ==
    ASSUME TypeOK, NEW s, NEW b \in [Debt -> Nat]
    PROVE  /\ PayExtra(s, b) \in [Debt -> Nat]
           /\ \A i \in Debt :
                /\ PayExtra(s, b)[i] <= b[i]
                /\ PayExtra(s, b)[i] < b[i] => Pool(s, b, i) > 0
                /\ Pool(s, b, i) >= b[i] => PayExtra(s, b)[i] = 0
                /\ PayExtra(s, b)[i] > 0 => b[i] - PayExtra(s, b)[i] >= Pool(s, b, i)
  <1>1. ASSUME NEW i \in Debt
        PROVE  LET p == b[i] - Larger(0, Smaller(Pool(s, b, i), b[i])) IN
                 /\ p \in Nat /\ p <= b[i]
                 /\ p < b[i] => Pool(s, b, i) > 0
                 /\ Pool(s, b, i) >= b[i] => p = 0
                 /\ p > 0 => b[i] - p >= Pool(s, b, i)
    <2>1. b[i] \in Nat /\ Pool(s, b, i) \in Int
      BY <1>1, PoolType
    <2>2. QED
      BY <2>1 DEF Smaller, Larger
  <1>2. PayExtra(s, b) = [i \in Debt |-> b[i] - Larger(0, Smaller(Pool(s, b, i), b[i]))]
    BY DEF PayExtra, Pool, First
  <1>3. QED
    BY <1>1, <1>2

\* Every amount of a month is a number, and a month does not raise what is owed.
LEMMA MonthType ==
    ASSUME TypeOK, NEW s \in Strategy
    PROVE  /\ run[s].balance \in [Debt -> Nat] /\ Accrue(run[s].balance) \in [Debt -> Nat]
           /\ Owing(s) \in [Debt -> Nat] /\ Mid(s) \in [Debt -> Nat]
           /\ Left(s) \in [Debt -> Nat]
           /\ \A i \in Debt : Left(s)[i] <= Mid(s)[i] /\ Mid(s)[i] <= Owing(s)[i]
  <1>1. run[s].balance \in [Debt -> Nat]
    BY DEF TypeOK, RunRow
  <1>2. Accrue(run[s].balance) \in [Debt -> Nat]
    BY <1>1, AccrueType
  <1>3. Owing(s) \in [Debt -> Nat]
    BY <1>1, <1>2 DEF Owing
  <1>4. Mid(s) \in [Debt -> Nat] /\ \A i \in Debt : Mid(s)[i] <= Owing(s)[i]
    BY <1>3, PayMinimumType DEF Mid
  <1>5. Left(s) \in [Debt -> Nat] /\ \A i \in Debt : Left(s)[i] <= Mid(s)[i]
    BY <1>4, PayExtraType DEF Left
  <1>6. QED
    BY <1>1, <1>2, <1>3, <1>4, <1>5
------------------------------------------------------------------------------
(* The payoff order *)

\* What Record appends: an entry of this month for every debt at nothing that
\* was not recorded yet, and no other.
Cleared(s, b) == {i \in Debt : b[i] = 0} \ Recorded(s)

\* One entry per debt newly at nothing, dated with the month.
LEMMA RecordExact ==
    ASSUME NEW s, NEW b, NEW month \in Nat
    PROVE  /\ Record(s, b, month) \in Seq([debt : Debt, month : Nat])
           /\ IsFiniteSet(Cleared(s, b))
           /\ Len(Record(s, b, month)) = Cardinality(Cleared(s, b))
           /\ Cleared(s, b) = {Record(s, b, month)[n].debt :
                                  n \in 1..Len(Record(s, b, month))}
           /\ \A n \in 1..Len(Record(s, b, month)) : Record(s, b, month)[n].month = month
  <1> DEFINE S == Cleared(s, b)
             C == Cardinality(S)
             new == [n \in 1..C |-> [debt |-> Nth(S, n), month |-> month]]
  <1>1. S \in SUBSET Debt
    BY DEF Cleared
  <1>2. Record(s, b, month) = new
    BY DEF Record, Cleared
  <1> HIDE DEF S
  <1>3. /\ IsFiniteSet(S) /\ C \in Nat
        /\ \A n \in 1..C : Nth(S, n) \in S
        /\ S = {Nth(S, n) : n \in 1..C}
    <2>1. IsFiniteSet(S)
      BY <1>1, DebtsFinite, FS_Subset
    <2>2. S \subseteq Int
      BY <1>1 DEF Debt
    <2>3. QED
      BY <2>1, <2>2, NthExact DEF C
  <1>4. new \in [1..C -> [debt : Debt, month : Nat]]
    BY <1>1, <1>3
  <1> HIDE DEF C
  <1>5. new \in Seq([debt : Debt, month : Nat]) /\ Len(new) = C
    <2>1. DOMAIN new = 1..C
      OBVIOUS
    <2> HIDE DEF new
    <2>2. new \in Seq([debt : Debt, month : Nat])
      BY <1>3, <1>4, SeqDef, ZenonT(30)
    <2>3. Len(new) \in Nat /\ 1..Len(new) = 1..C
      BY <2>1, <2>2, LenProperties
    <2>4. Len(new) = C
      <3>1. ASSUME NEW a \in Nat, NEW c \in Nat, 1..a = 1..c PROVE ~(a < c)
        <4>1. a < c => c \in 1..c /\ c \notin 1..a
          OBVIOUS
        <4>2. QED
          BY <3>1, <4>1
      <3>2. ~(Len(new) < C) /\ ~(C < Len(new))
        BY <1>3, <2>3, <3>1
      <3>3. QED
        BY <1>3, <2>3, <3>2
    <2>5. QED
      BY <2>2, <2>4
  <1>6. \A n \in 1..C : new[n].debt = Nth(S, n) /\ new[n].month = month
    OBVIOUS
  <1> HIDE DEF new
  <1>7. S = {new[n].debt : n \in 1..C}
    BY <1>3, <1>6
  <1>8. QED
    <2>1. /\ new \in Seq([debt : Debt, month : Nat]) /\ IsFiniteSet(S)
          /\ Len(new) = Cardinality(S) /\ S = {new[n].debt : n \in 1..Len(new)}
          /\ \A n \in 1..Len(new) : new[n].month = month
      BY <1>3, <1>5, <1>6, <1>7 DEF C
    <2>2. QED
      BY <1>2, <2>1 DEF S

\* A month in terms of the amounts named above.
LEMMA MonthEffect ==
    ASSUME TypeOK, NEW s \in Strategy, Month(s)
    PROVE  /\ run' = [run EXCEPT ![s] =
                  [balance |-> Left(s), month |-> run[s].month + 1,
                   interest |-> run[s].interest + Total(Accrue(run[s].balance)),
                   payoffOrder |-> run[s].payoffOrder
                                   \o Record(s, Left(s), run[s].month + 1)]]
           /\ paid' = [paid EXCEPT ![s] = @ + Total(Owing(s)) - Total(Left(s))]
           /\ UNCHANGED <<debts, extra, phase, saved>>
  BY DEF Month, Left, Mid, Owing

\* The same, column by column.
LEMMA MonthFields ==
    ASSUME TypeOK, NEW s \in Strategy, Month(s)
    PROVE  /\ debts' = debts /\ extra' = extra
           /\ run'[s].balance = Left(s)
           /\ run'[s].month = run[s].month + 1
           /\ run'[s].interest = run[s].interest + Total(Accrue(run[s].balance))
           /\ run'[s].payoffOrder = run[s].payoffOrder
                                       \o Record(s, Left(s), run[s].month + 1)
           /\ paid'[s] = paid[s] + Total(Owing(s)) - Total(Left(s))
           /\ \A t \in Strategy \ {s} : run'[t] = run[t] /\ paid'[t] = paid[t]
  <1>1. run \in [Strategy -> RunRow] /\ paid \in [Strategy -> Int]
    BY DEF TypeOK
  <1> DEFINE row == [balance |-> Left(s), month |-> run[s].month + 1,
                     interest |-> run[s].interest + Total(Accrue(run[s].balance)),
                     payoffOrder |-> run[s].payoffOrder
                                     \o Record(s, Left(s), run[s].month + 1)]
             sum == paid[s] + Total(Owing(s)) - Total(Left(s))
  <1>2. run' = [run EXCEPT ![s] = row] /\ paid' = [paid EXCEPT ![s] = sum]
        /\ UNCHANGED <<debts, extra>>
    BY MonthEffect
  <1>3. run'[s] = row /\ paid'[s] = sum
    <2> HIDE DEF row, sum
    <2> QED
      BY <1>1, <1>2
  <1>4. \A t \in Strategy \ {s} : run'[t] = run[t] /\ paid'[t] = paid[t]
    BY <1>1, <1>2
  <1>5. /\ row.balance = Left(s) /\ row.month = run[s].month + 1
        /\ row.interest = run[s].interest + Total(Accrue(run[s].balance))
        /\ row.payoffOrder = run[s].payoffOrder
                               \o Record(s, Left(s), run[s].month + 1)
    OBVIOUS
  <1> HIDE DEF row
  <1>6. QED
    BY <1>2, <1>3, <1>4, <1>5

\* The totals of a month.
LEMMA TotalsType ==
    ASSUME TypeOK, NEW s \in Strategy
    PROVE  /\ Total(run[s].balance) \in Nat /\ Total(Accrue(run[s].balance)) \in Nat
           /\ Total(Owing(s)) \in Nat /\ Total(Mid(s)) \in Nat /\ Total(Left(s)) \in Nat
  <1>1. ASSUME NEW f \in [Debt -> Nat] PROVE Total(f) \in Nat
    BY <1>1, DebtsFinite, SumNat DEF Total
  <1>2. QED
    BY <1>1, MonthType

\* A month, the end of a run and a comparison keep every balance at or above zero.
LEMMA TypeStep == TypeOK /\ [Next]_vars => TypeOK'
  <1> SUFFICES ASSUME TypeOK, [Next]_vars PROVE TypeOK'
      OBVIOUS
  <1>1. ASSUME NEW s \in Strategy, Month(s) PROVE TypeOK'
    <2>1. /\ run[s] \in RunRow /\ run[s].month \in Nat /\ run[s].interest \in Nat
          /\ run[s].payoffOrder \in Seq([debt : Debt, month : Nat]) /\ paid[s] \in Int
      BY DEF TypeOK, RunRow
    <2> DEFINE month    == run[s].month + 1
               interest == run[s].interest + Total(Accrue(run[s].balance))
               order    == run[s].payoffOrder \o Record(s, Left(s), month)
               sum      == paid[s] + Total(Owing(s)) - Total(Left(s))
    <2>2. month \in Nat /\ interest \in Nat /\ sum \in Int /\ Left(s) \in [Debt -> Nat]
      <3>1. Left(s) \in [Debt -> Nat]
        BY <2>1, MonthType DEF RunRow
      <3>2. /\ Total(Accrue(run[s].balance)) \in Nat
            /\ Total(Owing(s)) \in Int /\ Total(Left(s)) \in Int
        BY TotalsType
      <3>3. QED
        BY <2>1, <3>1, <3>2, SMTT(20)
    <2>3. order \in Seq([debt : Debt, month : Nat])
      <3>1. Record(s, Left(s), month) \in Seq([debt : Debt, month : Nat])
        BY <2>2, RecordExact
      <3>2. QED
        BY <2>1, <3>1, ConcatProperties
    <2>4. /\ run' = [run EXCEPT ![s] = [balance |-> Left(s), month |-> month,
                                        interest |-> interest, payoffOrder |-> order]]
          /\ paid' = [paid EXCEPT ![s] = sum]
          /\ UNCHANGED <<debts, extra>>
      BY <1>1, MonthEffect
    <2> HIDE DEF month, interest, order, sum
    <2>5. run' \in [Strategy -> RunRow] /\ paid' \in [Strategy -> Int]
      BY <2>2, <2>3, <2>4 DEF TypeOK, RunRow
    <2>6. QED
      BY <2>4, <2>5 DEF TypeOK
  <1>2. ASSUME NEW s \in Strategy, Finish(s) PROVE TypeOK'
    BY <1>2 DEF Finish, TypeOK
  <1>3. CASE Compare
    BY <1>3 DEF Compare, TypeOK
  <1>4. CASE UNCHANGED vars
    BY <1>4 DEF vars, TypeOK
  <1>5. QED
    BY <1>1, <1>2, <1>3, <1>4 DEF Next

\* A run starts from the principals, which the form validates.
LEMMA InitType == Init => TypeOK
  <1> SUFFICES ASSUME Init PROVE TypeOK
      OBVIOUS
  <1>1. \A i \in Debt : debts[i].principal \in Nat
    BY RowType DEF Init
  <1>2. Fresh \in RunRow
    BY <1>1 DEF Fresh, RunRow
  <1>3. QED
    BY <1>2 DEF Init, TypeOK

\* Types hold throughout: no balance is ever negative, whatever is paid on it.
THEOREM TypeCorrect == Spec => []TypeOK
  BY InitType, TypeStep, PTL DEF Spec
------------------------------------------------------------------------------
(* Conservation *)

\* Paying and accruing move money, they do not make any.
LEMMA ConservationStep == TypeOK /\ Conservation /\ [Next]_vars => Conservation'
  <1> SUFFICES ASSUME TypeOK, Conservation, [Next]_vars PROVE Conservation'
      OBVIOUS
  <1> DEFINE borrowed == Total([i \in Debt |-> debts[i].principal])
  <1>1. ASSUME NEW s \in Strategy, Month(s) PROVE Conservation'
    <2> DEFINE before == Total(run[s].balance)
               interest == Total(Accrue(run[s].balance))
               owing == Total(Owing(s))
               after == Total(Left(s))
    <2>1. owing = before + interest
      <3>1. \A i \in Debt :
                /\ run[s].balance[i] \in Int /\ Accrue(run[s].balance)[i] \in Int
                /\ Owing(s)[i] = run[s].balance[i] + Accrue(run[s].balance)[i]
        BY <1>1, MonthType DEF Owing
      <3>2. QED
        BY <3>1, DebtsFinite, SumPlus DEF Total
    <2>2. before \in Nat /\ interest \in Nat /\ owing \in Nat /\ after \in Nat
      BY <1>1, TotalsType
    <2>3. borrowed \in Nat
      <3>1. \A i \in Debt : [j \in Debt |-> debts[j].principal][i] \in Nat
        BY RowType DEF TypeOK
      <3>2. QED
        BY <3>1, DebtsFinite, SumNat DEF Total
    <2>4. /\ run[s].interest \in Nat /\ paid[s] \in Int
          /\ borrowed + run[s].interest = paid[s] + before
      BY <1>1 DEF TypeOK, RunRow, Conservation
    <2>5. /\ debts' = debts
          /\ run'[s].balance = Left(s) /\ run'[s].interest = run[s].interest + interest
          /\ paid'[s] = paid[s] + owing - after
          /\ \A t \in Strategy \ {s} : run'[t] = run[t] /\ paid'[t] = paid[t]
      BY <1>1, MonthFields
    <2>6. borrowed' = borrowed
      BY <2>5
    <2>7. borrowed + (run[s].interest + interest) = (paid[s] + owing - after) + after
      <3> HIDE DEF borrowed, before, interest, owing, after
      <3> QED
        BY <2>1, <2>2, <2>3, <2>4
    <2>8. ASSUME NEW t \in Strategy
          PROVE  borrowed' + run'[t].interest = paid'[t] + Total(run'[t].balance)
      <3>1. CASE t = s
        <4> HIDE DEF borrowed, interest, owing
        <4> QED
          BY <2>5, <2>6, <2>7, <3>1
      <3>2. CASE t # s
        BY <2>5, <2>6, <2>8, <3>2 DEF Conservation
      <3>3. QED
        BY <3>1, <3>2
    <2>9. QED
      BY <2>8 DEF Conservation
  <1>2. ASSUME UNCHANGED <<debts, run, paid>> PROVE Conservation'
    BY <1>2 DEF Conservation, Total, Debt, Strategy
  <1>3. QED
    BY <1>1, <1>2 DEF Next, Finish, Compare, vars

\* At the start nothing is paid, accrued or repaid.
LEMMA InitConservation == Init => Conservation
  <1> SUFFICES ASSUME Init, NEW s \in Strategy
               PROVE  Total([i \in Debt |-> debts[i].principal]) + run[s].interest
                        = paid[s] + Total(run[s].balance)
      BY DEF Conservation
  <1>1. /\ run[s].balance = [i \in Debt |-> debts[i].principal]
        /\ run[s].interest = 0 /\ paid[s] = 0
    BY DEF Init, Fresh
  <1>2. Total(run[s].balance) \in Nat
    BY TotalsType, InitType
  <1> HIDE DEF Total
  <1>3. QED
    BY <1>1, <1>2

\* What was borrowed and charged is paid or still owed, after every month of
\* both simulations.
THEOREM MoneyIsConserved == Spec => []Conservation
  <1>1. TypeOK /\ Conservation /\ [Next]_vars => TypeOK' /\ Conservation'
    BY TypeStep, ConservationStep
  <1>2. QED
    BY <1>1, InitType, InitConservation, PTL DEF Spec
------------------------------------------------------------------------------
(* The strategies *)

\* order() is a strict order of the debts.
LEMMA BeforeIsStrict ==
    ASSUME TypeOK, NEW s, NEW b \in [Debt -> Nat]
    PROVE  /\ \A i \in Debt : ~Before(s, b, i, i)
           /\ \A i, j, k \in Debt : Before(s, b, i, j) /\ Before(s, b, j, k) => Before(s, b, i, k)
  <1>1. ASSUME NEW i \in Debt PROVE i \in Int /\ b[i] \in Int /\ debts[i].rate \in Int
    BY <1>1, RowType, DebtAssumption DEF TypeOK, Debt
  <1>2. ASSUME NEW i \in Debt PROVE ~Before(s, b, i, i)
    BY <1>1 DEF Before
  <1>3. ASSUME NEW i \in Debt, NEW j \in Debt, NEW k \in Debt,
               Before(s, b, i, j), Before(s, b, j, k)
        PROVE  Before(s, b, i, k)
    <2>1. /\ i \in Int /\ j \in Int /\ k \in Int
          /\ b[i] \in Int /\ b[j] \in Int /\ b[k] \in Int
          /\ debts[i].rate \in Int /\ debts[j].rate \in Int /\ debts[k].rate \in Int
      BY <1>1
    <2>2. QED
      BY <1>3, <2>1 DEF Before
  <1>4. QED
    BY <1>2, <1>3

\* Of some debts there is one that none of them comes before.
LEMMA FirstExists ==
    ASSUME TypeOK, NEW s, NEW b \in [Debt -> Nat], NEW S \in SUBSET Debt, S # {}
    PROVE  \E k \in S : \A j \in S : ~Before(s, b, j, k)
  <1> DEFINE Good == {T \in SUBSET S : T # {} => \E k \in T : \A j \in T : ~Before(s, b, j, k)}
  <1>1. {} \in Good
    OBVIOUS
  <1>2. ASSUME NEW T \in SUBSET S, NEW x \in S \ T, T \in Good
        PROVE  T \cup {x} \in Good
    <2>1. CASE T = {}
      BY <2>1, BeforeIsStrict
    <2>2. CASE T # {}
      <3>1. PICK k \in T : \A j \in T : ~Before(s, b, j, k)
        BY <1>2, <2>2
      <3>2. CASE Before(s, b, x, k)
        <4>1. \A j \in T : ~Before(s, b, j, x)
          BY <3>1, <3>2, BeforeIsStrict
        <4>2. ~Before(s, b, x, x)
          BY BeforeIsStrict
        <4>3. QED
          BY <4>1, <4>2
      <3>3. CASE ~Before(s, b, x, k)
        BY <3>1, <3>3
      <3>4. QED
        BY <3>2, <3>3
    <2>3. QED
      BY <2>1, <2>2
  <1>3. S \in Good
    <2>1. IsFiniteSet(S)
      BY DebtsFinite, FS_Subset
    <2> HIDE DEF Good
    <2>2. QED
      BY <1>1, <1>2, <2>1, SetInduction
  <1>4. QED
    BY <1>3

\* While something stays open the extra is spent in full: on the first debt
\* that stays open and on those before it, which it clears.
LEMMA ExtraIsSpent ==
    ASSUME TypeOK, NEW s, NEW b \in [Debt -> Nat], Open(PayExtra(s, b)) # {}
    PROVE  Total(b) - Total(PayExtra(s, b)) >= extra
  <1> DEFINE left == PayExtra(s, b)
             gone == [i \in Debt |-> b[i] - left[i]]
  <1>1. /\ left \in [Debt -> Nat]
        /\ \A i \in Debt : /\ left[i] <= b[i]
                           /\ left[i] > 0 => b[i] - left[i] >= Pool(s, b, i)
    BY PayExtraType
  <1> HIDE DEF left
  <1>2. PICK k \in Open(left) : \A j \in Open(left) : ~Before(s, b, j, k)
    BY FirstExists DEF Open, left
  <1> DEFINE F == First(s, b, k)
  <1>3. /\ k \in Debt /\ left[k] > 0 /\ F \in SUBSET Debt /\ IsFiniteSet(F) /\ k \notin F
        /\ SumOver(b, F) \in Nat /\ extra \in Nat /\ Pool(s, b, k) = extra - SumOver(b, F)
    <2>1. k \in Debt /\ left[k] > 0
      BY <1>2 DEF Open
    <2>2. k \notin F
      BY <2>1, BeforeIsStrict DEF First
    <2>3. QED
      BY <2>1, <2>2, PoolType DEF Pool
  <1>4. ASSUME NEW j \in F PROVE gone[j] = b[j] /\ b[j] \in Nat
    <2>1. j \in Debt /\ j \notin Open(left)
      BY <1>2, <1>4 DEF First, Open
    <2>2. left[j] = 0
      BY <1>1, <2>1 DEF Open
    <2>3. QED
      BY <1>1, <2>1, <2>2
  <1> HIDE DEF F
  <1>5. ASSUME NEW i \in Debt PROVE gone[i] = b[i] - left[i] /\ gone[i] \in Nat
    <2>1. gone[i] = b[i] - left[i]
      BY <1>5
    <2> HIDE DEF gone
    <2>2. b[i] \in Nat /\ left[i] \in Nat /\ left[i] <= b[i]
      BY <1>1, <1>5
    <2>3. QED
      BY <2>1, <2>2
  <1> HIDE DEF gone
  <1>6. gone[k] >= extra - SumOver(b, F)
    BY <1>1, <1>3, <1>5
  <1>7. SumOver(gone, F) = SumOver(b, F)
    <2>1. \A i \in F : b[i] \in Int /\ b[i] = gone[i]
      BY <1>4
    <2>2. QED
      BY <1>3, <2>1, SumEqual
  <1>8. SumOver(gone, F \cup {k}) = gone[k] + SumOver(gone, F)
    BY <1>3, <1>5, SumAdd
  <1>9. SumOver(gone, F \cup {k}) <= Total(gone)
    <2>1. F \cup {k} \in SUBSET Debt
      BY <1>3
    <2>2. QED
      BY <1>5, <2>1, DebtsFinite, SumSubset DEF Total
  <1>10. Total(b) = Total(gone) + Total(left)
    <2>1. \A i \in Debt : gone[i] \in Int /\ left[i] \in Int /\ b[i] = gone[i] + left[i]
      BY <1>1 DEF gone
    <2>2. QED
      BY <2>1, DebtsFinite, SumPlus DEF Total
  <1>11. Total(gone) \in Nat /\ Total(left) \in Nat /\ Total(b) \in Nat
    BY <1>1, <1>5, DebtsFinite, SumNat DEF Total
  <1>12. Total(gone) >= extra
    BY <1>3, <1>5, <1>6, <1>7, <1>8, <1>9, <1>11
  <1>13. QED
    BY <1>3, <1>10, <1>11, <1>12 DEF left

\* A debt that a month leaves open got its minimum.
LEMMA MinimumsArePaid ==
    ASSUME TypeOK, NEW b \in [Debt -> Nat], NEW S \in SUBSET Open(PayMinimum(b))
    PROVE  Total(b) - Total(PayMinimum(b)) >= SumOver([i \in Debt |-> debts[i].minimum], S)
  <1> DEFINE mid == PayMinimum(b)
             gone == [i \in Debt |-> b[i] - mid[i]]
             minimum == [i \in Debt |-> debts[i].minimum]
  <1>1. /\ mid \in [Debt -> Nat]
        /\ \A i \in Debt :
              /\ mid[i] <= b[i]
              /\ mid[i] > 0 => b[i] - mid[i] = debts[i].minimum
    BY PayMinimumType
  <1>2. S \in SUBSET Debt /\ \A i \in S : mid[i] > 0
    BY DEF Open
  <1>3. ASSUME NEW i \in Debt PROVE minimum[i] = debts[i].minimum /\ minimum[i] \in Nat
    BY <1>3, RowType DEF TypeOK
  <1> HIDE DEF mid, minimum
  <1>4. ASSUME NEW i \in Debt PROVE gone[i] = b[i] - mid[i] /\ gone[i] \in Nat
    <2>1. gone[i] = b[i] - mid[i]
      BY <1>4
    <2> HIDE DEF gone
    <2>2. b[i] \in Nat /\ mid[i] \in Nat /\ mid[i] <= b[i]
      BY <1>1, <1>4
    <2>3. QED
      BY <2>1, <2>2
  <1> HIDE DEF gone
  <1>5. SumOver(minimum, S) = SumOver(gone, S)
    <2>1. \A i \in S : minimum[i] \in Int /\ minimum[i] = gone[i]
      BY <1>1, <1>2, <1>3, <1>4
    <2>2. QED
      BY <1>2, <2>1, DebtsFinite, FS_Subset, SumEqual
  <1>6. SumOver(gone, S) <= Total(gone)
    BY <1>2, <1>4, DebtsFinite, SumSubset DEF Total
  <1>7. Total(b) = Total(gone) + Total(mid)
    <2>1. \A i \in Debt : gone[i] \in Int /\ mid[i] \in Int /\ b[i] = gone[i] + mid[i]
      BY <1>1, <1>4
    <2>2. QED
      BY <2>1, DebtsFinite, SumPlus DEF Total
  <1>8. Total(gone) \in Nat /\ Total(mid) \in Nat
    BY <1>1, <1>4, DebtsFinite, SumNat DEF Total
  <1>9. QED
    BY <1>5, <1>6, <1>7, <1>8 DEF mid, minimum

\* The budget of a month that leaves something open.
LEMMA MonthSpendsBudget ==
    ASSUME TypeOK, NEW s \in Strategy, Open(Left(s)) # {}
    PROVE  Total(Owing(s)) - Total(Left(s))
             >= extra + SumOver([i \in Debt |-> debts[i].minimum], Open(Left(s)))
  <1> DEFINE minimums == SumOver([i \in Debt |-> debts[i].minimum], Open(Left(s)))
  <1>1. Total(Mid(s)) - Total(Left(s)) >= extra
    BY MonthType, ExtraIsSpent DEF Left
  <1>2. Open(Left(s)) \in SUBSET Open(Mid(s))
    <2>1. ASSUME NEW i \in Debt, Left(s)[i] > 0 PROVE Mid(s)[i] > 0
      <3>1. Left(s)[i] \in Nat /\ Mid(s)[i] \in Nat /\ Left(s)[i] <= Mid(s)[i]
        BY <2>1, MonthType
      <3>2. QED
        BY <2>1, <3>1
    <2>2. QED
      BY <2>1 DEF Open
  <1>3. Total(Owing(s)) - Total(Mid(s)) >= minimums
    BY <1>2, MonthType, MinimumsArePaid DEF Mid
  <1>4. minimums \in Int
    <2>1. \A i \in Open(Left(s)) : [j \in Debt |-> debts[j].minimum][i] \in Int
      BY RowType DEF Open, TypeOK
    <2>2. Open(Left(s)) \in SUBSET Debt
      BY DEF Open
    <2>3. QED
      BY <2>1, <2>2, DebtsFinite, FS_Subset, SumInt
  <1>5. extra \in Nat
    BY DebtAssumption DEF TypeOK
  <1> HIDE DEF minimums
  <1>6. Total(Owing(s)) - Total(Left(s)) >= extra + minimums
    BY <1>1, <1>3, <1>4, <1>5, TotalsType
  <1>7. QED
    BY <1>6 DEF minimums

\* Only a month moves a simulation on.
LEMMA OnlyMonths ==
    ASSUME TypeOK, [Next]_vars, NEW s \in Strategy, run'[s].month > run[s].month
    PROVE  Month(s)
  <1>1. ASSUME UNCHANGED run PROVE FALSE
    <2>1. run[s].month \in Nat
      BY DEF TypeOK, RunRow
    <2>2. QED
      BY <1>1, <2>1
  <1>2. ASSUME NEW t \in Strategy, Month(t), t # s PROVE FALSE
    <2>1. run'[s] = run[s]
      BY <1>2, MonthFields
    <2>2. run[s].month \in Nat
      BY DEF TypeOK, RunRow
    <2>3. QED
      BY <2>1, <2>2
  <1>3. QED
    BY <1>1, <1>2 DEF Next, Finish, Compare, vars

\* As long as something is owed, every month of either strategy pays the
\* minimums of the debts it leaves open and all of the extra.
THEOREM BudgetGoesOut == Spec => BudgetIsSpent
  <1> DEFINE Spends ==
        \A s \in Strategy :
          LET open == Open(run'[s].balance) IN
          run'[s].month > run[s].month /\ open # {} =>
              paid'[s] - paid[s] >=
                  extra + SumOver([i \in Debt |-> debts[i].minimum], open)
  <1>1. TypeOK /\ [Next]_vars => [Spends]_vars
    <2> SUFFICES ASSUME TypeOK, [Next]_vars, NEW s \in Strategy,
                        run'[s].month > run[s].month, Open(run'[s].balance) # {}
                 PROVE  paid'[s] - paid[s] >=
                          extra + SumOver([i \in Debt |-> debts[i].minimum],
                                          Open(run'[s].balance))
        OBVIOUS
    <2>1. Month(s)
      BY OnlyMonths
    <2>2. /\ run'[s].balance = Left(s)
          /\ paid'[s] = paid[s] + Total(Owing(s)) - Total(Left(s))
      BY <2>1, MonthFields
    <2>3. Total(Owing(s)) - Total(Left(s))
             >= extra + SumOver([i \in Debt |-> debts[i].minimum], Open(Left(s)))
      BY <2>2, MonthSpendsBudget
    <2>4. paid[s] \in Int
      BY DEF TypeOK
    <2>5. paid'[s] - paid[s] = Total(Owing(s)) - Total(Left(s))
      BY <2>2, <2>4, TotalsType
    <2>6. QED
      BY <2>2, <2>3, <2>5
  <1>2. QED
    BY <1>1, TypeCorrect, PTL DEF Spec, BudgetIsSpent

\* A month of the avalanche that pays a debt more than its minimum leaves
\* nothing at a higher rate.
THEOREM AvalanchePaysRateFirst == Spec => AvalancheTargetsRate
  <1> DEFINE Targets ==
        LET s == "avalanche" IN
        run'[s].month > run[s].month =>
          \A i, j \in Debt :
              /\ run'[s].balance[i] + debts[i].minimum
                   < run[s].balance[i] + Accrue(run[s].balance)[i]
              /\ debts[j].rate > debts[i].rate
              => run'[s].balance[j] = 0
  <1>1. TypeOK /\ [Next]_vars => [Targets]_vars
    <2> DEFINE s == "avalanche"
               b == Mid(s)
    <2> SUFFICES ASSUME TypeOK, [Next]_vars, run'[s].month > run[s].month,
                        NEW i \in Debt, NEW j \in Debt,
                        run'[s].balance[i] + debts[i].minimum
                          < run[s].balance[i] + Accrue(run[s].balance)[i],
                        debts[j].rate > debts[i].rate
                 PROVE  run'[s].balance[j] = 0
        OBVIOUS
    <2>1. run'[s].balance = Left(s) /\ s \in Strategy
      BY OnlyMonths, MonthFields DEF Strategy
    <2>2. /\ b \in [Debt -> Nat] /\ Left(s) \in [Debt -> Nat] /\ Left(s) = PayExtra(s, b)
          /\ Owing(s) \in [Debt -> Nat] /\ b = PayMinimum(Owing(s))
          /\ Owing(s)[i] = run[s].balance[i] + Accrue(run[s].balance)[i]
      BY <2>1, MonthType DEF Left, Mid, Owing
    <2> HIDE DEF b
    <2>3. Left(s)[i] < b[i]
      <3>1. Owing(s)[i] - debts[i].minimum <= b[i]
        BY <2>2, PayMinimumType
      <3>2. /\ debts[i].minimum \in Nat /\ Owing(s)[i] \in Nat
            /\ b[i] \in Nat /\ Left(s)[i] \in Nat
        BY <2>2, RowType DEF TypeOK
      <3>3. Left(s)[i] + debts[i].minimum < Owing(s)[i]
        BY <2>1, <2>2
      <3>4. QED
        BY <3>1, <3>2, <3>3
    <2>4. Pool(s, b, i) > 0
      BY <2>2, <2>3, PayExtraType
    <2>5. CASE b[j] = 0
      <3>1. Left(s)[j] <= b[j] /\ Left(s)[j] \in Nat
        BY <2>2, PayExtraType
      <3>2. QED
        BY <2>1, <2>5, <3>1
    <2>6. CASE b[j] # 0
      <3>1. Before(s, b, j, i)
        BY DEF Before
      <3>2. j \in First(s, b, i) /\ j \notin First(s, b, j)
        BY <2>2, <2>6, <3>1, BeforeIsStrict DEF First, Open
      <3>3. First(s, b, j) \cup {j} \in SUBSET First(s, b, i)
        <4>1. ASSUME NEW k \in First(s, b, j) PROVE k \in First(s, b, i)
          <5>1. k \in Debt /\ k \in Open(b) /\ Before(s, b, k, j)
            BY <4>1 DEF First, Open
          <5>2. Before(s, b, k, i)
            BY <2>2, <3>1, <5>1, BeforeIsStrict
          <5>3. QED
            BY <5>1, <5>2 DEF First
        <4>2. QED
          BY <3>2, <4>1
      <3>4. \A k \in Debt : First(s, b, k) \in SUBSET Debt /\ IsFiniteSet(First(s, b, k))
        BY <2>2, PoolType
      <3>5. SumOver(b, First(s, b, j) \cup {j}) = b[j] + SumOver(b, First(s, b, j))
        BY <2>2, <3>2, <3>4, SumAdd
      <3>6. SumOver(b, First(s, b, j) \cup {j}) <= SumOver(b, First(s, b, i))
        BY <2>2, <3>3, <3>4, SumSubset
      <3>7. /\ extra \in Nat /\ b[j] \in Nat
            /\ SumOver(b, First(s, b, i)) \in Nat /\ SumOver(b, First(s, b, j)) \in Nat
        BY <2>2, PoolType
      <3>8. Pool(s, b, j) >= b[j]
        BY <2>4, <3>5, <3>6, <3>7 DEF Pool
      <3>9. QED
        BY <2>1, <2>2, <3>8, PayExtraType
    <2>7. QED
      BY <2>5, <2>6
  <1>2. QED
    BY <1>1, TypeCorrect, PTL DEF Spec, AvalancheTargetsRate
------------------------------------------------------------------------------
(* The payoff order *)

\* What is recorded is paid off for good, and recorded once; before the first
\* month nothing is.
OrderInv ==
    \A s \in Strategy :
        LET order == run[s].payoffOrder IN
        /\ Recorded(s) \subseteq Debt \ Open(run[s].balance)
        /\ run[s].month > 0 => Debt \ Open(run[s].balance) \subseteq Recorded(s)
        /\ Len(order) = Cardinality(Recorded(s))
        /\ \A n \in 1..Len(order) : order[n].month <= run[s].month
        /\ \A n \in 1..(Len(order) - 1) : order[n].month <= order[n + 1].month

\* At the start nothing is recorded.
LEMMA InitOrder == Init => OrderInv
  <1> SUFFICES ASSUME Init, NEW s \in Strategy
               PROVE  LET order == run[s].payoffOrder IN
                      /\ Recorded(s) \subseteq Debt \ Open(run[s].balance)
                      /\ run[s].month > 0 => Debt \ Open(run[s].balance) \subseteq Recorded(s)
                      /\ Len(order) = Cardinality(Recorded(s))
                      /\ \A n \in 1..Len(order) : order[n].month <= run[s].month
                      /\ \A n \in 1..(Len(order) - 1) : order[n].month <= order[n + 1].month
      BY DEF OrderInv
  <1>1. run[s].payoffOrder = <<>> /\ run[s].month = 0
    BY DEF Init, Fresh
  <1>2. Recorded(s) = {}
    BY <1>1 DEF Recorded
  <1>3. QED
    BY <1>1, <1>2, FS_EmptySet

\* A debt at nothing accrues nothing and stays at nothing.
LEMMA PaidOffStays ==
    ASSUME TypeOK, NEW s \in Strategy, NEW i \in Debt, run[s].balance[i] = 0
    PROVE  Left(s)[i] = 0
  <1>1. Owing(s)[i] = 0
    BY DEF Owing, Accrue
  <1>2. /\ Owing(s)[i] \in Nat /\ Mid(s)[i] \in Nat /\ Left(s)[i] \in Nat
        /\ Left(s)[i] <= Mid(s)[i] /\ Mid(s)[i] <= Owing(s)[i]
    BY MonthType
  <1>3. QED
    BY <1>1, <1>2

\* Positions in a sequence of p entries with q entries behind them.
LEMMA Positions ==
    ASSUME NEW p \in Nat, NEW q \in Nat
    PROVE  /\ \A n \in 1..p : n \in 1..(p + q) /\ n <= p
           /\ \A n \in 1..q : /\ p + n \in 1..(p + q) /\ ~(p + n <= p)
                              /\ (p + n) - p = n
           /\ \A n \in 1..(p + q) : /\ n <= p => n \in 1..p
                                    /\ ~(n <= p) => n - p \in 1..q
           /\ \A n \in 1..((p + q) - 1) :
                 /\ n \in 1..(p + q) /\ n + 1 \in 1..(p + q)
                 /\ n + 1 <= p => n \in 1..(p - 1)
  OBVIOUS

Entry == [debt : Debt, month : Nat]

\* The debts that the first n entries name, and that the entries name months
\* up to one and in order.
NamesOf(order, n) == {order[k].debt : k \in 1..n}
MonthsUpTo(order, n, month) ==
    \A k \in 1..n : order[k].month \in Nat /\ order[k].month <= month
AllOfMonth(order, n, month) == \A k \in 1..n : order[k].month = month
InOrder(order, n) == \A k \in 1..(n - 1) : order[k].month <= order[k + 1].month

\* The first p entries are those of one order, the q after them another's.
Appended(order, old, p, new, q) ==
    \A n \in 1..(p + q) : order[n] = IF n <= p THEN old[n] ELSE new[n - p]

\* Entries of one month, appended to entries of earlier months about other
\* debts, make an order again.
LEMMA OrderGrows ==
    ASSUME NEW p \in Nat, NEW q \in Nat, NEW old, NEW new, NEW order,
           NEW month \in Nat,
           Appended(order, old, p, new, q),
           MonthsUpTo(old, p, month), AllOfMonth(new, q, month), InOrder(old, p)
    PROVE  /\ NamesOf(order, p + q) = NamesOf(old, p) \cup NamesOf(new, q)
           /\ MonthsUpTo(order, p + q, month)
           /\ InOrder(order, p + q)
  <1> USE DEF NamesOf, MonthsUpTo, AllOfMonth, InOrder, Appended
  <1>1. ASSUME NEW n \in 1..p
        PROVE  n \in 1..(p + q) /\ order[n] = old[n]
    BY Positions
  <1>2. ASSUME NEW n \in 1..q
        PROVE  p + n \in 1..(p + q) /\ order[p + n] = new[n]
    <2>1. p + n \in 1..(p + q) /\ ~(p + n <= p) /\ (p + n) - p = n
      BY Positions
    <2>2. order[p + n] = new[(p + n) - p]
      BY <2>1
    <2>3. QED
      BY <2>1, <2>2
  <1>3. ASSUME NEW n \in 1..(p + q), ~(n <= p)
        PROVE  n - p \in 1..q /\ order[n] = new[n - p]
    BY <1>3, Positions
  <1>4. {order[n].debt : n \in 1..(p + q)}
            = {old[n].debt : n \in 1..p} \cup {new[n].debt : n \in 1..q}
    <2>1. ASSUME NEW n \in 1..(p + q)
          PROVE  order[n].debt \in {old[k].debt : k \in 1..p} \cup {new[k].debt : k \in 1..q}
      <3>1. CASE n <= p
        BY <1>1, <3>1, Positions
      <3>2. CASE ~(n <= p)
        BY <1>3, <3>2
      <3>3. QED
        BY <3>1, <3>2
    <2>2. ASSUME NEW k \in 1..p
          PROVE  old[k].debt \in {order[n].debt : n \in 1..(p + q)}
      <3>1. k \in 1..(p + q) /\ order[k].debt = old[k].debt
        BY <1>1
      <3>2. QED
        BY <3>1
    <2>3. ASSUME NEW k \in 1..q
          PROVE  new[k].debt \in {order[n].debt : n \in 1..(p + q)}
      <3>1. p + k \in 1..(p + q) /\ order[p + k].debt = new[k].debt
        BY <1>2
      <3>2. QED
        BY <3>1
    <2>4. QED
      BY <2>1, <2>2, <2>3
  <1>5. ASSUME NEW n \in 1..(p + q)
        PROVE  /\ order[n].month \in Nat /\ order[n].month <= month
               /\ ~(n <= p) => order[n].month = month
    <2>1. CASE n <= p
      <3>1. n \in 1..p
        BY <2>1, Positions
      <3>2. order[n].month \in Nat /\ order[n].month <= month
        BY <1>1, <3>1
      <3>3. QED
        BY <2>1, <3>2
    <2>2. CASE ~(n <= p)
      <3>1. order[n].month = month
        BY <1>3, <2>2
      <3>2. QED
        BY <3>1
    <2>3. QED
      BY <2>1, <2>2
  <1>6. ASSUME NEW n \in 1..((p + q) - 1)
        PROVE  order[n].month <= order[n + 1].month
    <2>1. /\ n \in 1..(p + q) /\ n + 1 \in 1..(p + q)
          /\ n + 1 <= p => n \in 1..(p - 1)
      BY Positions
    <2>2. CASE n + 1 <= p
      <3>1. n \in 1..(p - 1) /\ n \in 1..p /\ n + 1 \in 1..p
        BY <2>1, <2>2
      <3>2. order[n] = old[n] /\ order[n + 1] = old[n + 1]
        BY <1>1, <3>1
      <3>3. QED
        BY <3>1, <3>2
    <2>3. CASE ~(n + 1 <= p)
      BY <1>5, <2>1, <2>3
    <2>4. QED
      BY <2>2, <2>3
  <1>7. NamesOf(order, p + q) = NamesOf(old, p) \cup NamesOf(new, q)
    BY <1>4
  <1>8. MonthsUpTo(order, p + q, month)
    BY <1>5
  <1>9. InOrder(order, p + q)
    BY <1>6
  <1>10. QED
    BY <1>7, <1>8, <1>9

\* A month records the debts that it clears, in the order of the months.
LEMMA MonthOrder ==
    ASSUME TypeOK, OrderInv, NEW s \in Strategy, Month(s)
    PROVE  LET order == run'[s].payoffOrder IN
           /\ {order[n].debt : n \in DOMAIN order} = Debt \ Open(run'[s].balance)
           /\ Len(order) = Cardinality(Debt \ Open(run'[s].balance))
           /\ \A n \in 1..Len(order) : order[n].month <= run'[s].month
           /\ \A n \in 1..(Len(order) - 1) : order[n].month <= order[n + 1].month
  <1>1. /\ run'[s].payoffOrder
              = run[s].payoffOrder \o Record(s, Left(s), run[s].month + 1)
        /\ run'[s].month = run[s].month + 1 /\ run'[s].balance = Left(s)
    BY MonthFields
  <1>2. run[s] \in RunRow
    BY DEF TypeOK
  <1>3. run[s].payoffOrder \in Seq(Entry) /\ run[s].month \in Nat
    BY <1>2 DEF RunRow, Entry
  <1>4. /\ Recorded(s) \subseteq Debt \ Open(run[s].balance)
        /\ Len(run[s].payoffOrder) = Cardinality(Recorded(s))
        /\ \A n \in 1..Len(run[s].payoffOrder) :
              run[s].payoffOrder[n].month <= run[s].month
        /\ \A n \in 1..(Len(run[s].payoffOrder) - 1) :
              run[s].payoffOrder[n].month <= run[s].payoffOrder[n + 1].month
    BY DEF OrderInv
  <1>5. Recorded(s) = {run[s].payoffOrder[n].debt : n \in 1..Len(run[s].payoffOrder)}
    <2>1. DOMAIN run[s].payoffOrder = 1..Len(run[s].payoffOrder)
      BY <1>3, LenProperties
    <2>2. QED
      BY <2>1 DEF Recorded
  <1>6. \A i \in Debt : Left(s)[i] \in Nat /\ run[s].balance[i] \in Nat
    BY <1>2, MonthType DEF RunRow
  <1>7. /\ Debt \ Open(Left(s)) = Recorded(s) \cup Cleared(s, Left(s))
        /\ Recorded(s) \cap Cleared(s, Left(s)) = {}
    <2>1. ASSUME NEW i \in Recorded(s) PROVE i \in Debt /\ Left(s)[i] = 0
      <3>1. i \in Debt /\ ~(run[s].balance[i] > 0)
        BY <1>4, <2>1 DEF Open
      <3>2. run[s].balance[i] = 0
        BY <1>6, <3>1
      <3>3. QED
        BY <3>1, <3>2, PaidOffStays
    <2>2. \A i \in Debt : ~(Left(s)[i] > 0) <=> Left(s)[i] = 0
      BY <1>6
    <2>3. QED
      BY <2>1, <2>2 DEF Open, Cleared
  <1> DEFINE old == run[s].payoffOrder
             m   == run[s].month + 1
             new == Record(s, Left(s), m)
             C   == Cleared(s, Left(s))
             p   == Len(old)
             q   == Len(new)
             order == run'[s].payoffOrder
  <1>8. \A n \in 1..p : old[n].month \in Nat /\ old[n].month <= m
    <2>1. ASSUME NEW n \in 1..Len(run[s].payoffOrder)
          PROVE  /\ run[s].payoffOrder[n].month \in Nat
                 /\ run[s].payoffOrder[n].month <= run[s].month + 1
      <3>1. run[s].payoffOrder[n] \in Entry
        BY <1>3, ElementOfSeq
      <3>2. run[s].payoffOrder[n].month \in Nat
        BY <3>1 DEF Entry
      <3>3. run[s].payoffOrder[n].month <= run[s].month
        BY <1>4
      <3>4. QED
        BY <1>3, <3>2, <3>3
    <2>2. QED
      BY <2>1
  <1>9. m \in Nat
    BY <1>3
  <1>10. /\ new \in Seq(Entry) /\ IsFiniteSet(C) /\ q = Cardinality(C)
         /\ C = {new[n].debt : n \in 1..q}
         /\ \A n \in 1..q : new[n].month = m
    <2> DEFINE b == Left(s)
    <2> HIDE DEF m, b
    <2>1. /\ Record(s, b, m) \in Seq([debt : Debt, month : Nat])
          /\ IsFiniteSet(Cleared(s, b))
          /\ Len(Record(s, b, m)) = Cardinality(Cleared(s, b))
          /\ Cleared(s, b) = {Record(s, b, m)[n].debt : n \in 1..Len(Record(s, b, m))}
          /\ \A n \in 1..Len(Record(s, b, m)) : Record(s, b, m)[n].month = m
      BY <1>9, RecordExact
    <2>2. QED
      BY <2>1 DEF b, Entry
  <1>11. /\ order = old \o new /\ run'[s].month = m
    BY <1>1
  <1>12. \A n \in 1..(p - 1) : old[n].month <= old[n + 1].month
    BY <1>4
  <1>13. old \in Seq(Entry) /\ p = Cardinality(Recorded(s))
    BY <1>3, <1>4
  <1>14. Recorded(s) = {old[n].debt : n \in 1..p}
    BY <1>5
  <1> HIDE DEF old, new, m, order, C
  <1>15. /\ p \in Nat /\ q \in Nat /\ order \in Seq(Entry)
         /\ Len(order) = p + q /\ DOMAIN order = 1..(p + q)
         /\ \A n \in 1..(p + q) : order[n] = IF n <= p THEN old[n] ELSE new[n - p]
    <2>1. p \in Nat /\ q \in Nat
      BY <1>10, <1>13, LenProperties
    <2>2. order \in Seq(Entry) /\ Len(order) = p + q
      BY <1>10, <1>11, <1>13, ConcatProperties
    <2>3. \A n \in 1..(p + q) : order[n] = IF n <= p THEN old[n] ELSE new[n - p]
      BY <1>10, <1>11, <1>13, ConcatProperties
    <2>4. DOMAIN order = 1..(p + q)
      BY <2>2, LenProperties
    <2>5. QED
      BY <2>1, <2>2, <2>3, <2>4
  <1> HIDE DEF p, q
  <1>16. /\ {order[n].debt : n \in 1..(p + q)} = Recorded(s) \cup C
         /\ \A n \in 1..(p + q) : order[n].month <= m
         /\ \A n \in 1..((p + q) - 1) : order[n].month <= order[n + 1].month
    <2>1. p \in Nat /\ q \in Nat /\ Appended(order, old, p, new, q)
      BY <1>15 DEF Appended
    <2>2. /\ MonthsUpTo(old, p, m) /\ AllOfMonth(new, q, m) /\ InOrder(old, p)
          /\ NamesOf(old, p) = Recorded(s) /\ NamesOf(new, q) = C
      BY <1>8, <1>10, <1>12, <1>14
         DEF MonthsUpTo, AllOfMonth, InOrder, NamesOf
    <2>3. /\ NamesOf(order, p + q) = NamesOf(old, p) \cup NamesOf(new, q)
          /\ MonthsUpTo(order, p + q, m)
          /\ InOrder(order, p + q)
      BY <1>9, <2>1, <2>2, OrderGrows
    <2>4. {order[n].debt : n \in 1..(p + q)} = Recorded(s) \cup C
      <3>1. NamesOf(order, p + q) = Recorded(s) \cup C
        BY <2>2, <2>3
      <3>2. QED
        BY <3>1 DEF NamesOf
    <2>5. /\ \A n \in 1..(p + q) : order[n].month <= m
          /\ \A n \in 1..((p + q) - 1) : order[n].month <= order[n + 1].month
      <3>1. MonthsUpTo(order, p + q, m)
        BY <2>3
      <3>2. InOrder(order, p + q)
        BY <2>3
      <3>3. \A n \in 1..(p + q) : order[n].month <= m
        BY <3>1 DEF MonthsUpTo
      <3>4. \A n \in 1..((p + q) - 1) : order[n].month <= order[n + 1].month
        BY <3>2 DEF InOrder
      <3>5. QED
        BY <3>3, <3>4
    <2>6. QED
      BY <2>4, <2>5
  <1>17. p + q = Cardinality(Recorded(s) \cup C)
    <2>1. Recorded(s) \cap C = {} /\ IsFiniteSet(Recorded(s))
      BY <1>4, <1>7, DebtsFinite, FS_Subset DEF C
    <2>2. Cardinality(Recorded(s) \cap C) = 0
      BY <2>1, FS_EmptySet
    <2>3. Cardinality(Recorded(s) \cup C)
            = Cardinality(Recorded(s)) + Cardinality(C) - Cardinality(Recorded(s) \cap C)
      BY <1>10, <2>1, FS_Union
    <2>4. QED
      BY <1>10, <1>13, <1>15, <2>2, <2>3
  <1>18. Debt \ Open(run'[s].balance) = Recorded(s) \cup C
    BY <1>1, <1>7 DEF C
  <1>19. /\ {order[n].debt : n \in DOMAIN order} = Debt \ Open(run'[s].balance)
         /\ Len(order) = Cardinality(Debt \ Open(run'[s].balance))
         /\ \A n \in 1..Len(order) : order[n].month <= run'[s].month
         /\ \A n \in 1..(Len(order) - 1) : order[n].month <= order[n + 1].month
    <2>1. run'[s].month = m /\ DOMAIN order = 1..(p + q) /\ Len(order) = p + q
      BY <1>11, <1>15
    <2>2. {order[n].debt : n \in DOMAIN order} = Debt \ Open(run'[s].balance)
      BY <1>16, <1>18, <2>1
    <2>3. Len(order) = Cardinality(Debt \ Open(run'[s].balance))
      BY <1>17, <1>18, <2>1
    <2>4. \A n \in 1..Len(order) : order[n].month <= run'[s].month
      BY <1>16, <2>1
    <2>5. \A n \in 1..(Len(order) - 1) : order[n].month <= order[n + 1].month
      <3>1. 1..(Len(order) - 1) = 1..((p + q) - 1)
        BY <1>15, <2>1
      <3>2. QED
        BY <1>16, <3>1, Zenon
    <2>6. QED
      BY <2>2, <2>3, <2>4, <2>5
  <1>20. QED
    BY <1>19 DEF order

\* A month of one strategy keeps the other's order, and no other step changes one.
LEMMA OrderStep == TypeOK /\ OrderInv /\ [Next]_vars => OrderInv'
  <1> SUFFICES ASSUME TypeOK, OrderInv, [Next]_vars, NEW s \in Strategy
               PROVE  LET order == run'[s].payoffOrder
                          due   == Debt \ Open(run'[s].balance)
                          named == {order[n].debt : n \in DOMAIN order} IN
                      /\ named \subseteq due
                      /\ run'[s].month > 0 => due \subseteq named
                      /\ Len(order) = Cardinality(named)
                      /\ \A n \in 1..Len(order) : order[n].month <= run'[s].month
                      /\ \A n \in 1..(Len(order) - 1) : order[n].month <= order[n + 1].month
    BY DEF OrderInv, Recorded, Debt, Open
  <1>1. CASE Month(s)
    BY <1>1, MonthOrder
  <1>2. CASE run'[s] = run[s]
    BY <1>2 DEF OrderInv, Recorded
  <1>3. ASSUME NEW t \in Strategy, Month(t), t # s PROVE run'[s] = run[s]
    BY <1>3, MonthFields
  <1>4. CASE UNCHANGED vars
    BY <1>2, <1>4 DEF vars
  <1>5. CASE Compare
    BY <1>2, <1>5 DEF Compare
  <1>6. ASSUME NEW t \in Strategy, Finish(t) PROVE run'[s] = run[s]
    BY <1>6 DEF Finish
  <1>7. QED
    BY <1>1, <1>2, <1>3, <1>4, <1>5, <1>6 DEF Next

\* Whenever a month has passed, the payoff order of compareDebtStrategies names
\* exactly the debts that are at nothing, each once, in the order of the months.
THEOREM PayoffOrderHolds == Spec => []PayoffOrderIsExact
  <1>1. TypeOK /\ OrderInv => PayoffOrderIsExact
    <2> SUFFICES ASSUME OrderInv, NEW s \in Strategy, run[s].month > 0
                 PROVE  LET order == run[s].payoffOrder IN
                        /\ Recorded(s) = Debt \ Open(run[s].balance)
                        /\ Len(order) = Cardinality(Recorded(s))
                        /\ \A n \in 1..(Len(order) - 1) : order[n].month <= order[n + 1].month
      BY DEF PayoffOrderIsExact
    <2> QED
      BY DEF OrderInv
  <1>2. QED
    BY <1>1, InitOrder, OrderStep, TypeCorrect, PTL DEF Spec
------------------------------------------------------------------------------
(* The calculators nobody signs in for *)

\* What may be answered: an input for which the formula is meant.
Asked(t, in) ==
    /\ t = "retirement" => RetirementInput(in)
    /\ t = "dna"        => IsFiniteSet(DOMAIN in)
    /\ t = "plan"       => PlanInput(in)
    /\ t = "allocation" => AllocationInput(in)
    /\ t = "deduction"  => DeductionInput(in)

\* The fields of the retirement form hold digits.
RetirementForm ==
    /\ DOMAIN form = DOMAIN Defaults["retirement"]
    /\ \A k \in DOMAIN form : form[k] = Blank \/ form[k] \in Nat

\* While answers are on their way nothing is shown, and they are the ones submitted.
QuizForm ==
    /\ DOMAIN form = Questions
    /\ sent # None => sent = submitted /\ shown = None /\ DOMAIN sent = Questions

\* The inductive invariant: the report on show answers what was submitted.
ToolInv ==
    /\ tool \in Tab \cup Function
    /\ shown # None => shown = Answer(tool, submitted) /\ Asked(tool, submitted)
    /\ client = "page" =>
         /\ tool \in Tab
         /\ tool = "retirement" => RetirementForm
         /\ tool = "dna" => QuizForm
------------------------------------------------------------------------------
\* What is typed is read as a number that is not negative.
LEMMA SanitizedDigits ==
    ASSUME NEW raw \in Typed PROVE Sanitize(raw) = Blank \/ Sanitize(raw) \in Nat
  BY ToolsAssumption DEF Sanitize, Magnitude

\* A form of digits is an input the retirement formula is meant for.
LEMMA FormIsAsked ==
    ASSUME RetirementForm PROVE RetirementInput(ToInput("retirement", form))
  <1> DEFINE p == [k \in DOMAIN form \cup {"tax"} |->
                      IF k = "tax" THEN NoTax ELSE ParseField(form[k])]
  <1>1. ToInput("retirement", form) = p
    BY DEF ToInput
  <1>2. \A k \in DOMAIN form \ {"tax"} : p[k] \in Nat
    BY DEF RetirementForm, ParseField
  <1>3. {"age", "retirementAge", "yearsInRetirement", "expenses", "inflation", "postReturn"}
          \subseteq DOMAIN form \ {"tax"}
    BY ToolsAssumption DEF RetirementForm
  <1> HIDE DEF p
  <1>4. QED
    BY <1>1, <1>2, <1>3 DEF RetirementInput

\* Every call a program makes is for an input the formula is meant for.
LEMMA CallIsAsked ==
    ASSUME NEW t \in Tab \cup Function, NEW in \in Calls[t] PROVE Asked(t, in)
  BY ToolsAssumption DEF Asked

\* A form that opens is filled in.
LEMMA OpensFilled ==
    /\ Opened("retirement") = Defaults["retirement"]
    /\ DOMAIN Opened("dna") = Questions
  BY DEF Opened

\* Whatever is typed, clicked or called in any order, and however late a reply
\* is: a report shown is the answer to the input it was asked for, and that input
\* is one the formula is meant for (ToolsSection, ToolsController).
THEOREM ToolInvariance == ToolsSpec => []ToolInv
  <1>1. ToolsInit => ToolInv
    BY DEF ToolsInit, ToolInv, Tab, FormTool, Function
  <1>2. ToolInv /\ [ToolsNext]_toolVars => ToolInv'
    <2> SUFFICES ASSUME ToolInv, [ToolsNext]_toolVars PROVE ToolInv'
      OBVIOUS
    <2>1. ASSUME NEW t \in Tab, PickTab(t) PROVE ToolInv'
      <3>1. form' = Opened(t) /\ tool' = t /\ sent' = None /\ shown' = None
        BY <2>1 DEF PickTab
      <3>2. t = "retirement" => RetirementForm'
        BY <3>1, OpensFilled, ToolsAssumption DEF RetirementForm
      <3>3. t = "dna" => QuizForm'
        BY <3>1, OpensFilled DEF QuizForm
      <3>4. QED
        BY <2>1, <3>1, <3>2, <3>3 DEF ToolInv
    <2>2. ASSUME NEW k \in UNION {Fields[t] : t \in FormTool}, NEW raw \in Typed, Type(k, raw)
          PROVE  ToolInv'
      <3>1. /\ tool \in FormTool /\ tool # "dna"
            /\ form' = [form EXCEPT ![k] = Sanitize(raw)]
            /\ UNCHANGED <<client, tool, quiz, sent, shown, submitted>>
        BY <2>2 DEF Type, FormTool
      <3>2. client' = "page" /\ tool = "retirement" => RetirementForm'
        <4>1. Sanitize(raw) = Blank \/ Sanitize(raw) \in Nat
          BY SanitizedDigits
        <4>2. QED
          BY <3>1, <4>1 DEF ToolInv, RetirementForm
      <3>3. QED
        BY <3>1, <3>2 DEF ToolInv
    <2>3. ASSUME Run PROVE ToolInv'
      <3>1. /\ client = "page" /\ tool \in FormTool /\ tool # "dna"
            /\ shown' = Answer(tool, ToInput(tool, form)) /\ submitted' = ToInput(tool, form)
            /\ UNCHANGED <<client, tool, form, quiz, sent>>
        BY <2>3 DEF Run, FormTool
      <3>2. Asked(tool, ToInput(tool, form))
        <4>1. CASE tool = "retirement"
          BY <3>1, <4>1, FormIsAsked DEF ToolInv, Asked
        <4>2. CASE tool # "retirement"
          BY <3>1, <4>2 DEF Asked, FormTool
        <4>3. QED
          BY <4>1, <4>2
      <3>3. RetirementForm' = RetirementForm
        BY <3>1 DEF RetirementForm
      <3>4. QED
        BY <3>1, <3>2, <3>3 DEF ToolInv
    <2>4. ASSUME QuizLoaded PROVE ToolInv'
      BY <2>4 DEF QuizLoaded, OnPage, ToolInv, RetirementForm, QuizForm
    <2>5. ASSUME NEW q \in Questions, NEW a \in Archetype, Pick(q, a) PROVE ToolInv'
      BY <2>5 DEF Pick, OnPage, ToolInv, QuizForm
    <2>6. ASSUME Submit PROVE ToolInv'
      BY <2>6 DEF Submit, OnPage, ToolInv, QuizForm
    <2>7. ASSUME Reply PROVE ToolInv'
      <3>1. /\ tool = "dna" /\ client = "page" /\ sent # None
            /\ shown' = Answer("dna", sent) /\ sent' = None
            /\ UNCHANGED <<client, tool, form, quiz, submitted>>
        BY <2>7 DEF Reply, OnPage
      <3>2. sent = submitted /\ DOMAIN sent = Questions /\ DOMAIN form = Questions
        BY <3>1 DEF ToolInv, QuizForm
      <3>3. Asked("dna", sent)
        BY <3>2, ToolsAssumption DEF Asked
      <3>4. QED
        BY <3>1, <3>2, <3>3 DEF ToolInv, QuizForm
    <2>8. ASSUME ReplyFails PROVE ToolInv'
      BY <2>8 DEF ReplyFails, OnPage, ToolInv, QuizForm
    <2>9. ASSUME Retake PROVE ToolInv'
      <3>1. /\ tool = "dna" /\ client = "page" /\ shown # None /\ shown' = None
            /\ form' = Opened("dna") /\ UNCHANGED <<client, tool, quiz, sent>>
        BY <2>9 DEF Retake, OnPage
      <3>2. sent = None
        BY <3>1 DEF ToolInv, QuizForm
      <3>3. QED
        BY <3>1, <3>2, OpensFilled DEF ToolInv, QuizForm
    <2>10. ASSUME NEW t \in Tab \cup Function, NEW in \in Calls[t], Call(t, in) PROVE ToolInv'
      <3>1. Asked(t, in)
        BY CallIsAsked
      <3>2. QED
        BY <2>10, <3>1 DEF Call, ToolInv
    <2>11. CASE UNCHANGED toolVars
      <3>1. RetirementForm' = RetirementForm /\ QuizForm' = QuizForm
        BY <2>11 DEF toolVars, RetirementForm, QuizForm
      <3>2. QED
        BY <2>11, <3>1 DEF toolVars, ToolInv
    <2>12. QED
      BY <2>1, <2>2, <2>3, <2>4, <2>5, <2>6, <2>7, <2>8, <2>9, <2>10, <2>11 DEF ToolsNext
  <1>3. QED
    BY <1>1, <1>2, PTL DEF ToolsSpec
------------------------------------------------------------------------------
\* The 80C report of any contributions adds up (section80CStatus).
LEMMA DeductionsOf ==
    ASSUME NEW c, DeductionInput(c)
    PROVE  LET r     == Section80CStatus(c, EightyC, NpsLimit)
               given == SumOver([i \in DOMAIN c |-> Larger(0, c[i])],
                                DOMAIN c \cap Section80CInstruments)
               inNps == NpsLimit - r.npsHeadroom
           IN  /\ r.used + r.headroom = EightyC
               /\ r.used + inNps <= given
               /\ r.used + inNps < given => r.headroom = 0
  <1> DEFINE f     == [i \in DOMAIN c |-> Larger(0, c[i])]
             all   == DOMAIN c \cap Section80CInstruments
             other == SumOver(f, Shared(c))
             nps   == Larger(0, c.nps)
  <1>1. \A i \in DOMAIN c : f[i] \in Nat
    BY DEF DeductionInput, Larger
  <1>2. nps \in Nat /\ f["nps"] = nps
    BY <1>1 DEF DeductionInput
  <1>3. IsFiniteSet(all) /\ IsFiniteSet(Shared(c)) /\ Shared(c) = all \ {"nps"}
    BY FS_Subset DEF DeductionInput, Shared
  <1>4. SumOver(f, all) = nps + other
    <2>1. "nps" \in all /\ \A i \in all : f[i] \in Int
      BY <1>1 DEF DeductionInput, Section80CInstruments
    <2> HIDE DEF f, all
    <2>2. SumOver(f, all) = f["nps"] + SumOver(f, all \ {"nps"})
      BY <1>3, <2>1, SumRemove
    <2>3. QED
      BY <1>2, <1>3, <2>2
  <1>5. other \in Nat
    <2>1. \A i \in Shared(c) : f[i] \in Nat
      BY <1>1, <1>3
    <2> HIDE DEF f
    <2>2. QED
      BY <1>3, <2>1, SumNat
  <1> DEFINE inTopUp == Smaller(nps, NpsLimit)
             used    == Smaller((nps - inTopUp) + other, EightyC)
  <1>6. Section80CStatus(c, EightyC, NpsLimit)
          = [used |-> used, headroom |-> Larger(0, EightyC - used),
             npsHeadroom |-> Larger(0, NpsLimit - inTopUp)]
    BY DEF Section80CStatus
  <1> HIDE DEF f, other, nps
  <1>7. EightyC \in Nat /\ NpsLimit \in Nat
    BY ToolsAssumption
  <1>8. /\ inTopUp \in Nat /\ inTopUp <= nps /\ inTopUp <= NpsLimit
        /\ used \in Nat /\ used <= EightyC /\ used <= (nps - inTopUp) + other
        /\ used < (nps - inTopUp) + other => used = EightyC
    BY <1>2, <1>5, <1>7 DEF Smaller
  <1> HIDE DEF inTopUp, used
  <1>9. Larger(0, EightyC - used) = EightyC - used /\ Larger(0, NpsLimit - inTopUp) = NpsLimit - inTopUp
    BY <1>7, <1>8 DEF Larger
  <1> DEFINE r == Section80CStatus(c, EightyC, NpsLimit)
  <1>10. r.used = used /\ r.headroom = EightyC - used /\ r.npsHeadroom = NpsLimit - inTopUp
    BY <1>6, <1>9
  <1> HIDE DEF r
  <1>11. /\ r.used + r.headroom = EightyC
         /\ r.used + (NpsLimit - r.npsHeadroom) <= nps + other
         /\ r.used + (NpsLimit - r.npsHeadroom) < nps + other => r.headroom = 0
    BY <1>2, <1>5, <1>7, <1>8, <1>10
  <1>12. QED
    BY <1>4, <1>11 DEF f, r

\* DeductionsAddUp: the report of a call adds up, for any contributions and any
\* two ceilings (section80CStatus).
THEOREM DeductionReportsAddUp == ToolsSpec => []DeductionsAddUp
  <1>1. ToolInv => DeductionsAddUp
    <2> SUFFICES ASSUME ToolInv, tool = "deduction", shown # None PROVE DeductionsAddUp
      BY DEF DeductionsAddUp
    <2>1. shown = Section80CStatus(submitted, EightyC, NpsLimit) /\ DeductionInput(submitted)
      BY DEF ToolInv, Answer, Asked
    <2>2. QED
      BY <2>1, DeductionsOf DEF DeductionsAddUp
  <1>2. QED
    BY <1>1, ToolInvariance, PTL
------------------------------------------------------------------------------
\* The place of the archetypes in the order of computeWealthDna.
LEMMA ArchetypeOrder ==
    /\ Len(Archetypes) = 4 /\ DOMAIN Archetypes = 1..4
    /\ Archetypes[1] = "builder" /\ Archetypes[2] = "protector"
    /\ Archetypes[3] = "achiever" /\ Archetypes[4] = "explorer"
    /\ Archetype = {Archetypes[n] : n \in 1..4}
  <1>1. /\ Len(Archetypes) = 4 /\ DOMAIN Archetypes = 1..4
        /\ Archetypes[1] = "builder" /\ Archetypes[2] = "protector"
        /\ Archetypes[3] = "achiever" /\ Archetypes[4] = "explorer"
    BY DEF Archetypes
  <1>2. QED
    BY <1>1 DEF Archetype, ToSet

\* Answers to finitely many questions are counted.
LEMMA VotesType ==
    ASSUME NEW answers, IsFiniteSet(DOMAIN answers), NEW a
    PROVE  Votes(answers, a) \in Nat
  <1>1. IsFiniteSet({q \in DOMAIN answers : answers[q] = a})
    BY FS_Subset
  <1>2. QED
    BY <1>1, FS_CardinalityType DEF Votes

\* The archetype after n of the order: one of these n, no other of them has more
\* votes and none before it as many.
Leads(answers, best, n) ==
    \E k \in 1..n :
        /\ best = Archetypes[k]
        /\ \A j \in 1..n : Votes(answers, Archetypes[j]) <= Votes(answers, best)
        /\ \A j \in 1..(k - 1) : Votes(answers, Archetypes[j]) < Votes(answers, best)

\* The loop of computeWealthDna as a function of the place in the order.
BestStep(answers, best, n) ==
    IF n = 1 THEN Archetypes[1]
    ELSE IF Votes(answers, Archetypes[n]) > Votes(answers, best[n - 1])
         THEN Archetypes[n] ELSE best[n - 1]
IsBest(answers, best) == best = [n \in 1..4 |-> BestStep(answers, best, n)]
Best(answers) == CHOOSE best : IsBest(answers, best)

\* There is such a function: its four values, one after the other.
LEMMA BestExists == ASSUME NEW answers PROVE IsBest(answers, Best(answers))
  <1> DEFINE More(n, a) == IF Votes(answers, Archetypes[n]) > Votes(answers, a)
                           THEN Archetypes[n] ELSE a
  <1>1. PICK a, b, c, d :
           a = Archetypes[1] /\ b = More(2, a) /\ c = More(3, b) /\ d = More(4, c)
    OBVIOUS
  <1> DEFINE w == [n \in 1..4 |-> IF n = 1 THEN a ELSE IF n = 2 THEN b
                                  ELSE IF n = 3 THEN c ELSE d]
  <1>2. w[1] = a /\ w[2] = b /\ w[3] = c /\ w[4] = d /\ w = [n \in 1..4 |-> w[n]]
    OBVIOUS
  <1> HIDE DEF w
  <1>3. /\ BestStep(answers, w, 1) = a /\ BestStep(answers, w, 2) = b
        /\ BestStep(answers, w, 3) = c /\ BestStep(answers, w, 4) = d
    BY <1>1, <1>2 DEF BestStep
  <1>4. \A n \in 1..4 : w[n] = BestStep(answers, w, n)
    BY <1>2, <1>3
  <1>5. w = [n \in 1..4 |-> BestStep(answers, w, n)]
    BY <1>2, <1>4
  <1>6. QED
    BY <1>5 DEF IsBest, Best

\* What the loop has after n steps leads among the first n.
LEMMA BestLeads ==
    ASSUME NEW answers, IsFiniteSet(DOMAIN answers)
    PROVE  Leads(answers, ComputeWealthDna(answers), 4)
  <1> DEFINE best == Best(answers)
             V(n) == Votes(answers, Archetypes[n])
  <1>1. ComputeWealthDna(answers) = best[4]
    BY ArchetypeOrder DEF ComputeWealthDna, Best, IsBest, BestStep
  <1>2. \A n \in 1..4 : best[n] = BestStep(answers, best, n)
    <2>1. best = [n \in 1..4 |-> BestStep(answers, best, n)]
      BY BestExists DEF IsBest
    <2> HIDE DEF best
    <2>2. QED
      BY <2>1
  <1> HIDE DEF best
  <1>3. \A n \in 1..4 : V(n) \in Nat
    BY VotesType
  <1>4. Leads(answers, best[1], 1)
    <2>1. best[1] = Archetypes[1]
      BY <1>2 DEF BestStep
    <2>2. QED
      BY <1>3, <2>1 DEF Leads
  <1>5. ASSUME NEW n \in 1..3, Leads(answers, best[n], n) PROVE Leads(answers, best[n + 1], n + 1)
    <2>1. PICK k \in 1..n : /\ best[n] = Archetypes[k]
                            /\ \A j \in 1..n : V(j) <= V(k)
                            /\ \A j \in 1..(k - 1) : V(j) < V(k)
      BY <1>5 DEF Leads
    <2>2. best[n + 1] = IF V(n + 1) > V(k) THEN Archetypes[n + 1] ELSE Archetypes[k]
      BY <1>2, <2>1 DEF BestStep
    <2>3. \A j \in 1..(n + 1) : V(j) \in Nat
      BY <1>3
    <2> HIDE DEF V
    <2>4. CASE V(n + 1) > V(k)
      <3>1. best[n + 1] = Archetypes[n + 1]
        BY <2>2, <2>4
      <3>2. \A j \in 1..((n + 1) - 1) : V(j) < V(n + 1)
        BY <2>1, <2>3, <2>4
      <3>3. \A j \in 1..(n + 1) : V(j) <= V(n + 1)
        BY <2>3, <3>2
      <3>4. QED
        BY <3>1, <3>2, <3>3 DEF Leads, V
    <2>5. CASE ~(V(n + 1) > V(k))
      <3>1. best[n + 1] = Archetypes[k]
        BY <2>2, <2>5
      <3>2. \A j \in 1..(n + 1) : V(j) <= V(k)
        BY <2>1, <2>3, <2>5
      <3>3. k \in 1..(n + 1)
        OBVIOUS
      <3>4. QED
        BY <2>1, <3>1, <3>2, <3>3 DEF Leads, V
    <2>6. QED
      BY <2>4, <2>5
  <1>6. QED
    BY <1>1, <1>4, <1>5

\* OutcomeOfAnswersSent: whatever is clicked while a reply is on its way, and
\* however many questions there are (WealthDna.submit, computeWealthDna).
THEOREM OutcomesAreOfWhatWasSent == ToolsSpec => []OutcomeOfAnswersSent
  <1>1. ToolInv => OutcomeOfAnswersSent
    <2> SUFFICES ASSUME ToolInv, tool = "dna", shown # None PROVE OutcomeOfAnswersSent
      BY DEF OutcomeOfAnswersSent
    <2>1. shown = ComputeWealthDna(submitted) /\ IsFiniteSet(DOMAIN submitted)
      BY DEF ToolInv, Answer, Asked
    <2> DEFINE V(n)     == Votes(submitted, Archetypes[n])
               Place(a) == CHOOSE n \in DOMAIN Archetypes : Archetypes[n] = a
    <2>2. PICK k \in 1..4 : /\ shown = Archetypes[k]
                            /\ \A j \in 1..4 : V(j) <= V(k)
                            /\ \A j \in 1..(k - 1) : V(j) < V(k)
      BY <2>1, BestLeads DEF Leads
    <2>3. \A n \in 1..4 : V(n) \in Nat /\ Place(Archetypes[n]) = n
      <3>1. ASSUME NEW n \in 1..4 PROVE Place(Archetypes[n]) = n
        BY ArchetypeOrder
      <3>2. QED
        BY <2>1, <3>1, VotesType
    <2> HIDE DEF V, Place
    <2>4. ASSUME NEW a \in Archetype \ {shown}
          PROVE  \/ Votes(submitted, a) < Votes(submitted, shown)
                 \/ Votes(submitted, a) = Votes(submitted, shown) /\ Place(shown) < Place(a)
      <3>1. PICK j \in 1..4 : a = Archetypes[j] /\ j # k
        BY <2>2, ArchetypeOrder
      <3>2. V(j) < V(k) \/ (V(j) = V(k) /\ k < j)
        <4>1. V(j) \in Nat /\ V(k) \in Nat /\ V(j) <= V(k)
          BY <2>2, <2>3
        <4>2. j < k => V(j) < V(k)
          BY <2>2
        <4>3. QED
          BY <3>1, <4>1, <4>2
      <3>3. QED
        BY <2>2, <2>3, <3>1, <3>2 DEF V
    <2>5. QED
      BY <2>4 DEF OutcomeOfAnswersSent, Place
  <1>2. QED
    BY <1>1, ToolInvariance, PTL
------------------------------------------------------------------------------
(* Recommended mixes *)

\* The eight classes of ALL_CLASSES.
LEMMA AssetClassSet ==
    /\ AssetClass = {"equity", "debt", "gold", "real_estate", "cash", "crypto", "business", "other"}
    /\ IsFiniteSet(AssetClass)
  <1>1. AssetClass = {"equity", "debt", "gold", "real_estate", "cash", "crypto", "business", "other"}
    <2>1. DOMAIN AllClasses = 1..8
      BY DEF AllClasses
    <2>2. 1..8 = {1, 2, 3, 4, 5, 6, 7, 8}
      OBVIOUS
    <2>3. /\ AllClasses[1] = "equity" /\ AllClasses[2] = "debt" /\ AllClasses[3] = "gold"
          /\ AllClasses[4] = "real_estate" /\ AllClasses[5] = "cash" /\ AllClasses[6] = "crypto"
          /\ AllClasses[7] = "business" /\ AllClasses[8] = "other"
      BY DEF AllClasses
    <2>4. QED
      BY <2>1, <2>2, <2>3 DEF AssetClass, ToSet
  <1>2. QED
    <2>1. \A S, x, y : IsFiniteSet(S) => IsFiniteSet((S \cup {x}) \cup {y})
      BY FS_AddElement
    <2>2. IsFiniteSet({} \cup {"equity"} \cup {"debt"} \cup {"gold"} \cup {"real_estate"}
                      \cup {"cash"} \cup {"crypto"} \cup {"business"} \cup {"other"})
      BY <2>1, FS_EmptySet, Zenon
    <2>3. QED
      BY <1>1, <2>2

\* A sum over the classes has eight terms.
LEMMA SumOfClasses ==
    ASSUME NEW f, \A c \in AssetClass : f[c] \in Int
    PROVE  SumOver(f, AssetClass)
             = f["equity"] + f["debt"] + f["gold"] + f["real_estate"]
               + f["cash"] + f["crypto"] + f["business"] + f["other"]
  <1> DEFINE S1 == {"equity"}
             S2 == S1 \cup {"debt"}
             S3 == S2 \cup {"gold"}
             S4 == S3 \cup {"real_estate"}
             S5 == S4 \cup {"cash"}
             S6 == S5 \cup {"crypto"}
             S7 == S6 \cup {"business"}
             S8 == S7 \cup {"other"}
  <1>1. AssetClass = S8
    BY AssetClassSet
  <1>2. /\ \A c \in S8 : f[c] \in Int
        /\ S1 \subseteq S8 /\ S2 \subseteq S8 /\ S3 \subseteq S8 /\ S4 \subseteq S8
        /\ S5 \subseteq S8 /\ S6 \subseteq S8 /\ S7 \subseteq S8
    BY <1>1
  <1>3. /\ IsFiniteSet(S1) /\ IsFiniteSet(S2) /\ IsFiniteSet(S3) /\ IsFiniteSet(S4)
        /\ IsFiniteSet(S5) /\ IsFiniteSet(S6) /\ IsFiniteSet(S7)
    <2>1. IsFiniteSet(S8)
      BY <1>1, AssetClassSet
    <2> HIDE DEF S1, S2, S3, S4, S5, S6, S7, S8
    <2>2. QED
      BY <1>2, <2>1, FS_Subset
  <1>4. /\ "debt" \notin S1 /\ "gold" \notin S2 /\ "real_estate" \notin S3 /\ "cash" \notin S4
        /\ "crypto" \notin S5 /\ "business" \notin S6 /\ "other" \notin S7
    OBVIOUS
  <1>5. SumOver(f, S1) = f["equity"]
    <2>1. SumOver(f, {} \cup {"equity"}) = f["equity"] + SumOver(f, {})
      <3>1. IsFiniteSet({}) /\ "equity" \notin {} /\ \A i \in {} \cup {"equity"} : f[i] \in Int
        BY <1>2, FS_EmptySet
      <3>2. QED
        BY <3>1, SumAdd
    <2>2. {} \cup {"equity"} = S1 /\ f["equity"] \in Int
      BY <1>2
    <2>3. QED
      BY <2>1, <2>2, SumEmpty
  <1> HIDE DEF S1
  <1>6. SumOver(f, S2) = f["debt"] + SumOver(f, S1)
    BY <1>2, <1>3, <1>4, SumAdd
  <1> HIDE DEF S2
  <1>7. SumOver(f, S3) = f["gold"] + SumOver(f, S2)
    BY <1>2, <1>3, <1>4, SumAdd
  <1> HIDE DEF S3
  <1>8. SumOver(f, S4) = f["real_estate"] + SumOver(f, S3)
    BY <1>2, <1>3, <1>4, SumAdd
  <1> HIDE DEF S4
  <1>9. SumOver(f, S5) = f["cash"] + SumOver(f, S4)
    BY <1>2, <1>3, <1>4, SumAdd
  <1> HIDE DEF S5
  <1>10. SumOver(f, S6) = f["crypto"] + SumOver(f, S5)
    BY <1>2, <1>3, <1>4, SumAdd
  <1> HIDE DEF S6
  <1>11. SumOver(f, S7) = f["business"] + SumOver(f, S6)
    BY <1>2, <1>3, <1>4, SumAdd
  <1> HIDE DEF S7
  <1>12. SumOver(f, S8) = f["other"] + SumOver(f, S7)
    BY <1>2, <1>3, <1>4, SumAdd
  <1> HIDE DEF S8
  <1>13. /\ f["equity"] \in Int /\ f["debt"] \in Int /\ f["gold"] \in Int
         /\ f["real_estate"] \in Int /\ f["cash"] \in Int /\ f["crypto"] \in Int
         /\ f["business"] \in Int /\ f["other"] \in Int
    BY AssetClassSet
  <1>14. QED
    BY <1>1, <1>5, <1>6, <1>7, <1>8, <1>9, <1>10, <1>11, <1>12, <1>13

\* The shares of what is held are whole tenths of a percent and make 1000 of
\* them, up to half of one per class; the shares of nothing are nothing.
LEMMA SharesAreNear ==
    ASSUME NEW values, \A c \in AssetClass : ValueOf(values, c) \in Int
    PROVE  LET shares == Normalize(values)
           IN  /\ \A c \in AssetClass : shares[c] \in Int
               /\ \/ SumOver(shares, AssetClass) = 0
                  \/ Magnitude(SumOver(shares, AssetClass) - 1000) <= 4
  <1> DEFINE v == [c \in AssetClass |-> ValueOf(values, c)]
             total == SumOver(v, AssetClass)
             shares == Normalize(values)
  <1>1. shares = [c \in AssetClass |->
                    IF total > 0 THEN Round(1000 * ValueOf(values, c), total) ELSE 0]
    BY DEF Normalize
  <1>2. \A c \in AssetClass : v[c] \in Int /\ v[c] = ValueOf(values, c)
    OBVIOUS
  <1> HIDE DEF v
  <1>3. total \in Int
    BY <1>2, AssetClassSet, SumInt
  <1> HIDE DEF total, shares
  <1>4. CASE total > 0
    <2>1. \A c \in AssetClass : shares[c] = Round(1000 * v[c], total)
      BY <1>1, <1>2, <1>4
    <2>2. total \in Nat \ {0}
      BY <1>3, <1>4
    <2>3. ASSUME NEW c \in AssetClass
          PROVE  /\ shares[c] \in Int
                 /\ total * (2 * shares[c]) <= 2000 * v[c] + total
                 /\ 2000 * v[c] + total < total * (2 * (shares[c] + 1))
      <3>1. PICK num \in Int : num = 1000 * v[c] /\ 2 * num = 2000 * v[c]
        BY <1>2
      <3>2. shares[c] = Round(num, total)
        BY <2>1, <3>1
      <3>3. /\ Round(num, total) \in Int
            /\ total * (2 * Round(num, total)) <= 2 * num + total
            /\ 2 * num + total < total * (2 * (Round(num, total) + 1))
        BY <2>2, RoundIsNear
      <3>4. QED
        BY <3>1, <3>2, <3>3
    <2> DEFINE sum == SumOver(shares, AssetClass)
    <2>4. /\ sum = shares["equity"] + shares["debt"] + shares["gold"] + shares["real_estate"]
                   + shares["cash"] + shares["crypto"] + shares["business"] + shares["other"]
          /\ total = v["equity"] + v["debt"] + v["gold"] + v["real_estate"]
                     + v["cash"] + v["crypto"] + v["business"] + v["other"]
      <3>1. \A c \in AssetClass : shares[c] \in Int /\ v[c] \in Int
        BY <1>2, <2>3
      <3>2. QED
        BY <3>1, SumOfClasses DEF total
    <2> HIDE DEF sum
    <2> DEFINE p(c) == total * shares[c]
    <2>5. ASSUME NEW c \in AssetClass
          PROVE  /\ p(c) \in Int /\ shares[c] \in Int /\ v[c] \in Int
                 /\ 2 * p(c) <= 2000 * v[c] + total
                 /\ 2000 * v[c] + total < 2 * p(c) + 2 * total
      <3>1. PICK s \in Int : s = shares[c]
        BY <2>3
      <3>2. /\ total * s \in Int /\ total * (2 * s) = 2 * (total * s)
            /\ total * (2 * (s + 1)) = 2 * (total * s) + 2 * total
        BY <1>3
      <3>3. QED
        BY <1>2, <2>3, <3>1, <3>2
    <2>6. sum \in Int /\ total * sum = p("equity") + p("debt") + p("gold") + p("real_estate")
                               + p("cash") + p("crypto") + p("business") + p("other")
      <3>1. \A c \in AssetClass : shares[c] \in Int
        BY <2>3
      <3>2. /\ shares["equity"] \in Int /\ shares["debt"] \in Int /\ shares["gold"] \in Int
            /\ shares["real_estate"] \in Int /\ shares["cash"] \in Int /\ shares["crypto"] \in Int
            /\ shares["business"] \in Int /\ shares["other"] \in Int
        BY <3>1, AssetClassSet
      <3>3. \A t, a, b, c, d, e, f, g, h \in Int :
              t * (a + b + c + d + e + f + g + h)
                = t * a + t * b + t * c + t * d + t * e + t * f + t * g + t * h
        OBVIOUS
      <3>4. PICK a \in Int, b \in Int, c \in Int, d \in Int, e \in Int, f \in Int, g \in Int, h \in Int :
               /\ a = shares["equity"] /\ b = shares["debt"] /\ c = shares["gold"]
               /\ d = shares["real_estate"] /\ e = shares["cash"] /\ f = shares["crypto"]
               /\ g = shares["business"] /\ h = shares["other"]
        BY <3>2, Zenon
      <3>5. sum = a + b + c + d + e + f + g + h
        BY <2>4, <3>4
      <3>6. total * sum = total * a + total * b + total * c + total * d
                          + total * e + total * f + total * g + total * h
        BY <1>3, <3>3, <3>5
      <3>7. QED
        BY <3>4, <3>5, <3>6
    <2> HIDE DEF p
    <2>7. 2 * (total * sum) <= 2008 * total /\ 1992 * total < 2 * (total * sum)
      <3>1. /\ "equity" \in AssetClass /\ "debt" \in AssetClass /\ "gold" \in AssetClass
            /\ "real_estate" \in AssetClass /\ "cash" \in AssetClass /\ "crypto" \in AssetClass
            /\ "business" \in AssetClass /\ "other" \in AssetClass
        BY AssetClassSet
      <3>2. QED
        BY <1>3, <2>4, <2>5, <2>6, <3>1
    <2>8. sum < 1005 /\ 996 < sum
      <3>1. total * sum < total * 1005 /\ total * 996 < total * sum
        BY <1>3, <1>4, <2>6, <2>7
      <3>2. QED
        BY <2>2, <2>6, <3>1, Divide
    <2>9. Magnitude(sum - 1000) <= 4
      BY <2>6, <2>8 DEF Magnitude
    <2>10. QED
      BY <2>3, <2>9 DEF sum, shares
  <1>5. CASE ~(total > 0)
    <2>1. \A c \in AssetClass : shares[c] = 0
      BY <1>1, <1>5
    <2>2. SumOver(shares, AssetClass) = shares["equity"] + shares["debt"] + shares["gold"]
            + shares["real_estate"] + shares["cash"] + shares["crypto"] + shares["business"]
            + shares["other"]
      BY <2>1, SumOfClasses
    <2>3. SumOver(shares, AssetClass) = 0
      BY <2>1, <2>2, AssetClassSet
    <2>4. QED
      BY <2>1, <2>3 DEF shares
  <1>6. QED
    BY <1>4, <1>5

------------------------------------------------------------------------------
\* A mix given in whole percent that make 100 keeps them, in tenths.
LEMMA WholePercents ==
    ASSUME NEW mix, \A c \in AssetClass : ValueOf(mix, c) \in Nat,
           SumOver([c \in AssetClass |-> ValueOf(mix, c)], AssetClass) = 100
    PROVE  \A c \in AssetClass : Normalize(mix)[c] = 10 * ValueOf(mix, c)
  <1>1. ASSUME NEW c \in AssetClass PROVE Normalize(mix)[c] = 10 * ValueOf(mix, c)
    <2>1. Normalize(mix)[c] = Round(1000 * ValueOf(mix, c), 100)
      BY DEF Normalize
    <2>2. PICK v \in Nat : v = ValueOf(mix, c)
      OBVIOUS
    <2>3. Round(1000 * v, 100) = 10 * v
      BY DEF Round
    <2>4. QED
      BY <2>1, <2>2, <2>3
  <1>2. QED
    BY <1>1

\* The equity share of recommendedAllocation, and the mix with the difference
\* moved into debt.
EquityShare(risk, age) ==
    IF age = 0 THEN BaseMix(risk).equity
    ELSE Round(BaseMix(risk).equity + Larger(20, Smaller(80, 100 - age)), 2)
Glided(risk, age) ==
    IF age = 0 THEN BaseMix(risk)
    ELSE [BaseMix(risk) EXCEPT !.equity = EquityShare(risk, age),
                               !.debt = @ + (BaseMix(risk).equity - EquityShare(risk, age))]

\* At any age the equity share leaves something for debt, and it does not rise.
LEMMA EquityRange ==
    ASSUME NEW risk \in {"conservative", "moderate", "aggressive"}, NEW age \in Int
    PROVE  /\ BaseMix(risk).equity \in Nat /\ BaseMix(risk).debt \in Nat
           /\ EquityShare(risk, age) \in Nat
           /\ EquityShare(risk, age) <= BaseMix(risk).equity + BaseMix(risk).debt
  <1>1. PICK g \in 20..80 : g = Larger(20, Smaller(80, 100 - age))
    BY DEF Larger, Smaller
  <1>2. CASE risk = "conservative"
    BY <1>1, <1>2 DEF EquityShare, BaseMix, Round
  <1>3. CASE risk = "moderate"
    BY <1>1, <1>3 DEF EquityShare, BaseMix, Round
  <1>4. CASE risk = "aggressive"
    BY <1>1, <1>4 DEF EquityShare, BaseMix, Round
  <1>5. QED
    BY <1>2, <1>3, <1>4

\* Equity never grows with age.
LEMMA EquityFalls ==
    ASSUME NEW risk \in {"conservative", "moderate", "aggressive"},
           NEW age \in Int, NEW older \in Int, age > 0, age < older
    PROVE  EquityShare(risk, older) <= EquityShare(risk, age)
  <1>1. PICK g \in Int, h \in Int :
           /\ g = Larger(20, Smaller(80, 100 - age)) /\ h = Larger(20, Smaller(80, 100 - older))
           /\ h <= g
    BY DEF Larger, Smaller
  <1>2. PICK e \in Nat : e = BaseMix(risk).equity
    BY EquityRange
  <1>3. Round(e + h, 2) <= Round(e + g, 2)
    <2>1. (e + h) * 2 <= (e + g) * 2 /\ e + h \in Int /\ e + g \in Int
      BY <1>1
    <2>2. QED
      BY <2>1, RoundMonotone
  <1>4. age # 0 /\ older # 0
    OBVIOUS
  <1>5. QED
    BY <1>1, <1>2, <1>3, <1>4 DEF EquityShare

\* The recommended mix has no negative share and makes exactly 1000 tenths.
LEMMA RecommendedIsWhole ==
    ASSUME NEW risk \in {"conservative", "moderate", "aggressive"}, NEW age \in Int
    PROVE  LET r == RecommendedAllocation(risk, age)
           IN  /\ \A c \in AssetClass : r[c] \in Nat
               /\ r.equity = 10 * EquityShare(risk, age)
               /\ SumOver(r, AssetClass) = 1000
  <1> DEFINE mix == Glided(risk, age)
             e == EquityShare(risk, age)
             b == BaseMix(risk)
             r == RecommendedAllocation(risk, age)
             v == [c \in AssetClass |-> ValueOf(mix, c)]
  <1>1. r = Normalize(mix)
    BY DEF RecommendedAllocation, Glided, EquityShare
  <1>2. /\ e \in Nat /\ b.equity \in Nat /\ b.debt \in Nat /\ e <= b.equity + b.debt
        /\ age = 0 => e = b.equity
    BY EquityRange DEF EquityShare
  <1>3. /\ DOMAIN b = {"equity", "debt", "gold", "real_estate", "cash"}
        /\ b.gold \in Nat /\ b.real_estate \in Nat /\ b.cash \in Nat
        /\ b.equity + b.debt + b.gold + b.real_estate + b.cash = 100
    <2>1. CASE risk = "conservative"
      BY <2>1 DEF BaseMix
    <2>2. CASE risk = "moderate"
      BY <2>2 DEF BaseMix
    <2>3. CASE risk = "aggressive"
      BY <2>3 DEF BaseMix
    <2>4. QED
      BY <2>1, <2>2, <2>3
  <1> HIDE DEF e, b
  <1>4. /\ DOMAIN mix = {"equity", "debt", "gold", "real_estate", "cash"}
        /\ mix.equity = e /\ mix.debt = b.debt + (b.equity - e) /\ mix.gold = b.gold
        /\ mix.real_estate = b.real_estate /\ mix.cash = b.cash
    <2>1. mix = IF age = 0 THEN b
                ELSE [b EXCEPT !.equity = e, !.debt = @ + (b.equity - e)]
      BY DEF Glided, b, e
    <2> HIDE DEF mix
    <2>2. CASE age = 0
      BY <1>2, <1>3, <2>1, <2>2
    <2>3. CASE age # 0
      <3>1. mix = [b EXCEPT !.equity = e, !.debt = @ + (b.equity - e)]
        BY <2>1, <2>3
      <3>2. QED
        BY <1>3, <3>1
    <2>4. QED
      BY <2>2, <2>3
  <1> HIDE DEF mix
  <1>5. /\ v["equity"] = e /\ v["debt"] = b.debt + (b.equity - e) /\ v["gold"] = b.gold
        /\ v["real_estate"] = b.real_estate /\ v["cash"] = b.cash
        /\ v["crypto"] = 0 /\ v["business"] = 0 /\ v["other"] = 0
    BY <1>4, AssetClassSet DEF ValueOf
  <1>6. \A c \in AssetClass : v[c] \in Nat
    BY <1>2, <1>3, <1>5, AssetClassSet
  <1>7. SumOver(v, AssetClass) = 100
    <2>1. \A c \in AssetClass : v[c] \in Int
      BY <1>6
    <2> HIDE DEF v
    <2>2. SumOver(v, AssetClass) = v["equity"] + v["debt"] + v["gold"] + v["real_estate"]
                                   + v["cash"] + v["crypto"] + v["business"] + v["other"]
      BY <2>1, SumOfClasses
    <2>3. QED
      BY <1>2, <1>3, <1>5, <2>2
  <1>8. \A c \in AssetClass : r[c] = 10 * v[c]
    <2>1. \A c \in AssetClass : v[c] = ValueOf(mix, c)
      OBVIOUS
    <2>2. \A c \in AssetClass : Normalize(mix)[c] = 10 * ValueOf(mix, c)
      BY <1>6, <1>7, <2>1, WholePercents
    <2> HIDE DEF r, v
    <2>3. QED
      BY <1>1, <2>1, <2>2
  <1> HIDE DEF r, v
  <1>9. SumOver(r, AssetClass) = 1000
    <2>1. \A c \in AssetClass : v[c] \in Int /\ r[c] = v[c] * 10
      BY <1>6, <1>8
    <2>2. SumOver(r, AssetClass) = SumOver(v, AssetClass) * 10
      BY <2>1, AssetClassSet, SumScaled
    <2>3. QED
      BY <1>7, <2>2
  <1>10. /\ \A c \in AssetClass : r[c] \in Nat
         /\ r["equity"] = 10 * e
    BY <1>5, <1>6, <1>8, AssetClassSet
  <1>11. QED
    BY <1>9, <1>10 DEF r, e

\* MixIsWhole: the mix recommended at any age and for any holdings is a whole
\* portfolio (recommendedAllocation, analyzeAllocation).
THEOREM MixesAreWhole == ToolsSpec => []MixIsWhole
  <1>1. ToolInv => MixIsWhole
    <2> SUFFICES ASSUME ToolInv, tool = "allocation", shown # None PROVE MixIsWhole
      BY DEF MixIsWhole
    <2> DEFINE r == RecommendedAllocation(submitted.risk, submitted.age)
               n == Normalize(submitted.values)
    <2>1. /\ shown = AnalyzeAllocation(submitted.values, submitted.risk, submitted.age)
          /\ AllocationInput(submitted)
      BY DEF ToolInv, Answer, Asked
    <2>2. /\ shown.current = n /\ shown.recommended = r
          /\ shown.drift = [c \in AssetClass |-> n[c] - r[c]]
      BY <2>1 DEF AnalyzeAllocation
    <2>3. /\ \A c \in AssetClass : r[c] \in Nat
          /\ r.equity = 10 * EquityShare(submitted.risk, submitted.age)
          /\ SumOver(r, AssetClass) = 1000
      BY <2>1, RecommendedIsWhole DEF AllocationInput
    <2>4. /\ \A c \in AssetClass : n[c] \in Int
          /\ SumOver(n, AssetClass) = 0 \/ Magnitude(SumOver(n, AssetClass) - 1000) <= 4
      <3>1. \A c \in AssetClass : ValueOf(submitted.values, c) \in Int
        BY <2>1 DEF AllocationInput, ValueOf
      <3>2. QED
        BY <3>1, SharesAreNear
    <2> HIDE DEF r, n
    <2>5. SumOver(shown.drift, AssetClass) = SumOver(n, AssetClass) - SumOver(r, AssetClass)
      <3> DEFINE d == shown.drift
      <3>1. \A c \in AssetClass : d[c] \in Int /\ r[c] \in Int /\ n[c] = d[c] + r[c]
        BY <2>2, <2>3, <2>4
      <3>2. SumOver(n, AssetClass) = SumOver(d, AssetClass) + SumOver(r, AssetClass)
        <4> HIDE DEF d
        <4>1. QED
          BY <3>1, AssetClassSet, SumPlus
      <3>3. SumOver(d, AssetClass) \in Int
        <4> HIDE DEF d
        <4>1. QED
          BY <3>1, AssetClassSet, SumInt
      <3>4. QED
        BY <2>3, <3>2, <3>3
    <2>6. ASSUME submitted.age > 0, NEW older \in (submitted.age + 1)..100
          PROVE  RecommendedAllocation(submitted.risk, older).equity <= r.equity
      <3>1. submitted.age \in Int /\ older \in Int /\ submitted.age < older
        BY <2>1, <2>6 DEF AllocationInput
      <3>2. EquityShare(submitted.risk, older) <= EquityShare(submitted.risk, submitted.age)
        BY <2>1, <2>6, <3>1, EquityFalls DEF AllocationInput
      <3>3. RecommendedAllocation(submitted.risk, older).equity
              = 10 * EquityShare(submitted.risk, older)
        BY <2>1, <3>1, RecommendedIsWhole DEF AllocationInput
      <3>4. EquityShare(submitted.risk, older) \in Nat /\ EquityShare(submitted.risk, submitted.age) \in Nat
        BY <2>1, <3>1, EquityRange DEF AllocationInput
      <3>5. QED
        BY <2>3, <3>2, <3>3, <3>4
    <2>7. SumOver(n, AssetClass) \in Int
      BY <2>4, AssetClassSet, SumInt
    <2>8. /\ Magnitude(SumOver(shown.recommended, AssetClass) - 1000) <= 4
          /\ SumOver(shown.current, AssetClass) # 0
               => Magnitude(SumOver(shown.drift, AssetClass)) <= 8
      BY <2>2, <2>3, <2>4, <2>5, <2>7 DEF Magnitude
    <2>9. \A c \in AssetClass : shown.recommended[c] >= 0
      BY <2>2, <2>3
    <2>10. QED
      BY <2>2, <2>6, <2>8, <2>9 DEF MixIsWhole
  <1>2. QED
    BY <1>1, ToolInvariance, PTL
------------------------------------------------------------------------------
(* Balances that grow and are added to, period by period *)

\* A balance, period by period.
IsBalance(f, start, factor, added, n) ==
    f = [m \in 0..n |-> IF m = 0 THEN start ELSE f[m - 1] * factor + added[m]]
Balances(start, factor, added, n) == CHOOSE f : IsBalance(f, start, factor, added, n)

\* The balance is the last entry of such a function.
LEMMA BalanceIsEntry ==
    ASSUME NEW start, NEW factor, NEW added, NEW n
    PROVE  BalanceAfter(start, factor, added, n) = Balances(start, factor, added, n)[n]
  BY DEF BalanceAfter, Balances, IsBalance

\* The entries of such a function.
LEMMA BalanceEntries ==
    ASSUME NEW start, NEW factor, NEW added, NEW n \in Nat, NEW f,
           IsBalance(f, start, factor, added, n)
    PROVE  /\ f[0] = start
           /\ \A m \in 1..n : f[m] = f[m - 1] * factor + added[m]
  <1>1. \A m \in 0..n : f[m] = IF m = 0 THEN start ELSE f[m - 1] * factor + added[m]
    BY DEF IsBalance
  <1>2. QED
    BY <1>1

\* There is one.
LEMMA BalancesExist ==
    ASSUME NEW start, NEW factor, NEW added, NEW n \in Nat
    PROVE  IsBalance(Balances(start, factor, added, n), start, factor, added, n)
  <1> DEFINE Good == {m \in 0..n : \E f : IsBalance(f, start, factor, added, m)}
  <1>1. 0 \in Good
    <2> DEFINE f == [m \in 0..0 |-> start]
    <2>1. f = [m \in 0..0 |-> IF m = 0 THEN start ELSE f[m - 1] * factor + added[m]]
      OBVIOUS
    <2> HIDE DEF f
    <2>2. QED
      BY <2>1 DEF IsBalance
  <1>2. ASSUME NEW m \in 0..(n - 1), m \in Good PROVE m + 1 \in Good
    <2>1. PICK f : IsBalance(f, start, factor, added, m)
      BY <1>2
    <2>2. /\ f[0] = start
          /\ \A k \in 1..m : f[k] = f[k - 1] * factor + added[k]
      <3>1. f = [k \in 0..m |-> IF k = 0 THEN start ELSE f[k - 1] * factor + added[k]]
        BY <2>1 DEF IsBalance
      <3>2. \A k \in 0..m : f[k] = IF k = 0 THEN start ELSE f[k - 1] * factor + added[k]
        BY <3>1
      <3>3. QED
        BY <3>2
    <2> DEFINE last == f[m] * factor + added[m + 1]
               g == [k \in 0..(m + 1) |-> IF k <= m THEN f[k] ELSE last]
    <2> HIDE DEF last
    <2>3. \A k \in 0..m : g[k] = f[k]
      OBVIOUS
    <2>4. g[m + 1] = last /\ g = [k \in 0..(m + 1) |-> g[k]]
      OBVIOUS
    <2> HIDE DEF g
    <2>5. ASSUME NEW k \in 0..(m + 1)
          PROVE  g[k] = IF k = 0 THEN start ELSE g[k - 1] * factor + added[k]
      <3>1. CASE k = 0
        BY <2>2, <2>3, <3>1
      <3>2. CASE k \in 1..m
        <4>1. k # 0 /\ k \in 0..m /\ k - 1 \in 0..m
          BY <3>2
        <4>2. g[k] = f[k] /\ g[k - 1] = f[k - 1]
          BY <2>3, <4>1
        <4>3. QED
          BY <2>2, <3>2, <4>1, <4>2
      <3>3. CASE k = m + 1
        <4>1. k # 0 /\ k - 1 = m /\ m \in 0..m
          BY <3>3
        <4>2. QED
          BY <2>3, <2>4, <3>3, <4>1 DEF last
      <3>4. QED
        BY <3>1, <3>2, <3>3
    <2>6. IsBalance(g, start, factor, added, m + 1)
      BY <2>4, <2>5 DEF IsBalance
    <2>7. m + 1 \in 0..n
      OBVIOUS
    <2>8. QED
      BY <2>6, <2>7
  <1> HIDE DEF Good
  <1>3. n \in Good
    BY <1>1, <1>2, CountingUp
  <1>4. QED
    BY <1>3 DEF Good, Balances

\* After no period it is the start, after one more it is one step further.
LEMMA BalanceNext ==
    ASSUME NEW start, NEW factor, NEW added, NEW n \in Nat
    PROVE  /\ BalanceAfter(start, factor, added, 0) = start
           /\ BalanceAfter(start, factor, added, n + 1)
                = BalanceAfter(start, factor, added, n) * factor + added[n + 1]
  <1> DEFINE f == Balances(start, factor, added, n)
             g == Balances(start, factor, added, n + 1)
             Same == {k \in 0..n : f[k] = g[k]}
  <1>1. /\ f[0] = start
        /\ \A m \in 1..n : f[m] = f[m - 1] * factor + added[m]
    BY BalancesExist, BalanceEntries
  <1>2. /\ g[0] = start
        /\ \A m \in 1..(n + 1) : g[m] = g[m - 1] * factor + added[m]
    <2>1. n + 1 \in Nat
      OBVIOUS
    <2>2. QED
      BY <2>1, BalancesExist, BalanceEntries
  <1>3. BalanceAfter(start, factor, added, 0) = start
    BY BalancesExist, BalanceEntries, BalanceIsEntry
  <1>4. /\ BalanceAfter(start, factor, added, n) = f[n]
        /\ BalanceAfter(start, factor, added, n + 1) = g[n + 1]
    BY BalanceIsEntry
  <1> HIDE DEF f, g
  <1>5. 0 \in Same
    BY <1>1, <1>2
  <1>6. ASSUME NEW m \in 0..(n - 1), m \in Same PROVE m + 1 \in Same
    <2>1. m + 1 \in 1..n /\ m + 1 \in 1..(n + 1) /\ (m + 1) - 1 = m /\ m + 1 \in 0..n
      OBVIOUS
    <2>2. QED
      BY <1>1, <1>2, <1>6, <2>1
  <1>7. n \in Same
    <2> HIDE DEF Same
    <2>1. QED
      BY <1>5, <1>6, CountingUp
  <1>8. g[n + 1] = g[n] * factor + added[n + 1]
    <2>1. n + 1 \in 1..(n + 1) /\ (n + 1) - 1 = n
      OBVIOUS
    <2>2. QED
      BY <1>2, <2>1
  <1>9. QED
    BY <1>3, <1>4, <1>7, <1>8

\* Whole numbers make a whole balance, and it is not negative if they are not.
LEMMA BalanceType ==
    ASSUME NEW start \in Int, NEW factor \in Int, NEW n \in Nat, NEW added,
           \A m \in 1..n : added[m] \in Int
    PROVE  \A m \in 0..n : BalanceAfter(start, factor, added, m) \in Int
  <1> DEFINE B(m) == BalanceAfter(start, factor, added, m)
             Good == {m \in 0..n : B(m) \in Int}
  <1>1. 0 \in Good
    BY BalanceNext
  <1>2. ASSUME NEW m \in 0..(n - 1), m \in Good PROVE m + 1 \in Good
    <2>1. B(m + 1) = B(m) * factor + added[m + 1] /\ added[m + 1] \in Int /\ m + 1 \in 0..n
      BY BalanceNext
    <2> HIDE DEF B
    <2>2. QED
      BY <1>2, <2>1
  <1> HIDE DEF Good
  <1>3. \A m \in 0..n : m \in Good
    BY <1>1, <1>2, CountingUp
  <1>4. QED
    BY <1>3 DEF Good

\* Amounts that are k times others.
Times(g, k, f, n) == \A m \in 1..n : f[m] \in Int /\ g[m] = k * f[m]

\* Twice, three times the amounts make twice, three times the balance, and the
\* start grows on its own.
LEMMA BalanceLinear ==
    ASSUME NEW start \in Int, NEW factor \in Int, NEW k \in Int, NEW n \in Nat,
           NEW f, NEW g, Times(g, k, f, n)
    PROVE  \A m \in 0..n : BalanceAfter(start, factor, g, m)
                             = start * Power(factor, m) + k * BalanceAfter(0, factor, f, m)
  <1> DEFINE B(m) == BalanceAfter(start, factor, g, m)
             C(m) == BalanceAfter(0, factor, f, m)
             P(m) == Power(factor, m)
             Good == {m \in 0..n : B(m) = start * P(m) + k * C(m)}
  <1>0. \A m \in 0..n : C(m) \in Int /\ P(m) \in Int
    <2>1. \A m \in 0..n : C(m) \in Int
      <3>1. \A m \in 1..n : f[m] \in Int
        BY DEF Times
      <3>2. QED
        BY <3>1, BalanceType
    <2>2. \A m \in 0..n : m \in Nat
      OBVIOUS
    <2>3. QED
      BY <2>1, <2>2, PowerType
  <1>1. 0 \in Good
    <2>1. B(0) = start /\ C(0) = 0 /\ P(0) = 1
      BY BalanceNext, PowerUnfold
    <2> HIDE DEF B, C, P
    <2>2. QED
      BY <2>1
  <1>2. ASSUME NEW m \in 0..(n - 1), m \in Good PROVE m + 1 \in Good
    <2>1. /\ B(m + 1) = B(m) * factor + g[m + 1] /\ C(m + 1) = C(m) * factor + f[m + 1]
          /\ P(m + 1) = P(m) * factor
      BY BalanceNext, PowerNext
    <2>2. m + 1 \in 1..n /\ m + 1 \in 0..n /\ m \in 0..n
      OBVIOUS
    <2> HIDE DEF B, C, P
    <2>3. PICK c \in Int, p \in Int, x \in Int :
             c = C(m) /\ p = P(m) /\ x = f[m + 1] /\ g[m + 1] = k * x
      BY <1>0, <2>2 DEF Times
    <2>4. (start * p + k * c) * factor + k * x = start * (p * factor) + k * (c * factor + x)
      OBVIOUS
    <2>5. QED
      BY <1>2, <2>1, <2>2, <2>3, <2>4
  <1> HIDE DEF Good
  <1>3. \A m \in 0..n : m \in Good
    BY <1>1, <1>2, CountingUp
  <1>4. QED
    BY <1>3 DEF Good

\* Amounts that are not negative make a balance that is not negative.
LEMMA BalanceNat ==
    ASSUME NEW start \in Nat, NEW factor \in Nat, NEW n \in Nat, NEW added,
           \A m \in 1..n : added[m] \in Nat
    PROVE  \A m \in 0..n : BalanceAfter(start, factor, added, m) \in Nat
  <1> DEFINE B(m) == BalanceAfter(start, factor, added, m)
             Good == {m \in 0..n : B(m) \in Nat}
  <1>1. 0 \in Good
    BY BalanceNext
  <1>2. ASSUME NEW m \in 0..(n - 1), m \in Good PROVE m + 1 \in Good
    <2>1. B(m + 1) = B(m) * factor + added[m + 1] /\ added[m + 1] \in Nat /\ m + 1 \in 0..n
      BY BalanceNext
    <2> HIDE DEF B
    <2>2. B(m) * factor \in Nat
      <3>1. \A a, b \in Nat : a * b \in Nat
        OBVIOUS
      <3>2. QED
        BY <1>2, <3>1
    <2>3. QED
      BY <2>1, <2>2
  <1> HIDE DEF Good
  <1>3. \A m \in 0..n : m \in Good
    BY <1>1, <1>2, CountingUp
  <1>4. QED
    BY <1>3 DEF Good

\* Amounts that start at w and are multiplied by `up`.
Geometric(f, up, w, n) == \A m \in 1..n : f[m] = Power(up, m - 1) * w

\* Amounts that grow by `up` while the balance grows by `factor` make a geometric sum.
LEMMA BalanceGeometric ==
    ASSUME NEW factor \in Int, NEW up \in Int, NEW w \in Int, NEW n \in Nat,
           NEW f, Geometric(f, up, w, n)
    PROVE  /\ BalanceAfter(0, factor, f, n) * (factor - up)
                = w * (Power(factor, n) - Power(up, n))
           /\ factor = up => BalanceAfter(0, factor, f, n) * up = n * w * Power(up, n)
  <1> DEFINE B(m) == BalanceAfter(0, factor, f, m)
             P(m) == Power(factor, m)
             U(m) == Power(up, m)
             Good == {m \in 0..n : /\ B(m) * (factor - up) = w * (P(m) - U(m))
                                   /\ factor = up => B(m) * up = m * w * U(m)}
  <1>0. \A m \in 0..n : B(m) \in Int /\ P(m) \in Int /\ U(m) \in Int
    <2>1. \A m \in 1..n : f[m] \in Int
      <3>1. ASSUME NEW m \in 1..n PROVE Power(up, m - 1) \in Int
        <4>1. m - 1 \in Nat
          OBVIOUS
        <4>2. QED
          BY <4>1, PowerType
      <3>2. QED
        BY <3>1 DEF Geometric
    <2>2. \A m \in 0..n : m \in Nat
      OBVIOUS
    <2>3. \A m \in 0..n : B(m) \in Int
      BY <2>1, BalanceType
    <2>4. QED
      BY <2>2, <2>3, PowerType
  <1>1. 0 \in Good
    <2>1. B(0) = 0 /\ P(0) = 1 /\ U(0) = 1
      BY BalanceNext, PowerUnfold
    <2> HIDE DEF B, P, U
    <2>2. QED
      BY <2>1
  <1>2. ASSUME NEW m \in 0..(n - 1), m \in Good PROVE m + 1 \in Good
    <2>1. /\ B(m + 1) = B(m) * factor + f[m + 1] /\ P(m + 1) = P(m) * factor
          /\ U(m + 1) = U(m) * up
      BY BalanceNext, PowerNext
    <2>2. m + 1 \in 0..n /\ m \in 0..n /\ m \in Int /\ f[m + 1] = U(m) * w
      <3>1. m + 1 \in 1..n /\ (m + 1) - 1 = m
        OBVIOUS
      <3>2. QED
        BY <3>1 DEF Geometric
    <2> HIDE DEF B, P, U
    <2>3. PICK b \in Int, p \in Int, u \in Int : b = B(m) /\ p = P(m) /\ u = U(m)
      BY <1>0, <2>2
    <2>4. b * (factor - up) = w * (p - u)
      BY <1>2, <2>3
    <2>5. (b * factor + u * w) * (factor - up) = w * (p * factor - u * up)
      <3>1. (b * factor + u * w) * (factor - up)
              = (b * (factor - up)) * factor + (u * w) * (factor - up)
        OBVIOUS
      <3>2. (w * (p - u)) * factor + (u * w) * (factor - up) = w * (p * factor - u * up)
        OBVIOUS
      <3>3. QED
        BY <2>4, <3>1, <3>2
    <2>6. factor = up => (b * factor + u * w) * up = (m + 1) * w * (u * up)
      <3>1. SUFFICES ASSUME factor = up PROVE (b * factor + u * w) * up = (m + 1) * w * (u * up)
        OBVIOUS
      <3>2. b * up = m * w * u
        BY <1>2, <2>3, <3>1
      <3>3. (b * up + u * w) * up = (m * w * u + u * w) * up
        BY <3>2
      <3>4. (m * w * u + u * w) * up = (m + 1) * w * (u * up)
        BY <2>2
      <3>5. QED
        BY <3>1, <3>3, <3>4
    <2>7. /\ B(m + 1) * (factor - up) = w * (P(m + 1) - U(m + 1))
          /\ factor = up => B(m + 1) * up = (m + 1) * w * U(m + 1)
      BY <2>1, <2>2, <2>3, <2>5, <2>6
    <2>8. QED
      BY <2>2, <2>7
  <1> HIDE DEF Good
  <1>3. n \in Good
    BY <1>1, <1>2, CountingUp
  <1>4. QED
    BY <1>3 DEF Good
------------------------------------------------------------------------------
(* The corpus of a retirement *)

\* The growth of a corpus in a year of retirement and of the expenses drawn
\* from it, over one denominator.
Growth(return, inflation) == (return.n + return.d) * inflation.d

Rise(return, inflation)   == (inflation.d + inflation.n) * return.d

\* Expenses growing at v are drawn from a corpus growing at z for n years: in
\* the end they are worth `drawn`; z and v are the two rates, times k.
Drawing(z, v, k, drawn, n, post, infl) ==
    /\ 100 * z = k * (100 + post) /\ 100 * v = k * (100 + infl)
    /\ drawn * (z - v) = z * (Power(z, n) - Power(v, n))
    /\ z = v => drawn * v = n * z * Power(v, n)

\* What is left is what the corpus grows to without what is drawn.
Linear(z, drawn, n, post, infl) ==
    \A corpus, expenses \in Int :
        LeftAfter(corpus, expenses, n, Fraction(post, 100), Fraction(infl, 100))
          = corpus * Power(z, n) - expenses * drawn

\* What is left is linear in the corpus and in the expenses: the corpus grows
\* on its own, and each year's expenses with it from the day they are drawn.
LEMMA LeftIsLinear ==
    ASSUME NEW post \in Int, NEW infl \in Int, post > -100, infl > -100, NEW n \in Nat
    PROVE  \E z, v, k \in Nat \ {0} : \E drawn \in Nat :
              /\ Drawing(z, v, k, drawn, n, post, infl)
              /\ Linear(z, drawn, n, post, infl)
  <1> DEFINE r == Fraction(post, 100)
             i == Fraction(infl, 100)
             z == Growth(r, i)
             v == Rise(r, i)
             f == [y \in 1..n |-> Power(v, y - 1) * z]
             drawn == BalanceAfter(0, z, f, n)
  <1>1. /\ r.d \in Nat \ {0} /\ i.d \in Nat \ {0} /\ r.n \in Int /\ i.n \in Int
        /\ r.n + r.d \in Nat \ {0} /\ i.n + i.d \in Nat \ {0} /\ i.d + i.n \in Nat \ {0}
        /\ 100 * (r.n + r.d) = r.d * (100 + post)
        /\ 100 * (i.n + i.d) = i.d * (100 + infl)
    BY RateType
  <1> HIDE DEF r, i
  <1>2. z \in Nat \ {0} /\ v \in Nat \ {0}
    BY <1>1, ProductPositive DEF Growth, Rise
  <1>3. /\ 100 * z = (r.d * i.d) * (100 + post)
        /\ 100 * v = (r.d * i.d) * (100 + infl)
    <2>1. PICK a \in Int, b \in Int, c \in Int, d \in Int :
             a = r.n + r.d /\ b = r.d /\ c = i.n + i.d /\ d = i.d
      BY <1>1
    <2>2. z = a * d /\ v = c * b
      BY <1>1, <2>1 DEF Growth, Rise
    <2>3. 100 * a = b * (100 + post) /\ 100 * c = d * (100 + infl)
      BY <1>1, <2>1
    <2>4. /\ 100 * (a * d) = (100 * a) * d /\ (b * (100 + post)) * d = (b * d) * (100 + post)
          /\ 100 * (c * b) = (100 * c) * b /\ (d * (100 + infl)) * b = (b * d) * (100 + infl)
      OBVIOUS
    <2>5. QED
      BY <2>1, <2>2, <2>3, <2>4
  <1>4. ASSUME NEW y \in 1..n
        PROVE  /\ f[y] \in Nat
               /\ Power(i.d + i.n, y - 1) * Power(r.d, y - 1) * z = f[y]
    <2>1. y - 1 \in Nat /\ i.d + i.n \in Int /\ r.d \in Int
      BY <1>1
    <2>2. Power(v, y - 1) = Power(i.d + i.n, y - 1) * Power(r.d, y - 1)
      BY <2>1, PowerTimes DEF Rise
    <2>3. PICK p \in Nat \ {0} : p = Power(v, y - 1)
      <3> HIDE DEF v
      <3>1. v \in Int /\ v > 0
        BY <1>2
      <3>2. Power(v, y - 1) \in Int /\ Power(v, y - 1) > 0
        BY <2>1, <3>1, PowerType
      <3>3. QED
        BY <3>2
    <2>4. p * z \in Nat
      BY <1>2, <2>3, ProductPositive
    <2>5. f[y] = p * z
      BY <2>3
    <2>6. QED
      BY <2>2, <2>3, <2>4, <2>5
  <1> HIDE DEF z, v
  <1>5. Geometric(f, v, z, n)
    BY DEF Geometric
  <1> HIDE DEF f
  <1>6. drawn \in Nat
    <2>1. n \in 0..n /\ z \in Nat /\ 0 \in Nat
      BY <1>2
    <2>2. QED
      BY <1>4, <2>1, BalanceNat
  <1>7. /\ drawn * (z - v) = z * (Power(z, n) - Power(v, n))
        /\ z = v => drawn * v = n * z * Power(v, n)
    <2>1. n \in 0..n /\ z \in Int /\ v \in Int
      BY <1>2
    <2>2. QED
      BY <1>5, <2>1, BalanceGeometric
  <1>8. ASSUME NEW corpus \in Int, NEW expenses \in Int
        PROVE  LeftAfter(corpus, expenses, n, r, i) = corpus * Power(z, n) - expenses * drawn
    <2> DEFINE g == [y \in 1..n |-> -expenses * (Grown(i, y - 1) * Ungrown(r, y - 1)
                                                * ((r.n + r.d) * i.d))]
    <2>1. LeftAfter(corpus, expenses, n, r, i) = BalanceAfter(corpus, z, g, n)
      BY DEF LeftAfter, z, Growth
    <2>2. ASSUME NEW y \in 1..n PROVE f[y] \in Int /\ g[y] = (-expenses) * f[y]
      <3>1. g[y] = -expenses * (Power(i.d + i.n, y - 1) * Power(r.d, y - 1) * z)
        BY DEF Grown, Ungrown, z, Growth
      <3>2. PICK x \in Int : x = f[y]
        BY <1>4
      <3>3. -expenses * x = (-expenses) * x
        OBVIOUS
      <3>4. QED
        BY <1>4, <3>1, <3>2, <3>3
    <2> HIDE DEF g
    <2>3. BalanceAfter(corpus, z, g, n) = corpus * Power(z, n) + (-expenses) * drawn
      <3>1. n \in 0..n /\ z \in Int /\ -expenses \in Int
        BY <1>2
      <3>2. \A m \in 0..n : BalanceAfter(corpus, z, g, m)
                               = corpus * Power(z, m) + (-expenses) * BalanceAfter(0, z, f, m)
        <4>1. Times(g, -expenses, f, n)
          BY <2>2 DEF Times
        <4>2. QED
          BY <3>1, <4>1, BalanceLinear
      <3>3. QED
        BY <3>1, <3>2
    <2>4. Power(z, n) \in Int
      BY <1>2, PowerType
    <2> HIDE DEF drawn
    <2>5. QED
      BY <1>6, <2>1, <2>3, <2>4
  <1> HIDE DEF drawn
  <1>9. PICK k \in Nat \ {0} : k = r.d * i.d
    BY <1>1, ProductPositive
  <1>10. Drawing(z, v, k, drawn, n, post, infl)
    BY <1>3, <1>7, <1>9 DEF Drawing
  <1>11. QED
    BY <1>2, <1>6, <1>8, <1>10 DEF Linear, r, i

\* A corpus c.n / c.d that grows to what the expenses are worth in the end.
Exact(annual, n, post, infl, z, drawn) ==
    LET c == CorpusForDrawdown(annual, n, post, infl)
    IN  /\ c.n \in Int /\ c.d \in Nat \ {0}
        /\ c.n * Power(z, n) = annual * (c.d * drawn)

\* The corpus of corpusForDrawdown, growing at z, is worth what n years of
\* drawings that grow at v are worth in the end: q is z / v in lowest terms.
LEMMA DrawdownIsExact ==
    ASSUME NEW annual \in Int, NEW n \in Nat,
           NEW post \in Int, NEW infl \in Int, post > -100, infl > -100,
           NEW z \in Nat \ {0}, NEW v \in Nat \ {0}, NEW k \in Nat \ {0}, NEW drawn \in Nat,
           Drawing(z, v, k, drawn, n, post, infl)
    PROVE  Exact(annual, n, post, infl, z, drawn)
  <1>0. /\ 100 * z = k * (100 + post) /\ 100 * v = k * (100 + infl)
        /\ drawn * (z - v) = z * (Power(z, n) - Power(v, n))
        /\ z = v => drawn * v = n * z * Power(v, n)
    BY DEF Drawing
  <1>1. PICK x \in Nat \ {0}, w \in Nat \ {0} : x = Power(z, n) /\ w = Power(v, n)
    BY PositivePower
  <1>2. CASE post = infl
    <2>1. z = v
      BY <1>0, <1>2
    <2>2. drawn = n * x
      <3>1. z * drawn = z * (n * x)
        <4>1. x = w /\ drawn * v = n * z * w
          BY <1>0, <1>1, <2>1
        <4>2. z * drawn = drawn * v /\ n * z * w = z * (n * w)
          BY <2>1
        <4>3. QED
          BY <4>1, <4>2
      <3>2. n * x \in Int
        OBVIOUS
      <3>3. QED
        BY <3>1, <3>2, Cancel
    <2>3. CorpusForDrawdown(annual, n, post, infl) = [n |-> annual * n, d |-> 1]
      BY <1>2 DEF CorpusForDrawdown
    <2>4. (annual * n) * x = annual * (1 * (n * x))
      OBVIOUS
    <2>5. QED
      BY <1>1, <2>2, <2>3, <2>4 DEF Exact
  <1>3. CASE post # infl
    <2> DEFINE q == Fraction(100 + post, 100 + infl)
    <2>1. PICK a \in Int, d \in Nat \ {0} :
             a = q.n /\ d = q.d /\ (100 + infl) * a = d * (100 + post)
      <3>1. 100 + post \in Int /\ 100 + infl \in Nat \ {0}
        OBVIOUS
      <3>2. q.d \in 1..(100 + infl) /\ q.n \in Int /\ (100 + infl) * q.n = q.d * (100 + post)
        BY <3>1, FractionType
      <3> HIDE DEF q
      <3>3. q.d \in Nat \ {0}
        BY <3>1, <3>2
      <3>4. QED
        BY <3>2, <3>3
    <2> HIDE DEF q
    <2>2. a > 0
      <3>1. d * (100 + post) > 0
        <4>1. 100 + post \in Nat \ {0}
          OBVIOUS
        <4>2. QED
          BY <4>1, ProductPositive
      <3>2. a <= 0 => (100 + infl) * a <= 0
        <4>1. 100 + infl \in Nat /\ 0 \in Int /\ (100 + infl) * 0 = 0
          OBVIOUS
        <4>2. QED
          BY <4>1, Product
      <3>3. QED
        BY <2>1, <3>1, <3>2
    <2>3. a * v = d * z
      <3>1. PICK i \in Int, o \in Int :
               i = 100 + infl /\ o = 100 + post /\ i * a = d * o /\ 100 * z = k * o /\ 100 * v = k * i
        BY <1>0, <2>1
      <3>2. 100 * (a * v) = a * (100 * v) /\ a * (k * i) = k * (i * a)
        OBVIOUS
      <3>3. 100 * (d * z) = d * (100 * z) /\ d * (k * o) = k * (d * o)
        OBVIOUS
      <3>4. 100 * (a * v) = k * (i * a) /\ 100 * (d * z) = k * (d * o)
        BY <3>1, <3>2, <3>3
      <3>5. 100 * (a * v) = 100 * (d * z)
        BY <3>1, <3>4
      <3>6. a * v \in Int /\ d * z \in Int
        OBVIOUS
      <3>7. QED
        BY <3>5, <3>6
    <2>4. PICK p \in Nat \ {0}, e \in Nat \ {0} : p = Power(a, n) /\ e = Power(d, n)
      <3>1. d \in Int /\ d > 0
        OBVIOUS
      <3>2. /\ Power(a, n) \in Int /\ Power(a, n) > 0
            /\ Power(d, n) \in Int /\ Power(d, n) > 0
        BY <2>2, <3>1, PowerType
      <3>3. QED
        BY <3>2
    <2>5. p * w = e * x
      <3>1. a \in Int /\ v \in Int /\ d \in Int /\ z \in Int
        OBVIOUS
      <3>2. Power(a * v, n) = Power(a, n) * Power(v, n)
        BY <3>1, PowerTimes
      <3>3. Power(d * z, n) = Power(d, n) * Power(z, n)
        BY <3>1, PowerTimes
      <3>4. QED
        BY <1>1, <2>3, <2>4, <3>2, <3>3
    <2>6. (p * drawn) * (a - d) = (a * x) * (p - e)
      <3>1. drawn * (z - v) = z * (x - w)
        BY <1>0, <1>1
      <3>2. z * ((p * drawn) * (a - d)) = (p * drawn) * (a * z - d * z)
        OBVIOUS
      <3>3. (p * drawn) * (a * z - a * v) = (p * a) * (drawn * (z - v))
        OBVIOUS
      <3>4. (p * a) * (z * (x - w)) = (a * z) * (p * x - p * w)
        OBVIOUS
      <3>5. (a * z) * (p * x - e * x) = z * ((a * x) * (p - e))
        OBVIOUS
      <3>6. z * ((p * drawn) * (a - d)) = z * ((a * x) * (p - e))
        BY <2>3, <2>5, <3>1, <3>2, <3>3, <3>4, <3>5
      <3>7. (p * drawn) * (a - d) \in Int /\ (a * x) * (p - e) \in Int
        OBVIOUS
      <3>8. QED
        BY <3>6, <3>7, Cancel
    <2>7. (p * drawn) * Magnitude(a - d) = (a * x) * Magnitude(p - e)
      <3>1. p * drawn \in Nat /\ a * x \in Nat \ {0} /\ a - d \in Int /\ p - e \in Int
        <4>1. a \in Nat \ {0}
          BY <2>2
        <4>2. \A s, t \in Nat : s * t \in Nat
          OBVIOUS
        <4>3. QED
          BY <4>1, <4>2, ProductPositive
      <3>2. QED
        BY <2>6, <3>1, EqualSizes
    <2>8. a # d
      <3>1. a = d => (100 + infl) * a = (100 + post) * a
        BY <2>1
      <3>2. a * (100 + infl) = (100 + infl) * a /\ a * (100 + post) = (100 + post) * a
        OBVIOUS
      <3>3. a = d => 100 + infl = 100 + post
        <4>1. a \in Nat \ {0} /\ 100 + infl \in Int /\ 100 + post \in Int
          BY <2>2
        <4>2. QED
          BY <3>1, <3>2, <4>1, Cancel
      <3>4. QED
        BY <1>3, <3>3
    <2>9. PICK m \in Nat \ {0}, g \in Nat : m = Magnitude(a - d) /\ g = Magnitude(p - e)
      <3>1. a - d \in Int /\ a - d # 0 /\ p - e \in Int
        BY <2>8
      <3>2. Magnitude(a - d) \in Nat \ {0} /\ Magnitude(p - e) \in Nat
        BY <3>1 DEF Magnitude
      <3>3. QED
        BY <3>2
    <2>10. CorpusForDrawdown(annual, n, post, infl)
             = [n |-> annual * g * a, d |-> p * m]
      BY <1>3, <2>1, <2>4, <2>9 DEF CorpusForDrawdown, q
    <2>11. (annual * g * a) * x = annual * ((p * m) * drawn)
      <3>1. (annual * g * a) * x = annual * ((a * x) * g)
        OBVIOUS
      <3>2. annual * ((p * m) * drawn) = annual * ((p * drawn) * m)
        OBVIOUS
      <3>3. QED
        BY <2>7, <2>9, <3>1, <3>2
    <2>12. annual * g * a \in Int /\ p * m \in Nat \ {0}
      BY ProductPositive
    <2>13. QED
      BY <1>1, <2>10, <2>11, <2>12 DEF Exact
  <1>4. QED
    BY <1>2, <1>3

\* Rounding the corpus and the expenses by half a unit each leaves in the end
\* not more than half of what a unit of each would have grown to.
LEMMA RoundedTwice ==
    ASSUME NEW annual \in Int, NEW f \in Nat \ {0}, NEW c \in Int, NEW d \in Nat \ {0},
           NEW x \in Nat \ {0}, NEW drawn \in Nat, c * x = annual * (d * drawn)
    PROVE  LET left == Round(c, d * f) * x - Round(annual, f) * drawn
           IN  2 * Magnitude(left) <= x + drawn
  <1>1. PICK g \in Nat \ {0} : g = d * f
    BY ProductPositive
  <1>2. PICK r \in Int, e \in Int :
           /\ r = Round(c, g) /\ -g <= g * (2 * r) - 2 * c /\ g * (2 * r) - 2 * c <= g
           /\ e = Round(annual, f) /\ -f <= f * (2 * e) - 2 * annual
           /\ f * (2 * e) - 2 * annual <= f
    BY RoundingError
  <1>3. PICK s \in Int, t \in Int : s = g * (2 * r) - 2 * c /\ t = f * (2 * e) - 2 * annual
    <2>1. g * (2 * r) \in Int /\ f * (2 * e) \in Int
      OBVIOUS
    <2>2. g * (2 * r) - 2 * c \in Int /\ f * (2 * e) - 2 * annual \in Int
      BY <2>1
    <2>3. QED
      BY <2>2
  <1>4. PICK m \in Nat : m = drawn * d
    <2>1. \A a, b \in Nat : a * b \in Nat
      OBVIOUS
    <2>2. QED
      BY <2>1
  <1> DEFINE left == r * x - e * drawn
  <1>5. g * (2 * left) = x * s - m * t
    <2>1. g * (2 * (r * x - e * drawn)) = x * (g * (2 * r)) - (drawn * d) * (f * (2 * e))
      <3>1. g * (2 * (r * x - e * drawn)) = x * (g * (2 * r)) - (g * drawn) * (2 * e)
        OBVIOUS
      <3>2. ((d * f) * drawn) * (2 * e) = (drawn * d) * (f * (2 * e))
        OBVIOUS
      <3>3. QED
        BY <1>1, <3>1, <3>2
    <2>2. g * (2 * r) = s + 2 * c /\ f * (2 * e) = t + 2 * annual
      <3>1. g * (2 * r) \in Int /\ f * (2 * e) \in Int
        OBVIOUS
      <3>2. QED
        BY <1>3, <3>1
    <2>3. x * (s + 2 * c) = x * s + 2 * (c * x)
      OBVIOUS
    <2>4. m * (t + 2 * annual) = m * t + 2 * (annual * m)
      OBVIOUS
    <2>5. annual * m = c * x
      <3>1. d * drawn = m
        BY <1>4
      <3>2. QED
        BY <3>1
    <2>6. x * s \in Int /\ m * t \in Int /\ c * x \in Int
      OBVIOUS
    <2>7. g * (2 * left) = x * (s + 2 * c) - m * (t + 2 * annual)
      BY <1>4, <2>1, <2>2
    <2>8. QED
      BY <2>3, <2>4, <2>5, <2>6, <2>7
  <1>6. /\ x * s \in Int /\ x * g \in Nat /\ -(x * g) <= x * s /\ x * s <= x * g
        /\ m * t \in Int /\ m * f \in Nat /\ -(m * f) <= m * t /\ m * t <= m * f
    BY <1>2, <1>3, ScaledBounds
  <1>7. x * g + m * f = g * (x + drawn)
    BY <1>1, <1>4
  <1>8. left \in Int /\ g * (-2 * left) = -(g * (2 * left)) /\ g * (2 * left) \in Int
    OBVIOUS
  <1>9. PICK l \in Int : l = left
    BY <1>8
  <1> HIDE DEF left
  <1>10. g * (2 * l) <= g * (x + drawn) /\ g * (-2 * l) <= g * (x + drawn)
    BY <1>5, <1>6, <1>7, <1>8, <1>9
  <1>11. 2 * l <= x + drawn /\ -2 * l <= x + drawn
    BY <1>10, DivideWeak
  <1>12. 2 * Magnitude(l) <= x + drawn
    BY <1>11 DEF Magnitude
  <1>13. QED
    BY <1>1, <1>2, <1>9, <1>12 DEF left

\* The corpus of any expenses lasts for as long as it was asked for.
Lasts(expenses, years, n, post, infl) ==
    LET r     == Fraction(post, 100)
        i     == Fraction(infl, 100)
        grown == expenses * Grown(i, years)
        f     == Ungrown(i, years)
        c     == CorpusForDrawdown(grown, n, post, infl)
    IN  2 * Magnitude(LeftAfter(Round(c.n, c.d * f), Round(grown, f), n, r, i))
          <= LeftAfter(1, -1, n, r, i)

\* It does, at any rates above -100%.
LEMMA CorpusOf ==
    ASSUME NEW expenses \in Int, NEW years \in Nat, NEW n \in Nat,
           NEW post \in Int, NEW infl \in Int, post > -100, infl > -100
    PROVE  Lasts(expenses, years, n, post, infl)
  <1> DEFINE r     == Fraction(post, 100)
             i     == Fraction(infl, 100)
             grown == expenses * Grown(i, years)
             f     == Ungrown(i, years)
             c     == CorpusForDrawdown(grown, n, post, infl)
  <1>1. i.d \in Nat \ {0} /\ i.d + i.n \in Nat \ {0}
    BY RateType
  <1>2. PICK z \in Nat \ {0}, v \in Nat \ {0}, k \in Nat \ {0}, drawn \in Nat :
           Drawing(z, v, k, drawn, n, post, infl) /\ Linear(z, drawn, n, post, infl)
    BY LeftIsLinear
  <1> HIDE DEF i
  <1>3. grown \in Int /\ f \in Nat \ {0}
    <2>1. i.d + i.n \in Int /\ i.d \in Int /\ i.d > 0
      BY <1>1
    <2>2. Power(i.d + i.n, years) \in Int /\ Power(i.d, years) \in Int /\ Power(i.d, years) > 0
      BY <2>1, PowerType
    <2>3. QED
      BY <2>2 DEF Grown, Ungrown
  <1> HIDE DEF r, grown, f
  <1>4. c.n \in Int /\ c.d \in Nat \ {0} /\ c.n * Power(z, n) = grown * (c.d * drawn)
    <2>1. grown \in Int /\ Drawing(z, v, k, drawn, n, post, infl)
      BY <1>2, <1>3
    <2>2. Exact(grown, n, post, infl, z, drawn)
      BY <2>1, DrawdownIsExact
    <2>3. QED
      BY <2>2 DEF Exact
  <1> HIDE DEF c
  <1>5. PICK x \in Nat \ {0} : x = Power(z, n)
    BY PositivePower
  <1> DEFINE left == Round(c.n, c.d * f) * x - Round(grown, f) * drawn
  <1>6. 2 * Magnitude(left) <= x + drawn
    BY <1>3, <1>4, <1>5, RoundedTwice
  <1>7. Round(c.n, c.d * f) \in Int /\ Round(grown, f) \in Int
    <2>1. c.d * f \in Nat \ {0}
      BY <1>3, <1>4, ProductPositive
    <2>2. QED
      BY <1>3, <1>4, <2>1, RoundIsNear
  <1>8. /\ LeftAfter(Round(c.n, c.d * f), Round(grown, f), n, r, i) = left
        /\ LeftAfter(1, -1, n, r, i) = x + drawn
    <2>1. 1 * x - (-1) * drawn = x + drawn
      OBVIOUS
    <2>2. 1 \in Int /\ -1 \in Int
      OBVIOUS
    <2>3. QED
      BY <1>2, <1>5, <1>7, <2>1, <2>2 DEF Linear, r, i
  <1> HIDE DEF left
  <1>9. QED
    BY <1>6, <1>8 DEF Lasts, c, grown, f, r, i

\* CorpusLasts: for all ages, expenses and rates above -100%, on the page and in
\* a call (corpusForDrawdown, computeRetirement).
THEOREM CorporaLast == ToolsSpec => []CorpusLasts
  <1>1. ToolInv => CorpusLasts
    <2> SUFFICES ASSUME ToolInv, tool = "retirement", shown # None PROVE CorpusLasts
      BY DEF CorpusLasts
    <2> DEFINE p == submitted
               years == Larger(0, p.retirementAge - p.age)
    <2>1. shown = ComputeRetirement(p) /\ RetirementInput(p)
      BY DEF ToolInv, Answer, Asked
    <2>2. /\ p.yearsInRetirement \in Nat /\ years \in Nat /\ p.expenses \in Int
          /\ p.postReturn \in Int /\ p.inflation \in Int
          /\ p.postReturn > -100 /\ p.inflation > -100
      BY <2>1 DEF RetirementInput, Larger
    <2> HIDE DEF years
    <2>3. Lasts(p.expenses, years, p.yearsInRetirement, p.postReturn, p.inflation)
      BY <2>2, CorpusOf
    <2>4. QED
      BY <2>1, <2>3 DEF CorpusLasts, Lasts, ComputeRetirement, RetirementResult,
                        FutureValue, FromMinor, years
  <1>2. QED
    BY <1>1, ToolInvariance, PTL
------------------------------------------------------------------------------
(* The instalments of a plan *)

\* The amounts of the periods after the first m.
Shifted(g, f, m, n) == \A i \in 1..n : g[i] = f[m + i]

\* Periods after a number of others are periods of their own, that start with
\* the balance they find.
LEMMA BalanceSplit ==
    ASSUME NEW start, NEW factor, NEW f, NEW g, NEW m \in Nat, NEW n \in Nat,
           Shifted(g, f, m, n)
    PROVE  BalanceAfter(start, factor, f, m + n)
             = BalanceAfter(BalanceAfter(start, factor, f, m), factor, g, n)
  <1> DEFINE B(k) == BalanceAfter(start, factor, f, m + k)
             C(k) == BalanceAfter(BalanceAfter(start, factor, f, m), factor, g, k)
             Good == {k \in 0..n : B(k) = C(k)}
  <1>1. 0 \in Good
    <2>1. C(0) = BalanceAfter(start, factor, f, m)
      BY BalanceNext
    <2>2. m + 0 = m
      OBVIOUS
    <2>3. QED
      BY <2>1, <2>2
  <1>2. ASSUME NEW k \in 0..(n - 1), k \in Good PROVE k + 1 \in Good
    <2>1. m + k \in Nat /\ (m + k) + 1 = m + (k + 1) /\ k + 1 \in 1..n /\ k + 1 \in 0..n
      OBVIOUS
    <2>2. B(k + 1) = B(k) * factor + f[m + (k + 1)]
      BY <2>1, BalanceNext
    <2>3. C(k + 1) = C(k) * factor + g[k + 1]
      BY BalanceNext
    <2> HIDE DEF B, C
    <2>4. g[k + 1] = f[m + (k + 1)]
      BY <2>1 DEF Shifted
    <2>5. QED
      BY <1>2, <2>1, <2>2, <2>3, <2>4
  <1> HIDE DEF Good
  <1>3. n \in Good
    BY <1>1, <1>2, CountingUp
  <1>4. QED
    BY <1>3 DEF Good

\* Something added in the last period is there in the end.
LEMMA BalancePositive ==
    ASSUME NEW start \in Nat, NEW factor \in Nat, NEW n \in Nat \ {0}, NEW f,
           \A m \in 1..n : f[m] \in Nat \ {0}
    PROVE  BalanceAfter(start, factor, f, n) \in Nat \ {0}
  <1>1. n - 1 \in Nat /\ (n - 1) + 1 = n /\ n - 1 \in 0..n /\ n \in 1..n
    OBVIOUS
  <1>2. BalanceAfter(start, factor, f, n)
          = BalanceAfter(start, factor, f, n - 1) * factor + f[n]
    BY <1>1, BalanceNext
  <1>3. BalanceAfter(start, factor, f, n - 1) \in Nat
    <2>1. \A m \in 1..n : f[m] \in Nat
      OBVIOUS
    <2>2. QED
      BY <1>1, <2>1, BalanceNat
  <1>4. PICK b \in Nat, last \in Nat \ {0} :
           b = BalanceAfter(start, factor, f, n - 1) /\ last = f[n]
    BY <1>1, <1>3
  <1>5. b * factor \in Nat
    <2>1. \A a, c \in Nat : a * c \in Nat
      OBVIOUS
    <2>2. QED
      BY <2>1
  <1>6. QED
    BY <1>2, <1>4, <1>5
------------------------------------------------------------------------------
\* A net return is a gain in every month.
LEMMA MonthlyType ==
    ASSUME NEW net \in Nat
    PROVE  LET f == MonthlyRate(net)
           IN  /\ f.d \in Nat \ {0} /\ f.n \in Nat /\ f.d + f.n \in Nat \ {0}
               /\ f.n = 0 => f.d = 1
  <1>1. PICK n \in Nat, d \in Nat \ {0} : n = Fraction(net, 1000).n /\ d = Fraction(net, 1000).d
    <2>1. 1000 \in Nat \ {0}
      OBVIOUS
    <2>2. Fraction(net, 1000).d \in Nat \ {0} /\ Fraction(net, 1000).n \in Nat
      BY <2>1, GainType
    <2>3. QED
      BY <2>2
  <1>2. d * 1200 \in Nat \ {0}
    OBVIOUS
  <1>3. MonthlyRate(net) = Fraction(n, d * 1200)
    BY <1>1 DEF MonthlyRate, NetRate
  <1>4. QED
    BY <1>2, <1>3, GainType

\* The annuity of the closed form is what saving 1 a month comes to.
LEMMA AnnuityIs ==
    ASSUME NEW net \in Nat, NEW m \in Nat, NEW f,
           Geometric(f, MonthlyRate(net).d, MonthlyRate(net).d, m)
    PROVE  BalanceAfter(0, MonthlyRate(net).d + MonthlyRate(net).n, f, m)
             = Annuity(MonthlyRate(net), m)
  <1> DEFINE rate == MonthlyRate(net)
  <1>1. PICK d \in Nat \ {0}, n \in Nat : d = rate.d /\ n = rate.n /\ (n = 0 => d = 1)
    <2>1. rate.d \in Nat \ {0} /\ rate.n \in Nat /\ (rate.n = 0 => rate.d = 1)
      BY MonthlyType
    <2> HIDE DEF rate
    <2>2. QED
      BY <2>1
  <1> HIDE DEF rate
  <1>2. Geometric(f, d, d, m) /\ d + n \in Int /\ d \in Int
    BY <1>1 DEF rate
  <1> DEFINE b == BalanceAfter(0, d + n, f, m)
  <1>3. b \in Int
    <2>1. \A i \in 1..m : f[i] \in Int
      <3>1. ASSUME NEW i \in 1..m PROVE Power(d, i - 1) \in Int
        <4>1. i - 1 \in Nat /\ d \in Int
          OBVIOUS
        <4>2. QED
          BY <4>1, PowerType
      <3>2. QED
        BY <1>2, <3>1 DEF Geometric
    <2>2. m \in 0..m /\ 0 \in Int
      OBVIOUS
    <2>3. QED
      BY <1>2, <2>1, <2>2, BalanceType
  <1>4. /\ b * ((d + n) - d) = d * (Power(d + n, m) - Power(d, m))
        /\ d + n = d => b * d = m * d * Power(d, m)
    BY <1>2, BalanceGeometric
  <1> HIDE DEF b
  <1>5. PICK g \in Int, p \in Int : g = Power(d + n, m) /\ p = Power(d, m)
    BY <1>2, PowerType
  <1>6. CASE n = 0
    <2>1. d = 1 /\ p = 1
      BY <1>1, <1>5, <1>6, PowerOfOne
    <2>2. b * 1 = m * 1 * 1
      BY <1>4, <1>5, <1>6, <2>1
    <2>3. b = m
      BY <1>3, <2>2
    <2>4. Annuity(rate, m) = m
      BY <1>1, <1>6 DEF Annuity
    <2>5. QED
      BY <1>1, <2>3, <2>4 DEF b, rate
  <1>7. CASE n # 0
    <2>1. n * b = (g - p) * d
      <3>1. b * n = d * (g - p)
        <4>1. (d + n) - d = n
          OBVIOUS
        <4>2. QED
          BY <1>4, <1>5, <4>1
      <3>2. b * n = n * b /\ d * (g - p) = (g - p) * d
        BY <1>3
      <3>3. QED
        BY <3>1, <3>2
    <2>2. (n * b) \div n = b
      BY <1>3, <1>7, Multiple
    <2>3. Annuity(rate, m) = ((g - p) * d) \div n
      BY <1>1, <1>5, <1>7 DEF Annuity, Grown, Ungrown
    <2>4. QED
      BY <1>1, <2>1, <2>2, <2>3 DEF b, rate
  <1>8. QED
    BY <1>6, <1>7
------------------------------------------------------------------------------
\* An amount that closes a gap, rounded, misses it by what half a unit of each
\* instalment is worth: S is what instalments of 1 are worth in the end, and
\* num / den the exact amount.
LEMMA RoundedInstalment ==
    ASSUME NEW S \in Nat, NEW X \in Int, NEW unit \in Nat \ {0},
           NEW num \in Int, NEW den \in Nat \ {0},
           num * S = den * (unit * Larger(0, X)), X <= 0 => num = 0
    PROVE  LET unmet == unit * X - Round(num, den) * S
           IN  /\ 2 * unmet <= S
               /\ Round(num, den) > 0 => -2 * unmet <= S
  <1>1. CASE X <= 0
    <2>1. Round(num, den) = 0
      <3>1. Round(den * 0, den) = 0
        BY RoundWhole
      <3>2. den * 0 = 0
        OBVIOUS
      <3>3. QED
        BY <1>1, <3>1, <3>2
    <2>2. unit * X <= 0
      <3>1. unit * X <= unit * 0 /\ unit * 0 = 0
        BY <1>1, Product
      <3>2. QED
        BY <3>1
    <2>3. 0 * S = 0 /\ unit * X \in Int
      OBVIOUS
    <2>4. QED
      BY <2>1, <2>2, <2>3
  <1>2. CASE X > 0
    <2>1. PICK r \in Int : /\ r = Round(num, den)
                           /\ -den <= den * (2 * r) - 2 * num /\ den * (2 * r) - 2 * num <= den
      BY RoundingError
    <2>2. PICK t \in Int : t = den * (2 * r) - 2 * num
      <3>1. den * (2 * r) \in Int
        OBVIOUS
      <3>2. den * (2 * r) - 2 * num \in Int
        BY <3>1
      <3>3. QED
        BY <3>2
    <2> DEFINE unmet == unit * X - r * S
    <2>3. den * (2 * unmet) = -(S * t)
      <3>1. den * (2 * (unit * X - r * S)) = 2 * (den * (unit * X)) - S * (den * (2 * r))
        OBVIOUS
      <3>2. den * (unit * X) = num * S
        BY <1>2 DEF Larger
      <3>3. den * (2 * r) = t + 2 * num
        <4>1. den * (2 * r) \in Int
          OBVIOUS
        <4>2. QED
          BY <2>2, <4>1
      <3>4. 2 * (num * S) - S * (t + 2 * num) = -(S * t)
        OBVIOUS
      <3>5. QED
        BY <3>1, <3>2, <3>3, <3>4
    <2>4. S * t \in Int /\ -(S * den) <= S * t /\ S * t <= S * den
      BY <2>1, <2>2, ScaledBounds
    <2>5. /\ unmet \in Int /\ den * (-2 * unmet) = -(den * (2 * unmet))
          /\ S * den = den * S /\ den * (2 * unmet) \in Int
      OBVIOUS
    <2>6. PICK u \in Int : u = unmet
      BY <2>5
    <2> HIDE DEF unmet
    <2>7. den * (2 * u) <= den * S /\ den * (-2 * u) <= den * S
      BY <2>3, <2>4, <2>5, <2>6
    <2>8. 2 * u <= S /\ -2 * u <= S
      BY <2>7, DivideWeak
    <2>9. QED
      BY <2>1, <2>6, <2>8 DEF unmet
  <1>3. QED
    BY <1>1, <1>2
------------------------------------------------------------------------------
\* The instalments of whole years: the y-th year is worth as much as the sum of
\* steppedFirstYearSip says, from its twelve months on to the end.
YearsWorth(rise, rate, years, k) ==
    Grown(rise, k) * Ungrown(rise, years - 1 - k) * Annuity(rate, 12)
      * Ungrown(rate, 12 * k) * Grown(rate, 12 * (years - 1 - k))

\* What instalments of 1, stepped up, are saved as in each month.
SteppedUp(f, rise, rate, last, months) ==
    \A m \in 1..months : f[m] = Risen(rise, last, m) * Ungrown(rate, m)

\* An instalment that rises is positive.
LEMMA RisenType ==
    ASSUME NEW step \in Nat, NEW last \in Nat, NEW m \in Nat \ {0}, (m - 1) \div 12 <= last
    PROVE  Risen(Fraction(step, 100), last, m) \in Nat \ {0}
  <1> DEFINE rise == Fraction(step, 100)
             k == (m - 1) \div 12
  <1>1. rise.d \in Nat \ {0} /\ rise.d + rise.n \in Nat \ {0}
    <2>1. 100 \in Nat \ {0}
      OBVIOUS
    <2>2. QED
      BY <2>1, GainType
  <1>2. k \in Nat /\ last - k \in Nat
    <2>1. m - 1 \in Nat /\ \A a \in Nat : a \div 12 \in Nat
      OBVIOUS
    <2>2. k \in Nat
      BY <2>1
    <2>3. QED
      BY <2>2
  <1> HIDE DEF rise, k
  <1>3. Power(rise.d + rise.n, k) \in Nat \ {0} /\ Power(rise.d, last - k) \in Nat \ {0}
    BY <1>1, <1>2, PositivePower
  <1>4. QED
    BY <1>3, ProductPositive DEF Risen, Grown, Ungrown, rise, k

\* So is what each of them comes to.
LEMMA SteppedUpType ==
    ASSUME NEW net \in Nat, NEW step \in Nat, NEW last \in Nat, NEW months \in Nat,
           months <= 12 * (last + 1), NEW f,
           SteppedUp(f, Fraction(step, 100), MonthlyRate(net), last, months)
    PROVE  \A m \in 1..months : f[m] \in Nat \ {0}
  <1> SUFFICES ASSUME NEW m \in 1..months PROVE f[m] \in Nat \ {0}
    OBVIOUS
  <1>1. m \in Nat \ {0} /\ m \in Nat /\ (m - 1) \div 12 <= last
    OBVIOUS
  <1>2. f[m] = Risen(Fraction(step, 100), last, m) * Ungrown(MonthlyRate(net), m)
    BY DEF SteppedUp
  <1>3. Risen(Fraction(step, 100), last, m) \in Nat \ {0}
    BY <1>1, RisenType
  <1>4. Ungrown(MonthlyRate(net), m) \in Nat \ {0}
    <2>1. MonthlyRate(net).d \in Nat \ {0}
      BY MonthlyType
    <2>2. QED
      BY <1>1, <2>1, PositivePower DEF Ungrown
  <1>5. QED
    BY <1>2, <1>3, <1>4, ProductPositive

\* The same over whole years.
LEMMA InstalmentsPositive ==
    ASSUME NEW net \in Nat, NEW step \in Nat, NEW years \in Nat \ {0}, NEW f,
           SteppedUp(f, Fraction(step, 100), MonthlyRate(net), years - 1, 12 * years)
    PROVE  \A m \in 1..(12 * years) : f[m] \in Nat \ {0}
  <1>1. years - 1 \in Nat /\ 12 * years \in Nat /\ 12 * years <= 12 * ((years - 1) + 1)
    OBVIOUS
  <1>2. QED
    BY <1>1, SteppedUpType

\* A year of twelve instalments.
LEMMA OneYear ==
    ASSUME NEW net \in Nat, NEW step \in Nat, NEW years \in Nat \ {0}, NEW y \in 0..(years - 1),
           NEW f, SteppedUp(f, Fraction(step, 100), MonthlyRate(net), years - 1, 12 * years)
    PROVE  LET rate == MonthlyRate(net)
               rise == Fraction(step, 100)
               B(m) == BalanceAfter(0, rate.d + rate.n, f, m)
           IN  B(12 * (y + 1)) = B(12 * y) * Power(rate.d + rate.n, 12)
                   + Grown(rise, y) * Ungrown(rise, years - 1 - y)
                       * Ungrown(rate, 12 * y) * Annuity(rate, 12)
  <1> DEFINE rate == MonthlyRate(net)
             rise == Fraction(step, 100)
             G == rate.d + rate.n
             B(m) == BalanceAfter(0, G, f, m)
             k == Grown(rise, y) * Ungrown(rise, years - 1 - y) * Ungrown(rate, 12 * y)
             g == [i \in 1..12 |-> f[12 * y + i]]
             h == [i \in 1..12 |-> Power(rate.d, i)]
  <1>1. /\ rate.d \in Nat \ {0} /\ G \in Nat \ {0}
        /\ rise.d \in Nat \ {0} /\ rise.d + rise.n \in Nat \ {0}
    <2>1. 100 \in Nat \ {0}
      OBVIOUS
    <2>2. QED
      BY <2>1, GainType, MonthlyType
  <1>2. 12 * y \in Nat /\ 12 * y + 12 = 12 * (y + 1) /\ y \in Nat /\ years - 1 - y \in Nat
    OBVIOUS
  <1> HIDE DEF G, rate, rise
  <1>3. k \in Int
    <2>1. /\ rise.d + rise.n \in Int /\ rise.d \in Int /\ rate.d \in Int
      BY <1>1
    <2>2. PICK a \in Int, b \in Int, c \in Int :
             a = Grown(rise, y) /\ b = Ungrown(rise, years - 1 - y) /\ c = Ungrown(rate, 12 * y)
      BY <1>2, <2>1, PowerType DEF Grown, Ungrown
    <2>3. QED
      BY <2>2
  <1>4. ASSUME NEW i \in 1..12 PROVE h[i] \in Int /\ g[i] = k * h[i]
    <2>1. 12 * y + i \in 1..(12 * years) /\ i \in Nat
      OBVIOUS
    <2>2. (12 * y + i - 1) \div 12 = y
      OBVIOUS
    <2>3. g[i] = Grown(rise, y) * Ungrown(rise, years - 1 - y) * Ungrown(rate, 12 * y + i)
      BY <2>1, <2>2 DEF SteppedUp, Risen, rise, rate
    <2>4. Power(rate.d, 12 * y + i) = Power(rate.d, 12 * y) * Power(rate.d, i)
      <3>1. rate.d \in Int
        BY <1>1
      <3>2. QED
        BY <1>2, <2>1, <3>1, PowerAdd
    <2>5. PICK a \in Int, b \in Int, c \in Int, e \in Int :
             /\ a = Grown(rise, y) /\ b = Ungrown(rise, years - 1 - y)
             /\ c = Power(rate.d, 12 * y) /\ e = Power(rate.d, i)
      <3>1. rise.d + rise.n \in Int /\ rise.d \in Int /\ rate.d \in Int
        BY <1>1
      <3>2. QED
        BY <1>2, <2>1, <3>1, PowerType DEF Grown, Ungrown
    <2>6. a * b * (c * e) = (a * b * c) * e
      OBVIOUS
    <2>7. QED
      BY <2>3, <2>4, <2>5, <2>6 DEF Ungrown
  <1>5. B(12 * y + 12) = BalanceAfter(B(12 * y), G, g, 12)
    <2>1. \A i \in 1..12 : g[i] = f[12 * y + i]
      OBVIOUS
    <2> HIDE DEF g
    <2>2. ASSUME NEW m \in Nat, m = 12 * y PROVE B(m + 12) = BalanceAfter(B(m), G, g, 12)
      <3>1. 12 \in Nat /\ 0 \in Nat
        OBVIOUS
      <3>2. Shifted(g, f, m, 12)
        BY <2>1, <2>2 DEF Shifted
      <3>3. QED
        BY <3>1, <3>2, BalanceSplit
    <2> HIDE DEF B
    <2>3. QED
      BY <1>2, <2>2
  <1>6. B(12 * y) \in Int
    <2>1. \A i \in 1..(12 * y) : f[i] \in Int
      <3>1. \A i \in 1..(12 * years) : f[i] \in Nat \ {0}
        BY InstalmentsPositive
      <3>2. QED
        BY <3>1
    <2>2. 12 * y \in 0..(12 * y) /\ 0 \in Int
      OBVIOUS
    <2>3. G \in Int
      BY <1>1
    <2>4. QED
      BY <1>2, <2>1, <2>2, <2>3, BalanceType
  <1>7. BalanceAfter(B(12 * y), G, g, 12)
          = B(12 * y) * Power(G, 12) + k * BalanceAfter(0, G, h, 12)
    <2>1. Times(g, k, h, 12)
      BY <1>4 DEF Times
    <2> HIDE DEF g, h, k
    <2>2. PICK b \in Int : b = B(12 * y)
      BY <1>6
    <2> HIDE DEF B
    <2>3. 12 \in 0..12 /\ 12 \in Nat /\ G \in Int
      BY <1>1
    <2>4. \A m \in 0..12 : BalanceAfter(b, G, g, m)
                             = b * Power(G, m) + k * BalanceAfter(0, G, h, m)
      BY <1>3, <2>1, <2>3, BalanceLinear
    <2>5. QED
      BY <2>2, <2>3, <2>4
  <1>8. BalanceAfter(0, G, h, 12) = Annuity(rate, 12)
    <2>1. Geometric(h, rate.d, rate.d, 12)
      <3>1. ASSUME NEW i \in 1..12 PROVE h[i] = Power(rate.d, i - 1) * rate.d
        <4>1. i - 1 \in Nat /\ (i - 1) + 1 = i
          OBVIOUS
        <4>2. rate.d \in Int
          BY <1>1
        <4>3. Power(rate.d, (i - 1) + 1) = Power(rate.d, i - 1) * rate.d
          BY <4>1, <4>2, PowerNext
        <4>4. QED
          BY <4>1, <4>3
      <3> HIDE DEF h
      <3>2. QED
        BY <3>1 DEF Geometric
    <2> HIDE DEF h
    <2>2. 12 \in Nat
      OBVIOUS
    <2>3. QED
      BY <2>1, <2>2, AnnuityIs DEF rate, G
  <1> HIDE DEF k, g, h
  <1>9. B(12 * (y + 1)) = B(12 * y) * Power(G, 12) + k * Annuity(rate, 12)
    BY <1>2, <1>5, <1>7, <1>8
  <1>10. QED
    BY <1>9 DEF k, G, rate, rise

\* The closed form of steppedFirstYearSip is what the instalments come to.
LEMMA YearsAddUp ==
    ASSUME NEW net \in Nat, NEW step \in Nat, NEW years \in Nat \ {0},
           NEW f, SteppedUp(f, Fraction(step, 100), MonthlyRate(net), years - 1, 12 * years),
           NEW t, \A k \in 0..(years - 1) :
                     t[k] = YearsWorth(Fraction(step, 100), MonthlyRate(net), years, k)
    PROVE  SumOver(t, 0..(years - 1))
             = BalanceAfter(0, MonthlyRate(net).d + MonthlyRate(net).n, f, 12 * years)
  <1> DEFINE rate == MonthlyRate(net)
             rise == Fraction(step, 100)
             G == rate.d + rate.n
             B(y) == BalanceAfter(0, G, f, 12 * y)
             P(y) == Power(G, 12 * (years - y))
             Good == {y \in 0..years : B(y) * P(y) = SumOver(t, 0..(y - 1))}
  <1>1. /\ rate.d \in Nat \ {0} /\ rate.n \in Nat /\ G \in Nat \ {0}
        /\ rise.d \in Nat \ {0} /\ rise.d + rise.n \in Nat \ {0}
    <2>1. 100 \in Nat \ {0}
      OBVIOUS
    <2>2. QED
      BY <2>1, GainType, MonthlyType
  <1> HIDE DEF rate, rise
  <1>2. Annuity(rate, 12) \in Int
    <2>1. 12 \in Nat /\ rate.d \in Int /\ rate.d + rate.n \in Int /\ rate.n \in Nat
      BY <1>1
    <2>2. PICK a \in Int, b \in Int, d \in Int, n \in Nat :
             /\ a = Power(rate.d + rate.n, 12) /\ b = Power(rate.d, 12)
             /\ d = rate.d /\ n = rate.n
      BY <2>1, PowerType
    <2>3. n # 0 => ((a - b) * d) \div n \in Int
      <3>1. (a - b) * d \in Int
        OBVIOUS
      <3>2. QED
        BY <3>1, Quotient
    <2>4. QED
      BY <2>2, <2>3 DEF Annuity, Grown, Ungrown
  <1>3. ASSUME NEW y \in 0..(years - 1)
        PROVE  /\ B(y) \in Int /\ P(y + 1) \in Int
               /\ B(y + 1) = B(y) * Power(G, 12)
                     + Grown(rise, y) * Ungrown(rise, years - 1 - y)
                         * Ungrown(rate, 12 * y) * Annuity(rate, 12)
               /\ P(y) = P(y + 1) * Power(G, 12)
               /\ t[y] = Grown(rise, y) * Ungrown(rise, years - 1 - y) * Annuity(rate, 12)
                            * Ungrown(rate, 12 * y) * P(y + 1)
               /\ t[y] \in Int
    <2>1. /\ y \in Nat /\ years - 1 - y \in Nat /\ 12 * y \in Nat
          /\ 12 * (years - (y + 1)) \in Nat /\ 12 \in Nat
          /\ 12 * (years - y) = 12 * (years - (y + 1)) + 12
          /\ 12 * (years - 1 - y) = 12 * (years - (y + 1))
      OBVIOUS
    <2>2. G \in Int /\ rate.d \in Int /\ rise.d \in Int /\ rise.d + rise.n \in Int
      BY <1>1
    <2>3. B(y) \in Int
      <3>1. \A i \in 1..(12 * years) : f[i] \in Int
        <4>1. \A i \in 1..(12 * years) : f[i] \in Nat \ {0}
          BY InstalmentsPositive
        <4>2. QED
          BY <4>1
      <3>2. 12 * y \in 0..(12 * years) /\ 12 * years \in Nat /\ 0 \in Int
        OBVIOUS
      <3> HIDE DEF G
      <3>3. \A m \in 0..(12 * years) : BalanceAfter(0, G, f, m) \in Int
        BY <2>2, <3>1, <3>2, BalanceType
      <3>4. QED
        BY <3>2, <3>3
    <2>4. P(y) = P(y + 1) * Power(G, 12)
      <3> HIDE DEF G
      <3>1. Power(G, 12 * (years - (y + 1)) + 12) = Power(G, 12 * (years - (y + 1))) * Power(G, 12)
        BY <2>1, <2>2, PowerAdd
      <3>2. QED
        BY <2>1, <3>1
    <2>5. PICK p \in Int, a \in Int, b \in Int, c \in Int :
             /\ p = P(y + 1) /\ a = Grown(rise, y) /\ b = Ungrown(rise, years - 1 - y)
             /\ c = Ungrown(rate, 12 * y)
      <3> HIDE DEF G
      <3>1. P(y + 1) \in Int
        BY <2>1, <2>2, PowerType
      <3> HIDE DEF P
      <3>2. QED
        BY <2>1, <2>2, <3>1, PowerType DEF Grown, Ungrown
    <2>6. t[y] = a * b * Annuity(rate, 12) * c * p
      <3>1. t[y] = a * b * Annuity(rate, 12) * c * Grown(rate, 12 * (years - 1 - y))
        BY <2>5 DEF YearsWorth, rate, rise
      <3>2. Grown(rate, 12 * (years - 1 - y)) = p
        BY <2>1, <2>5 DEF Grown
      <3>3. QED
        BY <3>1, <3>2
    <2>7. B(y + 1) = B(y) * Power(G, 12)
                       + Grown(rise, y) * Ungrown(rise, years - 1 - y)
                           * Ungrown(rate, 12 * y) * Annuity(rate, 12)
      BY OneYear DEF rate, rise
    <2> HIDE DEF B, P, G
    <2>8. QED
      BY <1>2, <2>3, <2>4, <2>5, <2>6, <2>7
  <1>4. Power(G, 12) \in Int
    <2>1. G \in Int /\ 12 \in Nat
      BY <1>1
    <2> HIDE DEF G
    <2>2. QED
      BY <2>1, PowerType
  <1>5. 0 \in Good
    <2>1. B(0) = 0
      <3>1. 12 * 0 = 0 /\ 0 \in Nat
        OBVIOUS
      <3>2. BalanceAfter(0, G, f, 0) = 0
        BY <3>1, BalanceNext
      <3>3. QED
        BY <3>1, <3>2
    <2>2. P(0) \in Int
      <3>1. G \in Int /\ 12 * (years - 0) \in Nat
        BY <1>1
      <3> HIDE DEF G
      <3>2. QED
        BY <3>1, PowerType
    <2>3. 0..(0 - 1) = {} /\ 0 \in 0..years
      OBVIOUS
    <2>4. SumOver(t, 0..(0 - 1)) = 0
      BY <2>3, SumEmpty
    <2> HIDE DEF B, P
    <2>5. QED
      BY <2>1, <2>2, <2>3, <2>4
  <1>6. ASSUME NEW y \in 0..(years - 1), y \in Good PROVE y + 1 \in Good
    <2>1. /\ 0..((y + 1) - 1) = 0..(y - 1) \cup {y} /\ y \notin 0..(y - 1)
          /\ y + 1 \in 0..years
      OBVIOUS
    <2>2. IsFiniteSet(0..(y - 1))
      BY FS_Interval
    <2>3. \A k \in 0..(y - 1) \cup {y} : t[k] \in Int
      BY <1>3
    <2>4. SumOver(t, 0..((y + 1) - 1)) = t[y] + SumOver(t, 0..(y - 1))
      BY <2>1, <2>2, <2>3, SumAdd
    <2>5. PICK b \in Int, p \in Int, q \in Int, k \in Int, u \in Int, v \in Int, w \in Int :
             /\ b = B(y) /\ p = P(y + 1) /\ q = Power(G, 12) /\ k = Annuity(rate, 12)
             /\ u = Grown(rise, y) /\ v = Ungrown(rise, years - 1 - y)
             /\ w = Ungrown(rate, 12 * y)
      <3>1. /\ y \in Nat /\ years - 1 - y \in Nat /\ 12 * y \in Nat
            /\ rate.d \in Int /\ rise.d \in Int /\ rise.d + rise.n \in Int
        BY <1>1
      <3>2. /\ Grown(rise, y) \in Int /\ Ungrown(rise, years - 1 - y) \in Int
            /\ Ungrown(rate, 12 * y) \in Int
        BY <3>1, PowerType DEF Grown, Ungrown
      <3>3. B(y) \in Int /\ P(y + 1) \in Int
        BY <1>3
      <3> HIDE DEF B, P, G
      <3>4. QED
        BY <1>2, <1>4, <3>2, <3>3
    <2>6. /\ B(y + 1) = b * q + u * v * w * k /\ P(y) = p * q
          /\ t[y] = u * v * k * w * p
      <3> HIDE DEF B, P, G
      <3>1. QED
        BY <1>3, <2>5
    <2>7. B(y) * P(y) = SumOver(t, 0..(y - 1))
      BY <1>6
    <2> HIDE DEF B, P, G
    <2>8. (b * q + u * v * w * k) * p = u * v * k * w * p + b * (p * q)
      OBVIOUS
    <2>9. B(y + 1) * P(y + 1) = SumOver(t, 0..((y + 1) - 1))
      BY <2>4, <2>5, <2>6, <2>7, <2>8
    <2>10. QED
      BY <2>1, <2>9
  <1>7. years \in Good
    <2> HIDE DEF Good
    <2>1. years \in Nat
      OBVIOUS
    <2>2. QED
      BY <1>5, <1>6, <2>1, CountingUp
  <1>8. B(years) * P(years) = SumOver(t, 0..(years - 1))
    BY <1>7
  <1>9. P(years) = 1 /\ B(years) \in Int
    <2>1. 12 * (years - years) = 0
      OBVIOUS
    <2>2. P(years) = 1
      BY <2>1, PowerUnfold
    <2>3. B(years) \in Int
      <3>1. \A i \in 1..(12 * years) : f[i] \in Int
        <4>1. \A i \in 1..(12 * years) : f[i] \in Nat \ {0}
          BY InstalmentsPositive
        <4>2. QED
          BY <4>1
      <3>2. 12 * years \in 0..(12 * years) /\ 12 * years \in Nat /\ 0 \in Int /\ G \in Int
        BY <1>1
      <3> HIDE DEF G
      <3>3. QED
        BY <3>1, <3>2, BalanceType
    <2>4. QED
      BY <2>2, <2>3
  <1> HIDE DEF B, P
  <1>10. B(years) = SumOver(t, 0..(years - 1))
    BY <1>8, <1>9
  <1>11. QED
    BY <1>10 DEF B, G, rate
------------------------------------------------------------------------------
\* The saving of PlanReachesTarget, for any plan and first instalment.
Reaches(g, sip) ==
    LET rate   == MonthlyRate(AfterTax(g.return, g.tax))
        months == Larger(1, g.months)
        rise   == Fraction(Larger(0, g.stepUp), 100)
        last   == (months - 1) \div 12
        unit   == Ungrown(rise, last)
        sips   == [m \in 1..months |-> sip * Risen(rise, last, m)]
        amassed  == SavedAfter(g.current * unit, rate, months, sips)
        slack  == SavedAfter(0, rate, months, [m \in 1..months |-> Risen(rise, last, m)])
        unmet  == g.target * unit * Ungrown(rate, months) - amassed
    IN  /\ 2 * unmet <= slack
        /\ sip > 0 => -2 * unmet <= slack

\* Powers of a rate one after the other make the annuity, which is positive.
LEMMA AnnuityPositive ==
    ASSUME NEW net \in Nat, NEW m \in Nat \ {0}
    PROVE  Annuity(MonthlyRate(net), m) \in Nat \ {0}
  <1> DEFINE rate == MonthlyRate(net)
             h == [i \in 1..m |-> Power(rate.d, i)]
  <1>1. rate.d \in Nat \ {0} /\ rate.d + rate.n \in Nat /\ rate.d \in Int
    <2>1. rate.d \in Nat \ {0} /\ rate.d + rate.n \in Nat \ {0}
      BY MonthlyType
    <2> HIDE DEF rate
    <2>2. QED
      BY <2>1
  <1> HIDE DEF rate
  <1>2. ASSUME NEW i \in 1..m
        PROVE  h[i] = Power(rate.d, i - 1) * rate.d /\ h[i] \in Nat \ {0}
    <2>1. i - 1 \in Nat /\ (i - 1) + 1 = i /\ i \in Nat
      OBVIOUS
    <2>2. Power(rate.d, (i - 1) + 1) = Power(rate.d, i - 1) * rate.d
      BY <1>1, <2>1, PowerNext
    <2>3. Power(rate.d, i) \in Nat \ {0}
      BY <1>1, <2>1, PositivePower
    <2>4. QED
      BY <2>1, <2>2, <2>3
  <1> HIDE DEF h
  <1>3. Geometric(h, rate.d, rate.d, m)
    BY <1>2 DEF Geometric
  <1>4. BalanceAfter(0, rate.d + rate.n, h, m) = Annuity(rate, m)
    BY <1>3, AnnuityIs DEF rate
  <1>5. BalanceAfter(0, rate.d + rate.n, h, m) \in Nat \ {0}
    <2>1. 0 \in Nat
      OBVIOUS
    <2>2. QED
      BY <1>1, <1>2, <2>1, BalancePositive
  <1>6. QED
    BY <1>4, <1>5 DEF rate

\* Instalments that do not rise.
LEMMA LevelInstalments ==
    ASSUME NEW net \in Nat, NEW months \in Nat \ {0}, NEW last \in Nat,
           months <= 12 * (last + 1), NEW f,
           SteppedUp(f, Fraction(0, 100), MonthlyRate(net), last, months)
    PROVE  /\ Ungrown(Fraction(0, 100), last) = 1
           /\ BalanceAfter(0, MonthlyRate(net).d + MonthlyRate(net).n, f, months)
                = Annuity(MonthlyRate(net), months)
  <1>1. Fraction(0, 100).d = 1 /\ Fraction(0, 100).n = 0
    <2>1. 100 \in Nat \ {0}
      OBVIOUS
    <2>2. QED
      BY <2>1, FractionZero
  <1> DEFINE d == MonthlyRate(net).d
  <1>2. d \in Int
    BY MonthlyType
  <1> HIDE DEF d
  <1>3. ASSUME NEW m \in 1..months PROVE f[m] = Power(d, m - 1) * d
    <2>1. m - 1 \in Nat /\ (m - 1) + 1 = m /\ m \in Nat
      OBVIOUS
    <2>2. (m - 1) \div 12 \in Nat /\ last - ((m - 1) \div 12) \in Nat
      <3>1. (m - 1) \div 12 \in Nat /\ (m - 1) \div 12 <= last
        OBVIOUS
      <3>2. PICK k \in Nat : k = (m - 1) \div 12
        BY <3>1
      <3>3. last - k \in Nat
        BY <3>1, <3>2
      <3>4. QED
        BY <3>2, <3>3
    <2>3. Risen(Fraction(0, 100), last, m) = 1
      <3>1. 1 + 0 = 1
        OBVIOUS
      <3>2. /\ Power(1, (m - 1) \div 12) = 1
            /\ Power(1, last - ((m - 1) \div 12)) = 1
        BY <2>2, PowerOfOne
      <3>3. QED
        BY <1>1, <3>1, <3>2 DEF Risen, Grown, Ungrown
    <2>4. f[m] = 1 * Power(d, m)
      BY <2>3 DEF SteppedUp, Ungrown, d
    <2>5. Power(d, (m - 1) + 1) = Power(d, m - 1) * d
      BY <1>2, <2>1, PowerNext
    <2>6. Power(d, m) \in Int
      BY <1>2, <2>1, PowerType
    <2>7. QED
      BY <2>1, <2>4, <2>5, <2>6
  <1>4. Geometric(f, d, d, months)
    BY <1>3 DEF Geometric
  <1>5. months \in Nat
    OBVIOUS
  <1>6. QED
    BY <1>1, <1>4, <1>5, AnnuityIs, PowerOfOne DEF Ungrown, d

\* The denominators of a growth are positive.
LEMMA UngrownPositive ==
    ASSUME NEW net \in Nat, NEW n \in Nat
    PROVE  /\ Ungrown(MonthlyRate(net), n) \in Nat \ {0}
           /\ Ungrown(Fraction(net, 100), n) \in Nat \ {0}
  <1>1. 100 \in Nat \ {0}
    OBVIOUS
  <1>2. MonthlyRate(net).d \in Nat \ {0} /\ Fraction(net, 100).d \in Nat \ {0}
    BY <1>1, GainType, MonthlyType
  <1>3. QED
    BY <1>2, PositivePower DEF Ungrown

\* The exact first instalment, num / den, of instalments that are worth S in
\* the end when the first is 1, for a gap that is X of so many units.
Closes(num, den, S, unit, X) ==
    /\ num \in Int /\ den \in Nat \ {0}
    /\ num * S = den * (unit * Larger(0, X)) /\ (X <= 0 => num = 0)

\* With instalments that rise, over whole years.
LEMMA SteppedCloses ==
    ASSUME NEW net \in Nat, NEW step \in Nat, NEW months \in Nat \ {0}, months % 12 = 0,
           NEW f, SteppedUp(f, Fraction(step, 100), MonthlyRate(net), (months - 1) \div 12, months),
           NEW S \in Nat \ {0}, NEW X \in Int,
           S = BalanceAfter(0, MonthlyRate(net).d + MonthlyRate(net).n, f, months)
    PROVE  LET rate == MonthlyRate(net)
               unit == Ungrown(Fraction(step, 100), (months - 1) \div 12)
               sip  == SteppedFirstYearSip(Larger(0, X), Ungrown(rate, months), rate, months, step)
           IN  Closes(sip.n, sip.d, S, unit, X)
  <1>1. PICK years \in Nat \ {0} :
           /\ months = 12 * years /\ (months - 1) \div 12 = years - 1
           /\ Larger(1, (months + 11) \div 12) = years
    <2>1. PICK y \in Int : y = months \div 12 /\ months = 12 * y
      OBVIOUS
    <2>2. y >= 1
      BY <2>1
    <2>3. (12 * y - 1) \div 12 = y - 1 /\ (12 * y + 11) \div 12 = y
      BY <2>2
    <2>4. y \in Nat \ {0} /\ Larger(1, y) = y
      BY <2>2 DEF Larger
    <2>5. QED
      BY <2>1, <2>3, <2>4
  <1> DEFINE rate == MonthlyRate(net)
             rise == Fraction(step, 100)
             t == [k \in 0..(years - 1) |-> YearsWorth(rise, rate, years, k)]
             gap == Larger(0, X)
  <1>2. SumOver(t, 0..(years - 1)) = S
    <2>1. \A k \in 0..(years - 1) :
             t[k] = YearsWorth(Fraction(step, 100), MonthlyRate(net), years, k)
      OBVIOUS
    <2> HIDE DEF t
    <2>2. SteppedUp(f, Fraction(step, 100), MonthlyRate(net), years - 1, 12 * years)
      BY <1>1
    <2>3. QED
      BY <1>1, <2>1, <2>2, YearsAddUp
  <1>3. /\ Ungrown(rate, months) \in Nat \ {0}
        /\ Ungrown(rise, years - 1) \in Nat \ {0}
    <2>1. months \in Nat /\ years - 1 \in Nat
      OBVIOUS
    <2> HIDE DEF t, gap
    <2>2. QED
      BY <2>1, UngrownPositive
  <1>4. SteppedFirstYearSip(gap, Ungrown(rate, months), rate, months, step)
          = [n |-> gap * Ungrown(rise, years - 1) * Ungrown(rate, months),
             d |-> Ungrown(rate, months) * SumOver(t, 0..(years - 1))]
    BY <1>1 DEF SteppedFirstYearSip, YearsWorth
  <1> HIDE DEF t, rate, rise
  <1>5. gap \in Nat /\ (X <= 0 => gap = 0)
    BY DEF Larger
  <1> HIDE DEF gap
  <1>6. PICK w \in Nat \ {0}, u \in Nat \ {0} : w = Ungrown(rate, months) /\ u = Ungrown(rise, years - 1)
    BY <1>3
  <1>7. (gap * u * w) * S = (w * S) * (u * gap)
    BY <1>5
  <1>8. w * S \in Nat \ {0} /\ gap * u * w \in Int /\ 0 * u * w = 0
    BY <1>5, ProductPositive
  <1>9. Closes(gap * u * w, w * S, S, u, X)
    BY <1>5, <1>7, <1>8 DEF Closes, gap
  <1>10. QED
    BY <1>1, <1>2, <1>4, <1>6, <1>9 DEF rate, rise, gap

\* Tax leaves no loss of a return that is none.
LEMMA NetIsNoLoss ==
    ASSUME NEW g, PlanInput(g)
    PROVE  AfterTax(g.return, g.tax) \in Nat
  <1>1. PICK gross \in Nat, tax \in 0..1000 \cup {NoTax} : gross = g.return /\ tax = g.tax
    BY DEF PlanInput
  <1>2. CASE tax = NoTax
    <2>1. gross * 1000 \in Nat
      OBVIOUS
    <2>2. QED
      BY <1>1, <1>2, <2>1 DEF AfterTax
  <1>3. CASE tax # NoTax
    <2>1. 1000 - tax \in Nat
      BY <1>3
    <2>2. gross * (1000 - tax) \in Nat
      BY <2>1, ProductNat
    <2>3. QED
      BY <1>1, <1>3, <2>2 DEF AfterTax, NetOfTaxReturnPct
  <1>4. QED
    BY <1>2, <1>3

\* Any plan a program asks for saves enough, and not more.
LEMMA PlansReach ==
    ASSUME NEW g, PlanInput(g), g.stepUp > 0 => g.months > 0 /\ g.months % 12 = 0
    PROVE  Reaches(g, PlanGoal(g).monthlySip)
  <1> DEFINE net     == AfterTax(g.return, g.tax)
             step    == Larger(0, g.stepUp)
             months  == Larger(1, g.months)
             rate    == MonthlyRate(net)
             rise    == Fraction(step, 100)
             last    == (months - 1) \div 12
             unit    == Ungrown(rise, last)
             G       == rate.d + rate.n
             f       == [m \in 1..months |-> Risen(rise, last, m) * Ungrown(rate, m)]
             S       == BalanceAfter(0, G, f, months)
             X       == g.target * Ungrown(rate, months) - g.current * Grown(rate, months)
             num     == IF X > 0 /\ g.stepUp > 0
                        THEN SteppedFirstYearSip(Larger(0, X), Ungrown(rate, months),
                                                 rate, months, g.stepUp).n
                        ELSE Larger(0, X)
             den     == IF X > 0 /\ g.stepUp > 0
                        THEN SteppedFirstYearSip(Larger(0, X), Ungrown(rate, months),
                                                 rate, months, g.stepUp).d
                        ELSE Annuity(rate, months)
  <1>1. PlanGoal(g).monthlySip = Round(num, den)
    <2> HIDE DEF rate, months
    <2>1. Larger(0, X) > 0 <=> X > 0
      BY DEF Larger
    <2>2. QED
      BY <2>1 DEF PlanGoal, FromMinor, rate, months
  <1>2. /\ net \in Nat /\ step \in Nat /\ months \in Nat \ {0}
        /\ g.target \in Int /\ g.current \in Int /\ g.stepUp \in Int /\ g.months \in Int
    <2>1. g.target \in Int /\ g.current \in Int /\ g.stepUp \in Int /\ g.months \in Int
      BY DEF PlanInput
    <2>2. net \in Nat
      BY NetIsNoLoss
    <2>3. QED
      BY <2>1, <2>2 DEF Larger
  <1> HIDE DEF net
  <1>3. last \in Nat /\ months <= 12 * (last + 1) /\ months \in Nat
    <2>1. \A m \in Nat \ {0} : (m - 1) \div 12 \in Nat /\ m <= 12 * ((m - 1) \div 12 + 1)
      OBVIOUS
    <2>2. QED
      BY <1>2, <2>1
  <1>4. SteppedUp(f, rise, rate, last, months)
    BY DEF SteppedUp
  <1>5. \A m \in 1..months : f[m] \in Nat \ {0}
    <2> HIDE DEF f, last, months, step
    <2>1. QED
      BY <1>2, <1>3, <1>4, SteppedUpType
  <1>6. /\ G \in Nat \ {0} /\ rate.d \in Nat \ {0} /\ rise.d \in Nat \ {0}
        /\ G \in Int /\ G \in Nat /\ rate.d \in Int
    <2>1. 100 \in Nat \ {0}
      OBVIOUS
    <2>2. G \in Nat \ {0} /\ rate.d \in Nat \ {0} /\ rise.d \in Nat \ {0}
      <3> HIDE DEF step
      <3>1. QED
        BY <1>2, <2>1, GainType, MonthlyType
    <2> HIDE DEF G, rate, rise
    <2>3. QED
      BY <2>2
  <1>7. S \in Nat \ {0}
    <2> HIDE DEF f, months, G
    <2>1. 0 \in Nat
      OBVIOUS
    <2>2. QED
      BY <1>2, <1>5, <1>6, <2>1, BalancePositive
  <1>8. unit \in Nat \ {0}
    <2> HIDE DEF rise, last
    <2>1. QED
      BY <1>3, <1>6, PositivePower DEF Ungrown
  <1>9. PICK w \in Int, grown \in Int : w = Ungrown(rate, months) /\ grown = Grown(rate, months)
    <2>1. Power(rate.d, months) \in Int /\ Power(G, months) \in Int
      <3> HIDE DEF G, rate, months
      <3>1. QED
        BY <1>3, <1>6, PowerType
    <2>2. QED
      BY <2>1 DEF Ungrown, Grown
  <1> HIDE DEF rate, rise, months, step, unit, last
  <1>10. X \in Int
    BY <1>2, <1>9
  <1>11. Closes(num, den, S, unit, X)
    <2>1. CASE X > 0 /\ g.stepUp > 0
      <3>1. step = g.stepUp /\ months = g.months /\ months % 12 = 0
        BY <1>2, <2>1 DEF step, months, Larger
      <3> HIDE DEF f, S, X, G
      <3>2. S = BalanceAfter(0, MonthlyRate(net).d + MonthlyRate(net).n, f, months)
        BY DEF S, G, rate
      <3>3. SteppedUp(f, Fraction(step, 100), MonthlyRate(net), (months - 1) \div 12, months)
        BY <1>4 DEF rate, rise, last
      <3> DEFINE sip == SteppedFirstYearSip(Larger(0, X), Ungrown(rate, months), rate, months, step)
      <3>4. Closes(sip.n, sip.d, S, unit, X)
        BY <1>2, <1>7, <1>10, <3>1, <3>2, <3>3, SteppedCloses DEF rate, rise, unit, last
      <3>5. num = sip.n /\ den = sip.d
        BY <2>1, <3>1
      <3> HIDE DEF sip, num, den
      <3>6. QED
        BY <3>4, <3>5
    <2>2. CASE ~(X > 0 /\ g.stepUp > 0)
      <3>1. num = Larger(0, X) /\ den = Annuity(rate, months)
        BY <2>2
      <3>2. den \in Nat \ {0}
        <4>1. Annuity(rate, months) \in Nat \ {0}
          BY <1>2, AnnuityPositive DEF rate
        <4> HIDE DEF num, den
        <4>2. QED
          BY <3>1, <4>1
      <3> HIDE DEF num, den, f, G
      <3>3. CASE X <= 0
        <4>1. Larger(0, X) = 0
          BY <1>10, <3>3 DEF Larger
        <4>2. 0 * S = den * (unit * 0)
          BY <1>7, <1>8, <3>2
        <4> HIDE DEF S, X
        <4>3. QED
          BY <3>1, <3>2, <4>1, <4>2 DEF Closes
      <3>4. CASE X > 0
        <4>1. step = 0
          BY <1>2, <2>2, <3>4 DEF step, Larger
        <4>2. unit = 1 /\ S = Annuity(rate, months)
          <5>1. SteppedUp(f, Fraction(0, 100), MonthlyRate(net), last, months)
            BY <1>4, <4>1 DEF rate, rise
          <5>2. QED
            BY <1>2, <1>3, <4>1, <5>1, LevelInstalments DEF unit, rise, rate, G
        <4>3. PICK x \in Nat : x = Larger(0, X)
          BY <1>10 DEF Larger
        <4> HIDE DEF X, S
        <4>4. x * den = den * (1 * x)
          BY <3>2
        <4>5. QED
          BY <1>10, <3>1, <3>2, <3>4, <4>2, <4>3, <4>4 DEF Closes
      <3>5. QED
        BY <1>10, <3>3, <3>4
    <2>3. QED
      BY <2>1, <2>2
  <1> HIDE DEF num, den
  <1>12. PICK sip \in Int : /\ sip = Round(num, den)
                            /\ 2 * (unit * X - sip * S) <= S
                            /\ sip > 0 => -2 * (unit * X - sip * S) <= S
    <2> HIDE DEF S, X
    <2>1. /\ num \in Int /\ den \in Nat \ {0}
          /\ num * S = den * (unit * Larger(0, X)) /\ (X <= 0 => num = 0)
      BY <1>11 DEF Closes
    <2>2. Round(num, den) \in Int
      BY <2>1, RoundIsNear
    <2>3. S \in Nat
      BY <1>7
    <2>4. /\ 2 * (unit * X - Round(num, den) * S) <= S
          /\ Round(num, den) > 0 => -2 * (unit * X - Round(num, den) * S) <= S
      BY <1>8, <1>10, <2>1, <2>3, RoundedInstalment
    <2>5. QED
      BY <2>2, <2>4
  <1> DEFINE sips  == [m \in 1..months |-> sip * Risen(rise, last, m)]
             amassed == SavedAfter(g.current * unit, rate, months, sips)
             slack == SavedAfter(0, rate, months, [m \in 1..months |-> Risen(rise, last, m)])
             unmet == g.target * unit * Ungrown(rate, months) - amassed
  <1>13. slack = S
    <2>1. [m \in 1..months |-> [k \in 1..months |-> Risen(rise, last, k)][m] * Ungrown(rate, m)] = f
      OBVIOUS
    <2> HIDE DEF f
    <2>2. QED
      BY <2>1 DEF SavedAfter
  <1>14. amassed = g.current * unit * grown + sip * S
    <2> DEFINE h == [m \in 1..months |-> sips[m] * Ungrown(rate, m)]
    <2>1. ASSUME NEW m \in 1..months PROVE f[m] \in Int /\ h[m] = sip * f[m]
      <3>1. m \in Nat \ {0} /\ m \in Nat /\ (m - 1) \div 12 <= last
        BY <1>2 DEF last
      <3>2. PICK a \in Int : a = Risen(rise, last, m)
        <4>1. Risen(rise, last, m) \in Nat \ {0}
          BY <1>2, <1>3, <3>1, RisenType DEF rise
        <4>2. QED
          BY <4>1
      <3>3. PICK b \in Int : b = Ungrown(rate, m)
        BY <1>6, <3>1, PowerType DEF Ungrown
      <3>4. (sip * a) * b = sip * (a * b) /\ a * b \in Int
        OBVIOUS
      <3>5. QED
        BY <3>2, <3>3, <3>4
    <2>2. amassed = BalanceAfter(g.current * unit, G, h, months)
      BY DEF SavedAfter
    <2> HIDE DEF h, f, amassed
    <2>3. Times(h, sip, f, months)
      BY <2>1 DEF Times
    <2>4. months \in 0..months /\ g.current * unit \in Int
      BY <1>2, <1>3, <1>8
    <2> HIDE DEF G
    <2>5. PICK c \in Int : c = g.current * unit
      BY <2>4
    <2>6. \A m \in 0..months : BalanceAfter(c, G, h, m)
                                 = c * Power(G, m) + sip * BalanceAfter(0, G, f, m)
      BY <1>3, <1>6, <2>3, BalanceLinear
    <2>7. QED
      BY <1>9, <2>2, <2>4, <2>5, <2>6 DEF Grown, G
  <1> HIDE DEF amassed, slack, S
  <1>15. unmet = unit * X - sip * S
    <2>1. PICK t \in Int, c \in Int, u \in Int, s \in Int :
             t = g.target /\ c = g.current /\ u = unit /\ s = S
      BY <1>2, <1>7, <1>8
    <2>2. t * u * w - (c * u * grown + sip * s) = u * (t * w - c * grown) - sip * s
      OBVIOUS
    <2>3. QED
      BY <1>9, <1>14, <2>1, <2>2
  <1> HIDE DEF unmet, X
  <1>16. 2 * unmet <= slack /\ (sip > 0 => -2 * unmet <= slack)
    BY <1>12, <1>13, <1>15
  <1>17. QED
    BY <1>1, <1>12, <1>16
       DEF Reaches, unmet, slack, amassed, sips, rate, rise, months, step, last, unit, net

\* PlanReachesTarget: for all targets, savings, months, returns and taxes, and
\* for every yearly rise in whole years (planGoal, steppedFirstYearSip).
THEOREM PlansSaveEnough == ToolsSpec => []PlanReachesTarget
  <1>1. ToolInv => PlanReachesTarget
    <2> SUFFICES ASSUME ToolInv, tool = "plan", shown # None,
                        submitted.stepUp > 0 => submitted.months > 0 /\ submitted.months % 12 = 0
                 PROVE  PlanReachesTarget
      BY DEF PlanReachesTarget
    <2>1. shown = PlanGoal(submitted) /\ PlanInput(submitted)
      BY DEF ToolInv, Answer, Asked
    <2>2. Reaches(submitted, shown.monthlySip)
      BY <2>1, PlansReach
    <2>3. QED
      BY <2>2 DEF PlanReachesTarget, Reaches
  <1>2. QED
    BY <1>1, ToolInvariance, PTL
==============================================================================
