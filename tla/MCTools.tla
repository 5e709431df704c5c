------------------------------- MODULE MCTools -------------------------------
(***************************************************************************)
(* Small instance of Tools: three questions, a few fields per form that    *)
(* can be retyped, and the inputs of a program at the boundaries of each   *)
(* formula.  Returns of 600, 1200 and 2400% a year make monthly growth an  *)
(* exact small fraction; 300% taxed at 12.5% is no whole percentage, and a *)
(* fixed deposit is no instrument of section 80C.                          *)
(***************************************************************************)
EXTENDS Tools

MCFields == [health |-> {"monthlyExpenses", "totalAssets", "hasHealthInsurance"},
             retirement |-> {"expenses", "corpus"},
             insurance |-> {"existingCover", "dependents"}]

MCTyped == {Blank, -3, 0, 40}

MCDefaults ==
    [health |-> [monthlyExpenses |-> 5, emergencyFund |-> 15, annualIncome |-> 20,
                 existingLifeCover |-> 50, hasHealthInsurance |-> 1,
                 investmentAssets |-> 10, totalAssets |-> 100, totalLiabilities |-> 30],
     retirement |-> [age |-> 32, retirementAge |-> 34, yearsInRetirement |-> 3,
                     expenses |-> 12, corpus |-> 20, inflation |-> 0,
                     preReturn |-> 0, postReturn |-> 100],
     insurance |-> [annualIncome |-> 2, outstandingLiabilities |-> 5,
                    existingCover |-> 5, dependents |-> 2]]

HealthCalls ==
    [monthlyExpenses : {0, 5}, emergencyFund : {0, 21, 30}, annualIncome : {0, 3},
     existingLifeCover : {0, 30}, hasHealthInsurance : BOOLEAN, investmentAssets : {4},
     totalAssets : {0, 10}, totalLiabilities : {0, 3, 12}]

RetirementCalls ==
    [age : {30}, retirementAge : {29, 30, 32}, yearsInRetirement : {1, 2, 3},
     expenses : {7, 12}, corpus : {0, 50}, inflation : {0, 100}, preReturn : {0},
     postReturn : {0, 100, 300}, tax : {NoTax, 500}]
    \cup [age : {30}, retirementAge : {31}, yearsInRetirement : {2}, expenses : {7},
          corpus : {0, 5}, inflation : {0, 100}, preReturn : {1200}, postReturn : {0, 100},
          tax : {NoTax}]
    \cup [age : {30}, retirementAge : {31}, yearsInRetirement : {2}, expenses : {7},
          corpus : {0, 5}, inflation : {0}, preReturn : {2400}, postReturn : {100},
          tax : {500}]

PlanCalls ==
    [target : {100, 1000}, current : {0, 90}, months : {0, 1, 2, 5}, return : {0, 600, 1200},
     tax : {NoTax}, stepUp : {0}]
    \cup [target : {5000}, current : {0, 7}, months : {3}, return : {1200, 2400},
          tax : {500}, stepUp : {0}]
    \cup [target : {100}, current : {0, 9}, months : {1, 2, 3}, return : {300}, tax : {125},
          stepUp : {0}]
    \cup [target : {700}, current : {0, 10}, months : {12, 24, 36}, return : {0},
          tax : {NoTax}, stepUp : {0, 100}]
    \cup [target : {900}, current : {4}, months : {12, 24}, return : {0}, tax : {NoTax, 200},
          stepUp : {10, 50}]
    \cup [target : {50000000}, current : {0}, months : {24}, return : {1200},
          tax : {NoTax}, stepUp : {0, 100}]

DeductionCalls == [nps : {-1, 0, 2, 9}, elss : {0, 3, 5}, ppf : {-2, 0, 4}, fd : {0, 8}]

AllocationCalls ==
    [values : {[equity |-> 0], [equity |-> 1, debt |-> 2], [cash |-> 5, gold |-> 1, other |-> 1]},
     risk : {"conservative", "moderate", "aggressive"}, age : {0, 18, 45, 51, 90}]

MCCalls == [health |-> HealthCalls, retirement |-> RetirementCalls,
            insurance |-> [annualIncome : {0, 2}, outstandingLiabilities : {0, 5},
                           existingCover : {0, 20, 25, 40}, dependents : {0, 1}],
            dna |-> [1..3 -> Archetype], plan |-> PlanCalls,
            deduction |-> DeductionCalls, allocation |-> AllocationCalls]
==============================================================================
