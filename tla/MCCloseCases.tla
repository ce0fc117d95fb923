--------------------------- MODULE MCCloseCases ---------------------------
(* CloseCases on small inputs: amounts around every threshold of the       *)
(* waterfall, and, for the tolerance on a short's interest, amounts large  *)
(* enough for three per cent to be a whole unit.                           *)
EXTENDS CloseCases

Small ==
  [down_payments |-> {1, 4}, principals |-> {0, 3, 6}, collaterals |-> {2, 7},
   fees |-> {0, 1, 2}, seconds |-> {0, 1, 3}, max_apys |-> {50},
   swapped |-> {0, 2, 3, 5, 7, 9, 12}, interest_args |-> {0, 1, 2, 5},
   execution_fees |-> {0, 1}, percents |-> {0, 50},
   prices |-> {1, 2} \X {0, 1, 3, 5, 9}]

Wide ==
  [down_payments |-> {50}, principals |-> {100}, collaterals |-> {150},
   fees |-> {1}, seconds |-> {0, 1, 3}, max_apys |-> {35},
   swapped |-> {98, 100} \cup 130..145, interest_args |-> {0, 34, 35},
   execution_fees |-> {0}, percents |-> {0, 50},
   prices |-> {90, 100} \X {100, 131}]

SmallAndWide == {Small, Wide}
=============================================================================
