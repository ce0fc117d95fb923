------------------------- MODULE VaultLedger_proofs -------------------------
(***************************************************************************)
(* The ledger conserves assets for every finite set of borrowers and every *)
(* set of amounts.                                                         *)
(***************************************************************************)
EXTENDS VaultLedger, UnitSumLemmas, TLAPS

\* The seven movements of an instruction keep balances and debts natural.
LEMMA InstructionTyped ==
  ASSUME LedgerAssumption, TypeOK, Instruction
  PROVE  TypeOK'
<1>a. Amounts \subseteq Nat /\ MaxAssets \in Nat
  BY DEF LedgerAssumption
<1> USE <1>a DEF TypeOK, Working, Balances
<1>1. UNCHANGED <<running, saved>>
  BY DEF Instruction
<1>2. ASSUME NEW a \in Amounts, Fund(a) \/ Draw(a)
      PROVE  TypeOK'
  BY <1>1, <1>2 DEF Fund, Draw
<1>3. ASSUME NEW b \in Borrowers, NEW a \in Amounts, Lend(b, a) \/ GiveBack(b, a)
      PROVE  TypeOK'
  BY <1>1, <1>3 DEF Lend, GiveBack
<1>4. ASSUME NEW b \in Borrowers, NEW a \in Amounts, Settle(b, a) \/ WriteOff(b, a)
      PROVE  TypeOK'
  BY <1>1, <1>4 DEF Settle, WriteOff
<1>5. ASSUME NEW b \in Borrowers, NEW a \in Amounts, Revalue(b, a)
      PROVE  TypeOK'
  <2>1. PICK quote \in Amounts :
           /\ a <= quote
           /\ totalAssets' \in 0..MaxAssets
           /\ owed' = [owed EXCEPT ![b] = quote - a]
    BY <1>5 DEF Revalue
  <2>2. quote - a \in Nat /\ totalAssets' \in Nat
    BY <2>1
  <2> QED
    BY <1>1, <1>5, <2>1, <2>2 DEF Revalue
<1> QED
  BY <1>2, <1>3, <1>4, <1>5 DEF Instruction

\* Every reachable state of the ledger is well typed: no instruction drives a
\* balance below zero (the checked_sub of the handlers never yields one).
THEOREM TypeCorrect ==
  ASSUME LedgerAssumption PROVE Spec => []TypeOK
<1> USE DEF TypeOK
<1>a. ASSUME Init PROVE TypeOK
  <2>1. idle \in Nat /\ totalAssets \in Nat /\ owed \in [Borrowers -> Nat]
    BY <1>a DEF LedgerAssumption, Init, NoDebt
  <2> QED
    BY <1>a, <2>1 DEF Init, Working, Balances
<1>b. ASSUME TypeOK, Begin \/ Commit \/ Abort \/ UNCHANGED vars
      PROVE  TypeOK'
  BY <1>b DEF Begin, Commit, Abort, vars, balances, Working, Balances
<1>c. TypeOK /\ [Next]_vars => TypeOK'
  BY <1>b, InstructionTyped DEF Next
<1> QED
  BY <1>a, <1>c, PTL DEF Spec

\* The step of one borrower's debt from f[b] to n moves the total debt by n - f[b].
LEMMA DebtMove ==
  ASSUME LedgerAssumption, NEW f \in [Borrowers -> Nat], NEW b \in Borrowers, NEW n \in Nat
  PROVE  /\ Total([f EXCEPT ![b] = n]) = Total(f) - f[b] + n
         /\ Total(f) \in Nat
BY TotalUpdate, TotalType, Zenon DEF LedgerAssumption

\* What an instruction adds to the idle assets and the debts it adds to
\* total_assets.
LEMMA InstructionConserves ==
  ASSUME LedgerAssumption, TypeOK, totalAssets = idle + Total(owed), Instruction
  PROVE  totalAssets' = idle' + Total(owed')
<1>1. /\ idle \in Nat /\ totalAssets \in Nat
      /\ owed \in [Borrowers -> Nat] /\ Total(owed) \in Nat
  BY TotalType, Zenon DEF LedgerAssumption, TypeOK, Working, Balances
<1> DEFINE Balanced == totalAssets' = idle' + Total(owed')
<1>2. ASSUME NEW a \in Amounts, Fund(a) \/ Draw(a)
      PROVE  Balanced
  BY <1>1, <1>2 DEF LedgerAssumption, Fund, Draw
<1>3. ASSUME NEW b \in Borrowers, NEW a \in Amounts, Lend(b, a)
      PROVE  Balanced
  <2>1. owed[b] + a \in Nat /\ owed[b] \in Nat
    BY <1>1 DEF LedgerAssumption
  <2>2. Total([owed EXCEPT ![b] = owed[b] + a]) = Total(owed) - owed[b] + (owed[b] + a)
    BY <1>1, <2>1, DebtMove, Zenon
  <2> QED
    BY <1>1, <1>3, <2>1, <2>2 DEF LedgerAssumption, Lend
<1>4. ASSUME NEW b \in Borrowers, NEW a \in Amounts, GiveBack(b, a)
      PROVE  Balanced
  <2>1. owed[b] - a \in Nat /\ owed[b] \in Nat
    BY <1>1, <1>4 DEF LedgerAssumption, GiveBack
  <2>2. Total([owed EXCEPT ![b] = owed[b] - a]) = Total(owed) - owed[b] + (owed[b] - a)
    BY <1>1, <2>1, DebtMove, Zenon
  <2> QED
    BY <1>1, <1>4, <2>1, <2>2 DEF LedgerAssumption, GiveBack
<1>5. ASSUME NEW b \in Borrowers, NEW a \in Amounts, Settle(b, a) \/ WriteOff(b, a)
      PROVE  Balanced
  <2>1. 0 \in Nat /\ owed[b] \in Nat
    BY <1>1
  <2>2. Total([owed EXCEPT ![b] = 0]) = Total(owed) - owed[b] + 0
    BY <1>1, <2>1, DebtMove, Zenon
  <2>3. owed' = [owed EXCEPT ![b] = 0] /\ a \in Nat
    BY <1>5 DEF LedgerAssumption, Settle, WriteOff
  <2>4. Total(owed') = Total(owed) - owed[b]
    BY <1>1, <2>1, <2>2, <2>3
  <2>5. Settle(b, a) => Balanced
    BY <1>1, <2>1, <2>3, <2>4 DEF Settle
  <2>6. WriteOff(b, a) => Balanced
    BY <1>1, <2>1, <2>3, <2>4 DEF WriteOff
  <2> QED
    BY <1>5, <2>5, <2>6
<1>6. ASSUME NEW b \in Borrowers, NEW a \in Amounts, Revalue(b, a)
      PROVE  Balanced
  <2>1. PICK quote \in Amounts :
           /\ a <= quote
           /\ totalAssets' = totalAssets + quote - owed[b]
           /\ owed' = [owed EXCEPT ![b] = quote - a]
    BY <1>6 DEF Revalue
  <2>2. quote - a \in Nat /\ owed[b] \in Nat /\ quote \in Nat /\ a \in Nat
    BY <1>1, <2>1 DEF LedgerAssumption
  <2>3. Total([owed EXCEPT ![b] = quote - a]) = Total(owed) - owed[b] + (quote - a)
    BY <1>1, <2>2, DebtMove, Zenon
  <2>4. idle' = idle + a
    BY <1>6 DEF Revalue
  <2> QED
    BY <1>1, <2>1, <2>2, <2>3, <2>4
<1> QED
  BY <1>2, <1>3, <1>4, <1>5, <1>6 DEF Instruction

\* total_assets is the idle balance and the outstanding debts together, in the
\* working balances of every instruction and in those of the last commit.
THEOREM ConservedCorrect ==
  ASSUME LedgerAssumption PROVE Spec => []Conserved
<1>a. ASSUME Init PROVE Conserved
  <2>1. owed \in [Borrowers -> Nat] /\ \A b \in Borrowers : owed[b] = 0
    BY <1>a DEF Init, NoDebt
  <2>2. Total(owed) = 0
    BY <2>1, TotalZero, Zenon
  <2> QED
    BY <1>a, <2>2 DEF LedgerAssumption, Init, Conserved, Working
<1>b. ASSUME Conserved, Begin \/ Commit \/ Abort \/ UNCHANGED vars
      PROVE  Conserved'
  BY <1>b DEF Begin, Commit, Abort, vars, balances, Working, Conserved
<1>c. ASSUME TypeOK, Conserved, Instruction PROVE Conserved'
  <2>1. UNCHANGED saved
    BY <1>c DEF Instruction
  <2> QED
    BY <1>c, <2>1, InstructionConserves DEF Conserved
<1>d. TypeOK /\ Conserved /\ [Next]_vars => Conserved'
  BY <1>b, <1>c DEF Next
<1> QED
  BY <1>a, <1>d, TypeCorrect, PTL DEF Spec
=============================================================================
