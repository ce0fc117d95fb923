---------------------------- MODULE VaultLedger ----------------------------
(***************************************************************************)
(* What an LP vault promises, whoever uses it.  The vault's token account  *)
(* holds the idle assets, LpVault.total_assets counts everything the vault *)
(* owns, and borrowers (positions, strategies) owe the difference.         *)
(*                                                                         *)
(* Every Solana transaction is a sequence of instructions that takes       *)
(* effect entirely or not at all, so the ledger carries the balances as    *)
(* of the last committed transaction next to the working balances of the   *)
(* running one.  Trading implements this module with the positions as      *)
(* borrowers, Strategies with the strategies and all positions together.   *)
(***************************************************************************)
EXTENDS Integers, FiniteSets, UnitSum

CONSTANTS
  Borrowers,   \* the accounts that can owe assets to the vault
  Amounts,     \* the amounts one instruction may move
  MaxAssets    \* bound: total_assets never passes the supply of the token

\* What the theorems about the ledger need.  A module that implements it gives
\* the constants their values and has to have this of its own.
LedgerAssumption ==
  /\ IsFiniteSet(Borrowers)
  /\ Amounts \subseteq Nat
  /\ MaxAssets \in Nat

VARIABLES
  idle,        \* balance of the vault's token account
  totalAssets, \* LpVault.total_assets
  owed,        \* what each borrower owes
  running,     \* is a transaction under way?
  saved        \* balances as of the last committed transaction

balances == <<idle, totalAssets, owed>>
vars     == <<idle, totalAssets, owed, running, saved>>

Balances == [idle : Nat, totalAssets : Nat, owed : [Borrowers -> Nat]]
Working  == [idle |-> idle, totalAssets |-> totalAssets, owed |-> owed]
NoDebt   == [b \in Borrowers |-> 0]

TypeOK ==
  /\ Working \in Balances
  /\ running \in BOOLEAN
  /\ saved \in Balances

Init ==
  /\ idle \in Amounts
  /\ totalAssets = idle
  /\ owed = NoDebt
  /\ running = FALSE
  /\ saved = Working
-----------------------------------------------------------------------------
(* Transactions *)

Begin  == ~running /\ running' = TRUE /\ UNCHANGED <<balances, saved>>
Commit == running /\ running' = FALSE /\ saved' = Working /\ UNCHANGED balances
Abort  == /\ running
          /\ running' = FALSE
          /\ idle' = saved.idle
          /\ totalAssets' = saved.totalAssets
          /\ owed' = saved.owed
          /\ UNCHANGED saved
-----------------------------------------------------------------------------
(* Instructions *)

\* Assets enter from outside: a deposit or a donation.
Fund(a) ==
  /\ totalAssets + a <= MaxAssets
  /\ idle' = idle + a
  /\ totalAssets' = totalAssets + a
  /\ UNCHANGED owed

\* Only idle assets can leave: a withdrawal or a redemption.
Draw(a) ==
  /\ a <= idle
  /\ a <= totalAssets
  /\ idle' = idle - a
  /\ totalAssets' = totalAssets - a
  /\ UNCHANGED owed

\* Idle assets become b's debt.
Lend(b, a) ==
  /\ a <= idle
  /\ idle' = idle - a
  /\ owed' = [owed EXCEPT ![b] = @ + a]
  /\ UNCHANGED totalAssets

\* b gives back part of what it borrowed.
GiveBack(b, a) ==
  /\ a <= owed[b]
  /\ idle' = idle + a
  /\ owed' = [owed EXCEPT ![b] = @ - a]
  /\ UNCHANGED totalAssets

\* b's debt is closed with interest on top.
Settle(b, interest) ==
  /\ totalAssets + interest <= MaxAssets
  /\ idle' = idle + owed[b] + interest
  /\ totalAssets' = totalAssets + interest
  /\ owed' = [owed EXCEPT ![b] = 0]

\* b's debt is closed for less than its worth: the vault takes the loss.
WriteOff(b, repaid) ==
  /\ repaid < owed[b]
  /\ owed[b] - repaid <= totalAssets
  /\ idle' = idle + repaid
  /\ totalAssets' = totalAssets - (owed[b] - repaid)
  /\ owed' = [owed EXCEPT ![b] = 0]

\* b's debt is found to be worth another amount, gain or loss, and the part of
\* it that was received is paid off.
Revalue(b, received) ==
  /\ idle' = idle + received
  /\ \E quote \in Amounts :
       /\ received <= quote
       /\ totalAssets + quote - owed[b] \in 0..MaxAssets
       /\ totalAssets' = totalAssets + quote - owed[b]
       /\ owed' = [owed EXCEPT ![b] = quote - received]

Instruction ==
  /\ running
  /\ \/ \E a \in Amounts : Fund(a)
     \/ \E a \in Amounts : Draw(a)
     \/ \E b \in Borrowers, a \in Amounts : Lend(b, a)
     \/ \E b \in Borrowers, a \in Amounts : GiveBack(b, a)
     \/ \E b \in Borrowers, a \in Amounts : Settle(b, a)
     \/ \E b \in Borrowers, a \in Amounts : WriteOff(b, a)
     \/ \E b \in Borrowers, a \in Amounts : Revalue(b, a)
  /\ UNCHANGED <<running, saved>>

Next == Begin \/ Commit \/ Abort \/ Instruction
Spec == Init /\ [][Next]_vars
-----------------------------------------------------------------------------
(* Properties *)

\* total_assets is "the total assets owned by the vault, including tokens that
\* are currently borrowed" (LpVault.total_assets): after every instruction, and
\* in what a failed transaction returns to, it is the idle assets and the debts.
Conserved ==
  /\ totalAssets = idle + Total(owed)
  /\ saved.totalAssets = saved.idle + Total(saved.owed)
=============================================================================
