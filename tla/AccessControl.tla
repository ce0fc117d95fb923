---------------------------- MODULE AccessControl ----------------------------
(***************************************************************************)
(* What the permission accounts promise: one administrator at a time, who  *)
(* alone gives and takes powers and changes the settings, and no use of a  *)
(* power but by a wallet that holds it or by the administrator.            *)
(***************************************************************************)
EXTENDS Naturals

CONSTANTS
  Wallets, Powers,
  Nobody,             \* no wallet: stands for the administrator before there is one
  Settings,           \* values of the settings
  Uses, PowerFor(_)   \* what powers are used for, and the power each use takes

VARIABLES
  administrator,
  grants,             \* the powers given to each wallet
  settings,
  uses,               \* the value each use has left behind
  signers             \* who signed the transaction being executed

vars == <<administrator, grants, settings, uses, signers>>

Signs(w) == w \in signers /\ w \in Wallets

AdministratorSigns == Signs(administrator)

Holds(w, power) == power \in grants[w] \/ w = administrator

Init ==
  /\ administrator = Nobody
  /\ grants = [w \in Wallets |-> {}]
  /\ settings \in Settings
  /\ uses \in [Uses -> Nat]
  /\ signers = {}

Sign ==
  /\ signers' \subseteq Wallets
  /\ UNCHANGED <<administrator, grants, settings, uses>>

\* Once, and by anybody.
Appoint ==
  /\ administrator = Nobody
  /\ administrator' \in Wallets /\ settings' \in Settings
  /\ UNCHANGED <<grants, uses, signers>>

HandOver ==
  /\ AdministratorSigns
  /\ administrator' \in Wallets
  /\ UNCHANGED <<grants, settings, uses, signers>>

\* Gives powers, or takes all away.
Grant ==
  /\ AdministratorSigns
  /\ \E w \in Wallets, powers \in SUBSET Powers : grants' = [grants EXCEPT ![w] = powers]
  /\ UNCHANGED <<administrator, settings, uses, signers>>

Configure ==
  /\ AdministratorSigns
  /\ settings' \in Settings
  /\ UNCHANGED <<administrator, grants, uses, signers>>

Use ==
  /\ \E use \in Uses :
       /\ \E w \in Wallets : Signs(w) /\ Holds(w, PowerFor(use))
       /\ \A other \in Uses \ {use} : uses'[other] = uses[other]
  /\ UNCHANGED <<administrator, grants, settings, signers>>

Next == Sign \/ Appoint \/ HandOver \/ Grant \/ Configure \/ Use

Spec == Init /\ [][Next]_vars
=============================================================================
