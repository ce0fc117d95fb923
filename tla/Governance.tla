----------------------------- MODULE Governance -----------------------------
(***************************************************************************)
(* Who may do what, and with which settings: the super admin's permission  *)
(* account and those it gives to other wallets, the global settings and    *)
(* the debt controller, and the creation of LP vaults and pools.           *)
(*                                                                         *)
(* Instructions name the accounts they work on.  Some look an account up   *)
(* at a fixed address, others take any account of the right type; signers  *)
(* stands for the wallets that signed the transaction being executed.      *)
(***************************************************************************)
EXTENDS Integers

CONSTANTS
  Wallets, Mints,
  Root,            \* address of the super admin's permission account
  Maps,            \* the sets of powers that may be given
  Signings,        \* the sets of wallets that may sign a transaction
  Apys, Leverages, Fees, MaxBorrows  \* the values that may be asked for

Powers == {"init_vault", "liquidate", "cosign", "init_pool", "borrow"}

APY_DENOMINATOR == 100
LEVERAGE_DENOMINATOR == 100

ASSUME GovernanceAssumption ==
  /\ Root \notin Wallets
  /\ Maps \subseteq SUBSET Powers /\ Signings \subseteq SUBSET Wallets
  /\ Apys \subseteq Nat /\ Leverages \subseteq Nat /\ Fees \subseteq Nat
  /\ MaxBorrows \subseteq Nat

VARIABLES
  permission,       \* the permission accounts: Root's, and one for each wallet
  global_settings, debt_controller,
  lp_vault,         \* LP vaults by mint
  pool,             \* the pools there are
  signers

settings == <<global_settings, debt_controller>>
created  == <<lp_vault, pool>>
vars     == <<permission, settings, created, signers>>

Accounts == {Root} \cup Wallets

Permissions == [open : BOOLEAN, authority : Accounts, active : BOOLEAN,
                is_super_authority : BOOLEAN, permissions_map : SUBSET Powers]

GlobalSettings == [open : BOOLEAN, super_admin : Accounts, fee_wallet : Accounts,
                   liquidation_wallet : Accounts, can_trade : BOOLEAN, can_lp : BOOLEAN]

DebtControllers == [open : BOOLEAN, max_apy : Nat, max_leverage : Nat, liquidation_fee : Nat]

LpVaults == [open : BOOLEAN, max_borrow : Nat]

Pools == [is_long_pool : BOOLEAN, collateral : Mints, currency : Mints]

\* Root never signs: it is the address of an account of the program.
NoPermission == [open |-> FALSE, authority |-> Root, active |-> FALSE,
                 is_super_authority |-> FALSE, permissions_map |-> {}]

\* The account at a wallet's address is the wallet's own.
TypeOK ==
  /\ permission \in [Accounts -> Permissions]
  /\ \A w \in Wallets : permission[w].open => permission[w].authority = w
  /\ global_settings \in GlobalSettings
  /\ debt_controller \in DebtControllers
  /\ lp_vault \in [Mints -> LpVaults]
  /\ pool \subseteq Pools
  /\ signers \subseteq Wallets

Init ==
  /\ permission = [a \in Accounts |-> NoPermission]
  /\ global_settings = [open |-> FALSE, super_admin |-> Root, fee_wallet |-> Root,
                        liquidation_wallet |-> Root, can_trade |-> FALSE, can_lp |-> FALSE]
  /\ debt_controller = [open |-> FALSE, max_apy |-> 0, max_leverage |-> 0, liquidation_fee |-> 0]
  /\ lp_vault = [m \in Mints |-> [open |-> FALSE, max_borrow |-> 0]]
  /\ pool = {}
  /\ signers = {}
-----------------------------------------------------------------------------
(* Who signed *)

\* The next transaction, signed by whoever it is signed by.
Sign(signing) ==
  /\ signers' = signing
  /\ UNCHANGED <<permission, settings, created>>

\* has_one = authority: an account of the wallet that signs.
SignedFor(a) == permission[a].open /\ permission[a].authority \in signers

\* Goes by the address the settings were created with.
SuperSignedBySettings == permission[Root].open /\ global_settings.super_admin \in signers

\* The account at the seeds "super_admin".
SuperSigned == SignedFor(Root)

\* can_init_vault and the like do not look at the status.
Can(a, power) == power \in permission[a].permissions_map \/ permission[a].is_super_authority
-----------------------------------------------------------------------------
(* Permissions *)

\* Anybody may, once.
InitGlobalSettings(admin, feeWallet, liquidationWallet, canTrade, canLp) ==
  /\ ~global_settings.open /\ ~permission[Root].open
  /\ global_settings' = [open |-> TRUE, super_admin |-> admin, fee_wallet |-> feeWallet,
                         liquidation_wallet |-> liquidationWallet, can_trade |-> canTrade,
                         can_lp |-> canLp]
  /\ permission' = [permission EXCEPT ![Root] =
       [open |-> TRUE, authority |-> admin, active |-> TRUE, is_super_authority |-> TRUE,
        permissions_map |-> Powers]]
  /\ UNCHANGED <<debt_controller, created, signers>>

\* Names the wallet that signed instead of the one that is given the powers.
PermissionOfSigner(wallet, map, active) ==
  [open |-> TRUE, authority |-> permission[Root].authority, active |-> active,
   is_super_authority |-> FALSE, permissions_map |-> map]

Permission(wallet, map, active) ==
  [open |-> TRUE, authority |-> wallet, active |-> active,
   is_super_authority |-> FALSE, permissions_map |-> map]

InitOrUpdatePermission(wallet, map, active) ==
  /\ SuperSigned
  /\ permission[Root].active /\ permission[Root].is_super_authority
  /\ permission' = [permission EXCEPT ![wallet] = Permission(wallet, map, active)]
  /\ UNCHANGED <<settings, created, signers>>

\* Any account may be removed, the super admin's own included.
RemovableAny(super, a) == permission[a].open

\* Neither a super account nor one whose wallet is the super account itself.
Removable(super, a) ==
  /\ permission[a].open
  /\ ~permission[a].is_super_authority
  /\ permission[a].authority # super

\* The super account is given by the caller and told by its flag.
RemovePermission(super, a) ==
  /\ SignedFor(super)
  /\ permission[super].active /\ permission[super].is_super_authority
  /\ Removable(super, a)
  /\ permission' = [permission EXCEPT ![a] = NoPermission]
  /\ UNCHANGED <<settings, created, signers>>

\* GlobalSettings.super_admin stays as it was.
SetSuperAdmin(admin) ==
  /\ SuperSigned /\ permission[Root].is_super_authority
  /\ permission' = [permission EXCEPT ![Root].authority = admin]
  /\ UNCHANGED <<settings, created, signers>>
-----------------------------------------------------------------------------
(* Settings *)

SetTradingState(allow) ==
  /\ SuperSigned /\ permission[Root].is_super_authority
  /\ global_settings' = [global_settings EXCEPT !.can_trade = allow]
  /\ UNCHANGED <<permission, debt_controller, created, signers>>

SetLpState(allow) ==
  /\ SuperSigned /\ permission[Root].is_super_authority
  /\ global_settings' = [global_settings EXCEPT !.can_lp = allow]
  /\ UNCHANGED <<permission, debt_controller, created, signers>>

SetFeeWallet(wallet) ==
  /\ SuperSigned
  /\ global_settings' = [global_settings EXCEPT !.fee_wallet = wallet]
  /\ UNCHANGED <<permission, debt_controller, created, signers>>

SetLiquidationWallet(wallet) ==
  /\ SuperSigned
  /\ global_settings' = [global_settings EXCEPT !.liquidation_wallet = wallet]
  /\ UNCHANGED <<permission, debt_controller, created, signers>>

ValidApy(apy) == apy # 0 /\ apy < 1000 * APY_DENOMINATOR
ValidLeverage(leverage) == leverage # 0 /\ leverage <= 100 * LEVERAGE_DENOMINATOR
ValidFee(fee) == fee # 0

\* Leaves the checks to the instructions that set one value.
ValidOnce(apy, leverage, fee) == TRUE

ValidAll(apy, leverage, fee) == ValidApy(apy) /\ ValidLeverage(leverage) /\ ValidFee(fee)

\* init_if_needed: sets all three again when the account is there.
InitDebtController(apy, leverage, fee) ==
  /\ SuperSigned
  /\ ValidAll(apy, leverage, fee)
  /\ debt_controller' = [open |-> TRUE, max_apy |-> apy, max_leverage |-> leverage,
                         liquidation_fee |-> fee]
  /\ UNCHANGED <<permission, global_settings, created, signers>>

SetMaxApy(apy) ==
  /\ SuperSigned
  /\ debt_controller.open /\ ValidApy(apy)
  /\ debt_controller' = [debt_controller EXCEPT !.max_apy = apy]
  /\ UNCHANGED <<permission, global_settings, created, signers>>

SetMaxLeverage(leverage) ==
  /\ SuperSigned
  /\ debt_controller.open /\ ValidLeverage(leverage)
  /\ debt_controller' = [debt_controller EXCEPT !.max_leverage = leverage]
  /\ UNCHANGED <<permission, global_settings, created, signers>>

SetLiquidationFee(fee) ==
  /\ SuperSigned
  /\ debt_controller.open /\ ValidFee(fee)
  /\ debt_controller' = [debt_controller EXCEPT !.liquidation_fee = fee]
  /\ UNCHANGED <<permission, global_settings, created, signers>>
-----------------------------------------------------------------------------
(* Vaults and pools *)

InitLpVault(a, mint) ==
  /\ SignedFor(a) /\ Can(a, "init_vault")
  /\ ~lp_vault[mint].open
  /\ lp_vault' = [lp_vault EXCEPT ![mint] = [open |-> TRUE, max_borrow |-> 0]]
  /\ UNCHANGED <<permission, settings, pool, signers>>

UpdateVaultMaxBorrow(a, mint, amount) ==
  /\ SignedFor(a) /\ Can(a, "init_vault")
  /\ lp_vault[mint].open
  /\ lp_vault' = [lp_vault EXCEPT ![mint].max_borrow = amount]
  /\ UNCHANGED <<permission, settings, pool, signers>>

\* A long pool and a short pool for the same mints have addresses of their own.
InitPool(a, new) ==
  /\ SignedFor(a) /\ Can(a, "init_pool")
  /\ new \notin pool
  /\ pool' = pool \cup {new}
  /\ UNCHANGED <<permission, settings, lp_vault, signers>>

Pool(long, collateral, currency) ==
  [is_long_pool |-> long, collateral |-> collateral, currency |-> currency]

InitLongPool(a, collateral, currency) == InitPool(a, Pool(TRUE, collateral, currency))

InitShortPool(a, collateral, currency) == InitPool(a, Pool(FALSE, collateral, currency))
-----------------------------------------------------------------------------
PermissionStep ==
  \/ \E admin, feeWallet, liquidationWallet \in Wallets, canTrade, canLp \in BOOLEAN :
       InitGlobalSettings(admin, feeWallet, liquidationWallet, canTrade, canLp)
  \/ \E wallet \in Wallets, map \in Maps, active \in BOOLEAN :
       InitOrUpdatePermission(wallet, map, active)
  \/ \E super, a \in Accounts : RemovePermission(super, a)
  \/ \E admin \in Wallets : SetSuperAdmin(admin)

SettingsStep ==
  \/ \E allow \in BOOLEAN : SetTradingState(allow) \/ SetLpState(allow)
  \/ \E wallet \in Wallets : SetFeeWallet(wallet) \/ SetLiquidationWallet(wallet)
  \/ \E apy \in Apys, leverage \in Leverages, fee \in Fees :
       InitDebtController(apy, leverage, fee)
  \/ \E apy \in Apys : SetMaxApy(apy)
  \/ \E leverage \in Leverages : SetMaxLeverage(leverage)
  \/ \E fee \in Fees : SetLiquidationFee(fee)

CreationStep ==
  \E a \in Accounts :
    \/ \E mint \in Mints : InitLpVault(a, mint)
    \/ \E mint \in Mints, amount \in MaxBorrows : UpdateVaultMaxBorrow(a, mint, amount)
    \/ \E collateral, currency \in Mints :
         InitLongPool(a, collateral, currency) \/ InitShortPool(a, collateral, currency)

Next ==
  \/ \E signing \in Signings : Sign(signing)
  \/ PermissionStep
  \/ SettingsStep
  \/ CreationStep

Spec == Init /\ [][Next]_vars
-----------------------------------------------------------------------------
(* Properties *)

\* From its creation on there is one super account, active and with every power,
\* and no instruction, called with whichever accounts, makes another or closes
\* it: creation happens once, so a closed one would leave nobody in charge.
OneSuper ==
  /\ permission[Root].open = global_settings.open
  /\ \A a \in Accounts : permission[a].open /\ permission[a].is_super_authority <=>
                           a = Root /\ global_settings.open
  /\ global_settings.open => permission[Root].active /\ permission[Root].permissions_map = Powers

\* The debt controller stays within bounds by whichever instruction it is set:
\* interest per year below a thousandfold, leverage at most a hundredfold.
WithinBounds ==
  debt_controller.open =>
    /\ debt_controller.max_apy > 0 /\ debt_controller.max_apy < 1000 * APY_DENOMINATOR
    /\ debt_controller.max_leverage > 0
    /\ debt_controller.max_leverage <= 100 * LEVERAGE_DENOMINATOR
    /\ debt_controller.liquidation_fee > 0

AllUses == {<<"lp_vault", m>> : m \in Mints} \cup {<<"pool", p>> : p \in Pools}

UseValue(use) ==
  IF use[1] = "pool" THEN IF use[2] \in pool THEN 1 ELSE 0
  ELSE IF lp_vault[use[2]].open THEN 1 + lp_vault[use[2]].max_borrow ELSE 0

PowerOf(use) == IF use[1] = "pool" THEN "init_pool" ELSE "init_vault"

Granted == [w \in Wallets |-> permission[w].permissions_map]

Access == INSTANCE AccessControl WITH
  Nobody <- Root, Settings <- GlobalSettings \X DebtControllers,
  Uses <- AllUses, PowerFor <- PowerOf,
  administrator <- permission[Root].authority, grants <- Granted,
  settings <- settings, uses <- [use \in AllUses |-> UseValue(use)]

\* Permission accounts give what AccessControl promises: there is one
\* administrator at a time, whatever GlobalSettings.super_admin says, who alone
\* gives, takes and configures, and a power is used only by who has it then.
AccessControlled == Access!Spec
=============================================================================
