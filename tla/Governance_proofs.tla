-------------------------- MODULE Governance_proofs --------------------------
(* What holds of Governance for every set of wallets and mints, and that its *)
(* permission accounts implement AccessControl.                              *)
EXTENDS Governance, TLAPS
-----------------------------------------------------------------------------
(* Types *)

LEMMA PermissionStepType == ASSUME TypeOK, PermissionStep PROVE TypeOK'
<1> USE GovernanceAssumption
<1>1. ASSUME NEW admin \in Wallets, NEW feeWallet \in Wallets, NEW liquidationWallet \in Wallets,
             NEW canTrade \in BOOLEAN, NEW canLp \in BOOLEAN,
             InitGlobalSettings(admin, feeWallet, liquidationWallet, canTrade, canLp)
      PROVE  TypeOK'
  <2>1. [open |-> TRUE, authority |-> admin, active |-> TRUE, is_super_authority |-> TRUE,
         permissions_map |-> Powers] \in Permissions
    BY DEF Permissions, Accounts
  <2>2. global_settings' \in GlobalSettings
    BY <1>1 DEF InitGlobalSettings, GlobalSettings, Accounts
  <2> QED
    BY <1>1, <2>1, <2>2 DEF InitGlobalSettings, TypeOK, Accounts, created
<1>2. ASSUME NEW wallet \in Wallets, NEW map \in Maps, NEW active \in BOOLEAN,
             InitOrUpdatePermission(wallet, map, active)
      PROVE  TypeOK'
  <2>1. Permission(wallet, map, active) \in Permissions
        /\ Permission(wallet, map, active).authority = wallet
    BY DEF Permission, Permissions, Accounts
  <2>2. permission' = [permission EXCEPT ![wallet] = Permission(wallet, map, active)]
    BY <1>2 DEF InitOrUpdatePermission
  <2>3. permission' \in [Accounts -> Permissions]
    BY <2>1, <2>2 DEF TypeOK
  <2>4. \A w \in Wallets : permission'[w].open => permission'[w].authority = w
    BY <2>1, <2>2 DEF TypeOK, Accounts
  <2> QED
    BY <1>2, <2>3, <2>4 DEF InitOrUpdatePermission, TypeOK, settings, created
<1>3. ASSUME NEW super \in Accounts, NEW a \in Accounts, RemovePermission(super, a)
      PROVE  TypeOK'
  <2>1. NoPermission \in Permissions /\ ~NoPermission.open
    BY DEF NoPermission, Permissions, Accounts
  <2>2. permission' = [permission EXCEPT ![a] = NoPermission]
    BY <1>3 DEF RemovePermission
  <2> QED
    BY <1>3, <2>1, <2>2 DEF RemovePermission, TypeOK, settings, created
<1>4. ASSUME NEW admin \in Wallets, SetSuperAdmin(admin) PROVE TypeOK'
  <2>1. permission' \in [Accounts -> Permissions]
    BY <1>4 DEF SetSuperAdmin, TypeOK, Permissions, Accounts
  <2>2. \A w \in Wallets : permission'[w] = permission[w]
    BY <1>4 DEF SetSuperAdmin, TypeOK, Accounts
  <2> QED
    BY <1>4, <2>1, <2>2 DEF SetSuperAdmin, TypeOK, settings, created
<1> QED
  BY <1>1, <1>2, <1>3, <1>4 DEF PermissionStep

LEMMA SettingsStepType == ASSUME TypeOK, SettingsStep PROVE TypeOK'
<1> USE GovernanceAssumption
<1>1. ASSUME UNCHANGED <<permission, created, signers>>,
             global_settings' \in GlobalSettings, debt_controller' \in DebtControllers
      PROVE  TypeOK'
  BY <1>1 DEF TypeOK, created
<1>2. ASSUME NEW allow \in BOOLEAN, SetTradingState(allow) \/ SetLpState(allow) PROVE TypeOK'
  BY <1>1, <1>2 DEF SetTradingState, SetLpState, TypeOK, GlobalSettings
<1>3. ASSUME NEW wallet \in Wallets, SetFeeWallet(wallet) \/ SetLiquidationWallet(wallet)
      PROVE  TypeOK'
  BY <1>1, <1>3 DEF SetFeeWallet, SetLiquidationWallet, TypeOK, GlobalSettings, Accounts
<1>4. ASSUME NEW apy \in Apys, NEW leverage \in Leverages, NEW fee \in Fees,
             InitDebtController(apy, leverage, fee)
      PROVE  TypeOK'
  BY <1>1, <1>4 DEF InitDebtController, TypeOK, DebtControllers
<1>5. ASSUME NEW n \in Nat, SetMaxApy(n) \/ SetMaxLeverage(n) \/ SetLiquidationFee(n)
      PROVE  TypeOK'
  BY <1>1, <1>5 DEF SetMaxApy, SetMaxLeverage, SetLiquidationFee, TypeOK, DebtControllers
<1> QED
  BY <1>2, <1>3, <1>4, <1>5 DEF SettingsStep

LEMMA CreationStepType == ASSUME TypeOK, CreationStep PROVE TypeOK'
<1> USE GovernanceAssumption
<1>1. PICK a \in Accounts :
        \/ \E mint \in Mints : InitLpVault(a, mint)
        \/ \E mint \in Mints, amount \in MaxBorrows : UpdateVaultMaxBorrow(a, mint, amount)
        \/ \E collateral, currency \in Mints :
             InitLongPool(a, collateral, currency) \/ InitShortPool(a, collateral, currency)
  BY DEF CreationStep
<1>2. ASSUME NEW mint \in Mints, InitLpVault(a, mint) PROVE TypeOK'
  BY <1>2 DEF InitLpVault, TypeOK, LpVaults, settings
<1>3. ASSUME NEW mint \in Mints, NEW amount \in MaxBorrows, UpdateVaultMaxBorrow(a, mint, amount)
      PROVE  TypeOK'
  BY <1>3 DEF UpdateVaultMaxBorrow, TypeOK, LpVaults, settings
<1>4. ASSUME NEW collateral \in Mints, NEW currency \in Mints,
             InitLongPool(a, collateral, currency) \/ InitShortPool(a, collateral, currency)
      PROVE  TypeOK'
  <2>1. Pool(TRUE, collateral, currency) \in Pools /\ Pool(FALSE, collateral, currency) \in Pools
    BY DEF Pool, Pools
  <2>2. pool' \subseteq Pools /\ UNCHANGED <<permission, settings, lp_vault, signers>>
    BY <1>4, <2>1 DEF InitLongPool, InitShortPool, InitPool, TypeOK
  <2> QED
    BY <2>2 DEF TypeOK, settings
<1> QED
  BY <1>1, <1>2, <1>3, <1>4

LEMMA InitType == ASSUME Init PROVE TypeOK
  BY GovernanceAssumption DEF Init, TypeOK, NoPermission, Permissions, GlobalSettings,
    DebtControllers, LpVaults, Accounts

LEMMA StepType == ASSUME TypeOK, [Next]_vars PROVE TypeOK'
<1>1. ASSUME NEW signing \in Signings, Sign(signing) PROVE TypeOK'
  BY <1>1, GovernanceAssumption DEF Sign, TypeOK, settings, created
<1>2. CASE UNCHANGED vars
  BY <1>2 DEF vars, TypeOK, settings, created
<1> QED
  BY <1>1, <1>2, PermissionStepType, SettingsStepType, CreationStepType DEF Next

\* Every account has its shape, and the account at a wallet's address names that
\* wallet.
THEOREM TypeCorrect == Spec => []TypeOK
  BY InitType, StepType, PTL DEF Spec
-----------------------------------------------------------------------------
(* One super account *)

LEMMA InitOne == ASSUME Init PROVE OneSuper
  BY DEF Init, OneSuper, NoPermission, Accounts

LEMMA StepOne == ASSUME TypeOK, OneSuper, [Next]_vars PROVE OneSuper'
<1> USE GovernanceAssumption DEF OneSuper, TypeOK
<1>1. ASSUME NEW admin \in Wallets, NEW feeWallet \in Wallets, NEW liquidationWallet \in Wallets,
             NEW canTrade \in BOOLEAN, NEW canLp \in BOOLEAN,
             InitGlobalSettings(admin, feeWallet, liquidationWallet, canTrade, canLp)
      PROVE  OneSuper'
  BY <1>1 DEF InitGlobalSettings, Accounts
<1>2. ASSUME NEW wallet \in Wallets, NEW map \in Maps, NEW active \in BOOLEAN,
             InitOrUpdatePermission(wallet, map, active)
      PROVE  OneSuper'
  BY <1>2 DEF InitOrUpdatePermission, Permission, Accounts, settings, SuperSigned, SignedFor
<1>3. ASSUME NEW super \in Accounts, NEW a \in Accounts, RemovePermission(super, a)
      PROVE  OneSuper'
  <2>1. a # Root
    BY <1>3 DEF RemovePermission, Removable, SignedFor
  <2>2. /\ permission'[Root] = permission[Root]
        /\ \A b \in Accounts : b # a => permission'[b] = permission[b]
        /\ permission'[a] = NoPermission
    BY <1>3, <2>1 DEF RemovePermission, Accounts
  <2>3. ~NoPermission.open
    BY DEF NoPermission
  <2>4. UNCHANGED global_settings
    BY <1>3 DEF RemovePermission, settings
  <2> QED
    BY <2>1, <2>2, <2>3, <2>4
<1>4. ASSUME NEW admin \in Wallets, SetSuperAdmin(admin) PROVE OneSuper'
  <2>1. \A a \in Accounts : /\ permission'[a].open = permission[a].open
                            /\ permission'[a].is_super_authority = permission[a].is_super_authority
                            /\ permission'[a].active = permission[a].active
                            /\ permission'[a].permissions_map = permission[a].permissions_map
    BY <1>4 DEF SetSuperAdmin, Permissions, Accounts
  <2> QED
    BY <1>4, <2>1 DEF SetSuperAdmin, settings, Accounts
<1>5. ASSUME UNCHANGED permission, global_settings'.open = global_settings.open PROVE OneSuper'
  BY <1>5
<1>6. CASE SettingsStep
  BY <1>5, <1>6 DEF SettingsStep, SetTradingState, SetLpState, SetFeeWallet,
    SetLiquidationWallet, InitDebtController, SetMaxApy, SetMaxLeverage, SetLiquidationFee,
    GlobalSettings
<1>7. CASE CreationStep
  BY <1>5, <1>7 DEF CreationStep, InitLpVault, UpdateVaultMaxBorrow, InitLongPool,
    InitShortPool, InitPool, settings
<1>8. CASE (\E signing \in Signings : Sign(signing)) \/ UNCHANGED vars
  BY <1>5, <1>8 DEF Sign, vars, settings
<1> QED
  BY <1>1, <1>2, <1>3, <1>4, <1>6, <1>7, <1>8 DEF Next, PermissionStep

\* There is one super account from the creation on, active and with all powers:
\* remove_permission, which takes any super account it is given, is given this one.
THEOREM OneSuperCorrect == Spec => []OneSuper
<1>1. TypeOK /\ OneSuper /\ [Next]_vars => OneSuper'
  BY StepOne
<1> QED
  BY <1>1, InitOne, TypeCorrect, PTL DEF Spec
-----------------------------------------------------------------------------
(* Bounds *)

LEMMA ApySet ==
  ASSUME NEW r \in DebtControllers, NEW n \in Nat
  PROVE  [r EXCEPT !.max_apy = n] =
           [open |-> r.open, max_apy |-> n, max_leverage |-> r.max_leverage,
            liquidation_fee |-> r.liquidation_fee]
  BY DEF DebtControllers

LEMMA LeverageSet ==
  ASSUME NEW r \in DebtControllers, NEW n \in Nat
  PROVE  [r EXCEPT !.max_leverage = n] =
           [open |-> r.open, max_apy |-> r.max_apy, max_leverage |-> n,
            liquidation_fee |-> r.liquidation_fee]
  BY DEF DebtControllers

LEMMA FeeSet ==
  ASSUME NEW r \in DebtControllers, NEW n \in Nat
  PROVE  [r EXCEPT !.liquidation_fee = n] =
           [open |-> r.open, max_apy |-> r.max_apy, max_leverage |-> r.max_leverage,
            liquidation_fee |-> n]
  BY DEF DebtControllers

\* The debt controller is within its bounds whichever instruction set it last.
THEOREM WithinBoundsCorrect == Spec => []WithinBounds
<1>1. Init => WithinBounds
  BY DEF Init, WithinBounds
<1>2. TypeOK /\ WithinBounds /\ [Next]_vars => WithinBounds'
  <2> SUFFICES ASSUME TypeOK, WithinBounds, [Next]_vars PROVE WithinBounds'
    OBVIOUS
  <2>1. ASSUME NEW apy \in Apys, NEW leverage \in Leverages, NEW fee \in Fees,
               InitDebtController(apy, leverage, fee)
        PROVE  WithinBounds'
    <3>1. debt_controller' = [open |-> TRUE, max_apy |-> apy, max_leverage |-> leverage,
                              liquidation_fee |-> fee]
      BY <2>1 DEF InitDebtController
    <3>2. /\ apy \in Nat /\ leverage \in Nat /\ fee \in Nat
          /\ ValidApy(apy) /\ ValidLeverage(leverage) /\ ValidFee(fee)
      BY <2>1, GovernanceAssumption DEF InitDebtController, ValidAll
    <3> QED
      BY <3>1, <3>2 DEF WithinBounds, ValidApy, ValidLeverage, ValidFee
  <2>2. ASSUME NEW n \in Nat, SetMaxApy(n) \/ SetMaxLeverage(n) \/ SetLiquidationFee(n)
        PROVE  WithinBounds'
    <3>1. debt_controller \in DebtControllers /\ debt_controller.open
      BY <2>2, Zenon DEF SetMaxApy, SetMaxLeverage, SetLiquidationFee, TypeOK
    <3>2. CASE SetMaxApy(n)
      <4>1. ValidApy(n) /\ debt_controller' = [debt_controller EXCEPT !.max_apy = n]
        BY <3>2, Zenon DEF SetMaxApy
      <4>2. debt_controller' =
         [open |-> debt_controller.open,
          max_apy |-> n, max_leverage |-> debt_controller.max_leverage,
          liquidation_fee |-> debt_controller.liquidation_fee]
        BY <3>1, <4>1, ApySet, Zenon
      <4>3. /\ debt_controller'.max_apy = n
            /\ debt_controller'.max_leverage = debt_controller.max_leverage
            /\ debt_controller'.liquidation_fee = debt_controller.liquidation_fee
        BY <4>2
      <4> QED
        BY <2>2, <3>1, <4>1, <4>3 DEF WithinBounds, ValidApy
    <3>3. CASE SetMaxLeverage(n)
      <4>1. ValidLeverage(n) /\ debt_controller' = [debt_controller EXCEPT !.max_leverage = n]
        BY <3>3, Zenon DEF SetMaxLeverage
      <4>2. debt_controller' =
         [open |-> debt_controller.open,
          max_apy |-> debt_controller.max_apy, max_leverage |-> n,
          liquidation_fee |-> debt_controller.liquidation_fee]
        BY <3>1, <4>1, LeverageSet, Zenon
      <4>3. /\ debt_controller'.max_leverage = n
            /\ debt_controller'.max_apy = debt_controller.max_apy
            /\ debt_controller'.liquidation_fee = debt_controller.liquidation_fee
        BY <4>2
      <4> QED
        BY <2>2, <3>1, <4>1, <4>3 DEF WithinBounds, ValidLeverage
    <3>4. CASE SetLiquidationFee(n)
      <4>1. ValidFee(n) /\ debt_controller' = [debt_controller EXCEPT !.liquidation_fee = n]
        BY <3>4, Zenon DEF SetLiquidationFee
      <4>2. debt_controller' =
         [open |-> debt_controller.open,
          max_apy |-> debt_controller.max_apy, max_leverage |-> debt_controller.max_leverage,
          liquidation_fee |-> n]
        BY <3>1, <4>1, FeeSet, Zenon
      <4>3. /\ debt_controller'.liquidation_fee = n
            /\ debt_controller'.max_apy = debt_controller.max_apy
            /\ debt_controller'.max_leverage = debt_controller.max_leverage
        BY <4>2
      <4> QED
        BY <2>2, <3>1, <4>1, <4>3 DEF WithinBounds, ValidFee
    <3> QED
      BY <2>2, <3>2, <3>3, <3>4
  <2>3. ASSUME UNCHANGED debt_controller PROVE WithinBounds'
    BY <2>3 DEF WithinBounds
  <2>4. CASE SettingsStep
    BY <2>1, <2>2, <2>3, <2>4, GovernanceAssumption DEF SettingsStep, SetTradingState, SetLpState, SetFeeWallet,
      SetLiquidationWallet
  <2>5. CASE PermissionStep \/ CreationStep \/ (\E signing \in Signings : Sign(signing))
             \/ UNCHANGED vars
    BY <2>3, <2>5 DEF PermissionStep, InitGlobalSettings, InitOrUpdatePermission,
      RemovePermission, SetSuperAdmin, CreationStep, InitLpVault, UpdateVaultMaxBorrow,
      InitLongPool, InitShortPool, InitPool, Sign, vars, settings
  <2> QED
    BY <2>4, <2>5 DEF Next
<1> QED
  BY <1>1, <1>2, TypeCorrect, PTL DEF Spec
-----------------------------------------------------------------------------
(* AccessControl *)

\* Before there is an administrator nobody is one.
Unclaimed == ~permission[Root].open => permission[Root].authority = Root

LEMMA StepUnclaimed ==
  ASSUME TypeOK, OneSuper, Unclaimed, [Next]_vars PROVE Unclaimed'
<1> USE GovernanceAssumption DEF Unclaimed, TypeOK
<1>1. ASSUME UNCHANGED permission PROVE Unclaimed'
  BY <1>1
<1>2. CASE PermissionStep
  <2>1. ASSUME NEW admin \in Wallets, NEW feeWallet \in Wallets, NEW liquidationWallet \in Wallets,
               NEW canTrade \in BOOLEAN, NEW canLp \in BOOLEAN,
               InitGlobalSettings(admin, feeWallet, liquidationWallet, canTrade, canLp)
        PROVE  Unclaimed'
    BY <2>1 DEF InitGlobalSettings, Accounts
  <2>2. ASSUME NEW wallet \in Wallets, NEW map \in Maps, NEW active \in BOOLEAN,
               InitOrUpdatePermission(wallet, map, active)
        PROVE  Unclaimed'
    BY <2>2 DEF InitOrUpdatePermission, Accounts
  <2>3. ASSUME NEW super \in Accounts, NEW a \in Accounts, RemovePermission(super, a)
        PROVE  Unclaimed'
    BY <2>3 DEF RemovePermission, Removable, OneSuper, NoPermission, Accounts
  <2>4. ASSUME NEW admin \in Wallets, SetSuperAdmin(admin) PROVE Unclaimed'
    <3>1. permission[Root].open
      BY <2>4 DEF SetSuperAdmin, SuperSigned, SignedFor
    <3>2. permission'[Root].open = permission[Root].open
      BY <2>4 DEF SetSuperAdmin, Accounts, Permissions
    <3> QED
      BY <3>1, <3>2
  <2> QED
    BY <1>2, <2>1, <2>2, <2>3, <2>4 DEF PermissionStep
<1>3. CASE SettingsStep
  BY <1>1, <1>3 DEF SettingsStep, SetTradingState, SetLpState, SetFeeWallet,
    SetLiquidationWallet, InitDebtController, SetMaxApy, SetMaxLeverage, SetLiquidationFee
<1>4. CASE CreationStep
  BY <1>1, <1>4 DEF CreationStep, InitLpVault, UpdateVaultMaxBorrow, InitLongPool,
    InitShortPool, InitPool
<1>5. CASE (\E signing \in Signings : Sign(signing)) \/ UNCHANGED vars
  BY <1>1, <1>5 DEF Sign, vars
<1> QED
  BY <1>2, <1>3, <1>4, <1>5 DEF Next

UsesNow == [use \in AllUses |-> UseValue(use)]

\* The administrator signs for Root, and only for Root.
LEMMA RootSigns ==
  ASSUME TypeOK, SuperSigned PROVE Access!AdministratorSigns
  BY GovernanceAssumption DEF SuperSigned, SignedFor, TypeOK, Access!AdministratorSigns, Access!Signs

LEMMA ConfigureMaps ==
  ASSUME TypeOK, TypeOK', SettingsStep PROVE Access!Configure
<1>1. SuperSigned /\ UNCHANGED <<permission, created, signers>>
  BY DEF SettingsStep, SetTradingState, SetLpState, SetFeeWallet, SetLiquidationWallet,
    InitDebtController, SetMaxApy, SetMaxLeverage, SetLiquidationFee, created
<1>2. settings' \in GlobalSettings \X DebtControllers
  BY DEF TypeOK, settings
<1>3. UsesNow' = UsesNow
  BY <1>1 DEF UsesNow, UseValue, created
<1>4. Granted' = Granted
  BY <1>1 DEF Granted
<1> QED
  BY <1>1, <1>2, <1>3, <1>4, RootSigns DEF Access!Configure, UsesNow

LEMMA PermissionMaps ==
  ASSUME TypeOK, OneSuper, Unclaimed, TypeOK', PermissionStep
  PROVE  Access!Appoint \/ Access!HandOver \/ Access!Grant
<1> USE GovernanceAssumption
<1>0. ASSUME UNCHANGED created PROVE UsesNow' = UsesNow
  BY <1>0 DEF UsesNow, UseValue, created
<1>1. ASSUME NEW admin \in Wallets, NEW feeWallet \in Wallets, NEW liquidationWallet \in Wallets,
             NEW canTrade \in BOOLEAN, NEW canLp \in BOOLEAN,
             InitGlobalSettings(admin, feeWallet, liquidationWallet, canTrade, canLp)
      PROVE  Access!Appoint
  <2>1. permission[Root].authority = Root /\ permission'[Root].authority = admin
    BY <1>1 DEF InitGlobalSettings, Unclaimed, TypeOK, Accounts
  <2>2. Granted' = Granted
    BY <1>1 DEF InitGlobalSettings, Granted, TypeOK, Accounts
  <2>3. settings' \in GlobalSettings \X DebtControllers
    BY DEF TypeOK, settings
  <2>4. UNCHANGED <<created, signers>>
    BY <1>1 DEF InitGlobalSettings
  <2> QED
    BY <1>0, <2>1, <2>2, <2>3, <2>4 DEF Access!Appoint, UsesNow
<1>2. ASSUME NEW wallet \in Wallets, NEW map \in Maps, NEW active \in BOOLEAN,
             InitOrUpdatePermission(wallet, map, active)
      PROVE  Access!Grant
  <2>1. /\ SuperSigned /\ UNCHANGED <<settings, created, signers>>
        /\ permission' = [permission EXCEPT ![wallet] = Permission(wallet, map, active)]
    BY <1>2 DEF InitOrUpdatePermission
  <2>2. permission'[Root] = permission[Root]
    BY <2>1 DEF TypeOK, Accounts
  <2>3. Granted' = [Granted EXCEPT ![wallet] = map] /\ map \in SUBSET Powers
    BY <2>1 DEF Granted, Permission, TypeOK, Accounts
  <2> QED
    BY <1>0, <2>1, <2>2, <2>3, RootSigns DEF Access!Grant, UsesNow
<1>3. ASSUME NEW super \in Accounts, NEW a \in Accounts, RemovePermission(super, a)
      PROVE  Access!Grant
  <2>1. /\ SignedFor(super) /\ permission[super].is_super_authority
        /\ Removable(super, a) /\ UNCHANGED <<settings, created, signers>>
        /\ permission' = [permission EXCEPT ![a] = NoPermission]
    BY <1>3 DEF RemovePermission
  <2>2. super = Root /\ a # Root /\ a \in Wallets
    BY <2>1 DEF SignedFor, Removable, OneSuper, Accounts
  <2>3. permission'[Root] = permission[Root]
    BY <2>1, <2>2 DEF TypeOK, Accounts
  <2>4. Granted' = [Granted EXCEPT ![a] = {}] /\ {} \in SUBSET Powers
    BY <2>1, <2>2 DEF Granted, NoPermission, TypeOK, Accounts
  <2>5. Access!AdministratorSigns
    BY <2>1, <2>2, RootSigns DEF SuperSigned
  <2> QED
    BY <1>0, <2>1, <2>2, <2>3, <2>4, <2>5 DEF Access!Grant, UsesNow
<1>4. ASSUME NEW admin \in Wallets, SetSuperAdmin(admin) PROVE Access!HandOver
  <2>1. /\ SuperSigned /\ UNCHANGED <<settings, created, signers>>
        /\ permission' = [permission EXCEPT ![Root].authority = admin]
    BY <1>4 DEF SetSuperAdmin
  <2>2. permission'[Root].authority = admin /\ \A w \in Wallets : permission'[w] = permission[w]
    BY <2>1 DEF TypeOK, Accounts, Permissions
  <2>3. Granted' = Granted
    BY <2>2 DEF Granted
  <2> QED
    BY <1>0, <2>1, <2>2, <2>3, RootSigns DEF Access!HandOver, UsesNow
<1> QED
  BY <1>1, <1>2, <1>3, <1>4 DEF PermissionStep

\* Whoever signs for an account that can do something holds the power to.
LEMMA HolderSigns ==
  ASSUME TypeOK, OneSuper, NEW a \in Accounts, NEW power, SignedFor(a), Can(a, power),
         a = Root => power \in Powers
  PROVE  \E w \in Wallets : Access!Signs(w) /\ Access!Holds(w, power)
<1>1. permission[a].open /\ permission[a].authority \in signers /\ signers \subseteq Wallets
  BY DEF SignedFor, TypeOK
<1>2. CASE a = Root
  BY <1>1, <1>2 DEF Access!Signs, Access!Holds
<1>3. CASE a # Root
  <2>1. a \in Wallets /\ permission[a].authority = a /\ ~permission[a].is_super_authority
    BY <1>1, <1>3 DEF TypeOK, OneSuper, Accounts
  <2>2. power \in Granted[a]
    BY <2>1 DEF Can, Granted
  <2> QED
    BY <1>1, <2>1, <2>2 DEF Access!Signs, Access!Holds
<1> QED
  BY <1>2, <1>3

LEMMA CreationMaps == ASSUME TypeOK, OneSuper, CreationStep PROVE Access!Use
<1> USE GovernanceAssumption
<1>1. PICK a \in Accounts :
        \/ \E mint \in Mints : InitLpVault(a, mint)
        \/ \E mint \in Mints, amount \in MaxBorrows : UpdateVaultMaxBorrow(a, mint, amount)
        \/ \E collateral, currency \in Mints :
             InitLongPool(a, collateral, currency) \/ InitShortPool(a, collateral, currency)
  BY DEF CreationStep
<1>2. ASSUME UNCHANGED <<permission, settings, signers>>, NEW use \in AllUses,
             SignedFor(a), Can(a, PowerOf(use)),
             \A other \in AllUses \ {use} : UseValue(other)' = UseValue(other)
      PROVE  Access!Use
  <2>1. PowerOf(use) \in Powers
    BY DEF PowerOf, Powers
  <2>2. \E w \in Wallets : Access!Signs(w) /\ Access!Holds(w, PowerOf(use))
    BY <1>2, <2>1, HolderSigns
  <2>3. \A other \in AllUses \ {use} : UsesNow'[other] = UsesNow[other]
    BY <1>2 DEF UsesNow
  <2>4. Granted' = Granted
    BY <1>2 DEF Granted
  <2> QED
    BY <1>2, <2>2, <2>3, <2>4 DEF Access!Use, UsesNow
<1>3. ASSUME NEW mint \in Mints, NEW vault,
             SignedFor(a), Can(a, "init_vault"), lp_vault' = [lp_vault EXCEPT ![mint] = vault],
             UNCHANGED <<permission, settings, pool, signers>>
      PROVE  Access!Use
  <2> DEFINE use == <<"lp_vault", mint>>
  <2>1. use \in AllUses /\ PowerOf(use) = "init_vault"
    BY DEF AllUses, PowerOf
  <2>2. ASSUME NEW other \in AllUses \ {use} PROVE UseValue(other)' = UseValue(other)
    <3>1. CASE other[1] = "pool"
      BY <1>3, <3>1 DEF UseValue
    <3>2. CASE other[1] # "pool"
      <4>1. PICK m \in Mints : other = <<"lp_vault", m>>
        BY <3>2 DEF AllUses
      <4>2. m # mint /\ other[2] = m
        BY <4>1
      <4>3. lp_vault'[m] = lp_vault[m]
        BY <1>3, <4>2 DEF TypeOK
      <4> QED
        BY <3>2, <4>2, <4>3 DEF UseValue
    <3> QED
      BY <3>1, <3>2
  <2> QED
    BY <1>2, <1>3, <2>1, <2>2
<1>4. ASSUME NEW mint \in Mints, InitLpVault(a, mint) PROVE Access!Use
  <2> DEFINE vault == [open |-> TRUE, max_borrow |-> 0]
  <2>1. /\ SignedFor(a) /\ Can(a, "init_vault") /\ lp_vault' = [lp_vault EXCEPT ![mint] = vault]
        /\ UNCHANGED <<permission, settings, pool, signers>>
    BY <1>4 DEF InitLpVault
  <2> HIDE DEF vault
  <2> QED
    BY <1>3, <2>1, Zenon
<1>5. ASSUME NEW mint \in Mints, NEW amount \in MaxBorrows, UpdateVaultMaxBorrow(a, mint, amount)
      PROVE  Access!Use
  <2> DEFINE vault == [lp_vault[mint] EXCEPT !.max_borrow = amount]
  <2>1. /\ SignedFor(a) /\ Can(a, "init_vault") /\ lp_vault' = [lp_vault EXCEPT ![mint] = vault]
        /\ UNCHANGED <<permission, settings, pool, signers>>
    BY <1>5 DEF UpdateVaultMaxBorrow
  <2> HIDE DEF vault
  <2> QED
    BY <1>3, <2>1, Zenon
<1>6. ASSUME NEW new \in Pools, InitPool(a, new) PROVE Access!Use
  <2> DEFINE use == <<"pool", new>>
  <2>1. use \in AllUses /\ PowerOf(use) = "init_pool"
    BY DEF AllUses, PowerOf
  <2>2. ASSUME NEW other \in AllUses \ {use} PROVE UseValue(other)' = UseValue(other)
    <3>1. lp_vault' = lp_vault /\ pool' = pool \cup {new}
      BY <1>6 DEF InitPool
    <3>2. CASE other[1] = "pool"
      <4>1. PICK p \in Pools : other = <<"pool", p>>
        BY <3>2 DEF AllUses
      <4>2. other[2] # new
        BY <4>1
      <4> QED
        BY <3>1, <3>2, <4>2 DEF UseValue
    <3>3. CASE other[1] # "pool"
      BY <3>1, <3>3 DEF UseValue
    <3> QED
      BY <3>2, <3>3
  <2> QED
    BY <1>2, <1>6, <2>1, <2>2 DEF InitPool
<1>7. ASSUME NEW collateral \in Mints, NEW currency \in Mints
      PROVE  Pool(TRUE, collateral, currency) \in Pools /\ Pool(FALSE, collateral, currency) \in Pools
  BY DEF Pool, Pools
<1> QED
  BY <1>1, <1>4, <1>5, <1>6, <1>7 DEF InitLongPool, InitShortPool

LEMMA InitMaps == ASSUME Init PROVE Access!Init
<1>1. TypeOK
  BY InitType
<1>2. permission[Root].authority = Root /\ Granted = [w \in Wallets |-> {}]
  BY DEF Init, Granted, NoPermission, Accounts
<1>3. settings \in GlobalSettings \X DebtControllers
  BY <1>1 DEF TypeOK, settings
<1>4. UsesNow \in [AllUses -> Nat]
  BY DEF Init, UsesNow, UseValue, AllUses
<1> QED
  BY <1>2, <1>3, <1>4 DEF Init, Access!Init, UsesNow

LEMMA StepMaps ==
  ASSUME TypeOK, TypeOK', OneSuper, Unclaimed, [Next]_vars PROVE [Access!Next]_(Access!vars)
<1>1. CASE PermissionStep
  BY <1>1, PermissionMaps DEF Access!Next
<1>2. CASE SettingsStep
  BY <1>2, ConfigureMaps DEF Access!Next
<1>3. CASE CreationStep
  BY <1>3, CreationMaps DEF Access!Next
<1>4. ASSUME UNCHANGED <<permission, settings, created>>
      PROVE  UNCHANGED <<permission[Root].authority, Granted, settings, UsesNow>>
  BY <1>4 DEF Granted, UsesNow, UseValue, created
<1>5. ASSUME NEW signing \in Signings, Sign(signing) PROVE Access!Sign
  BY <1>4, <1>5, GovernanceAssumption DEF Sign, Access!Sign, UsesNow
<1>6. CASE UNCHANGED vars
  BY <1>4, <1>6 DEF vars, Access!vars, UsesNow
<1> QED
  BY <1>1, <1>2, <1>3, <1>5, <1>6 DEF Next, Access!Next

\* The permission accounts implement AccessControl, with the account at the seeds
\* "super_admin" as the administrator: a stale super_admin in GlobalSettings, a
\* super account named by the caller or a removed permission gives nobody a power.
THEOREM AccessControlledCorrect == Spec => AccessControlled
<1>1. Init => Unclaimed
  BY DEF Init, Unclaimed, NoPermission, Accounts
<1>2. TypeOK /\ OneSuper /\ Unclaimed /\ [Next]_vars => Unclaimed'
  BY StepUnclaimed
<1>3. TypeOK /\ TypeOK' /\ OneSuper /\ Unclaimed /\ [Next]_vars => [Access!Next]_(Access!vars)
  BY StepMaps
<1>4. Init => Access!Init
  BY InitMaps
<1> QED
  BY <1>1, <1>2, <1>3, <1>4, TypeCorrect, OneSuperCorrect, PTL DEF Spec, AccessControlled, Access!Spec
=============================================================================
