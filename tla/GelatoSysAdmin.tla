--------------------------- MODULE GelatoSysAdmin ---------------------------
(* The bottom of the inheritance chain                                     *)
(*     GelatoSysAdmin <- GelatoProviders <- GelatoExecutors <- GelatoCore  *)
(* of one deployed GelatoCore contract: the parameters its owner sets, the *)
(* owner's share of the fees, and the ether the contract holds.            *)
(* An Ethereum transaction that reverts changes nothing, so a call is an   *)
(* action whose guard is the conjunction of the code's require()s.         *)
EXTENDS Integers

CONSTANTS
    Accounts,        \* addresses that call the contract
    NoAccount,       \* address(0)
    Owners,          \* bound: the accounts that own the contract over time
    Amounts,         \* amounts of ether a call can name or carry
    MaxEther,        \* bound: ether the contract ever holds
    GasPrices,       \* answers of the gas price oracle (an int256: may be <= 0)
    GasLimits,       \* values the owner sets for gelatoMaxGas
    GasRequirements, \* values the owner sets for internalGasRequirement
    Stakes,          \* values the owner sets for minExecutorStake
    Shares,          \* percentages the owner sets
    ExecTxOverhead,  \* EXEC_TX_OVERHEAD
    Word             \* unchecked arithmetic is modulo Word (2^256)

ASSUME SysAdminAssumption ==
    /\ NoAccount \notin Accounts /\ Owners \subseteq Accounts
    /\ Amounts \subseteq Nat /\ MaxEther \in Nat
    /\ GasPrices \subseteq Int
    /\ GasLimits \subseteq Nat /\ GasRequirements \subseteq Nat
    /\ Stakes \subseteq Nat /\ Shares \subseteq Nat
    /\ ExecTxOverhead \in Nat /\ Word \in Nat \ {0}

VARIABLES
    params,          \* what the owner sets, and what the oracle answers
    sysAdminFunds,   \* the owner's share of the fees earned so far
    gelatoBalance    \* address(this).balance

sysAdminVars == <<params, sysAdminFunds, gelatoBalance>>

Params == [owner : Accounts \cup {NoAccount}, gelatoGasPrice : Int,
           gelatoMaxGas : Nat, internalGasRequirement : Nat,
           minExecutorStake : Nat, executorSuccessShare : Nat,
           sysAdminSuccessShare : Nat, totalSuccessShare : Nat]

SysAdminTypeOK ==
    /\ params \in Params
    /\ sysAdminFunds \in Nat
    /\ gelatoBalance \in Nat

Lesser(a, b) == IF a <= b THEN a ELSE b

\* The constructor stores the three shares independently; the deployment
\* passes a total that is the sum of the other two.
SysAdminInit ==
    /\ params \in
        {[owner |-> o, gelatoGasPrice |-> p, gelatoMaxGas |-> g,
          internalGasRequirement |-> r, minExecutorStake |-> s,
          executorSuccessShare |-> x, sysAdminSuccessShare |-> y,
          totalSuccessShare |-> x + y] :
            o \in Owners, p \in GasPrices, g \in GasLimits,
            r \in GasRequirements, s \in Stakes, x \in Shares, y \in Shares}
    /\ sysAdminFunds = 0
    /\ gelatoBalance = 0

-----------------------------------------------------------------------------
(* Ether.  sendValue runs the recipient's code after the effects of the    *)
(* call: what it does is a later action, and a recipient that fails makes  *)
(* the whole call revert.                                                  *)

ReceiveValue(value) ==
    /\ gelatoBalance + value <= MaxEther
    /\ gelatoBalance' = gelatoBalance + value

SendValue(value) ==
    /\ value <= gelatoBalance
    /\ gelatoBalance' = gelatoBalance - value

-----------------------------------------------------------------------------
(* Ownership and parameters *)

OwnerSets(sender, newParams) ==
    /\ sender = params.owner
    /\ params' = newParams
    /\ UNCHANGED <<sysAdminFunds, gelatoBalance>>

TransferOwnership(sender, newOwner) ==
    /\ newOwner # NoAccount
    /\ OwnerSets(sender, [params EXCEPT !.owner = newOwner])

RenounceOwnership(sender) ==
    OwnerSets(sender, [params EXCEPT !.owner = NoAccount])

\* The price the contract sees changes when the oracle's operator sets it...
OracleAnswers(price) ==
    /\ params' = [params EXCEPT !.gelatoGasPrice = price]
    /\ UNCHANGED <<sysAdminFunds, gelatoBalance>>

\* ... and when the owner configures another oracle or other request data.
SetGelatoGasPriceOracle(sender, price) ==
    OwnerSets(sender, [params EXCEPT !.gelatoGasPrice = price])

SetGelatoMaxGas(sender, newMaxGas) ==
    OwnerSets(sender, [params EXCEPT !.gelatoMaxGas = newMaxGas])

SetInternalGasRequirement(sender, newRequirement) ==
    OwnerSets(sender, [params EXCEPT !.internalGasRequirement = newRequirement])

SetMinExecutorStake(sender, newMin) ==
    OwnerSets(sender, [params EXCEPT !.minExecutorStake = newMin])

SetExecutorSuccessShare(sender, percentage) ==
    OwnerSets(sender, [params EXCEPT
        !.executorSuccessShare = percentage,
        !.totalSuccessShare = percentage + params.sysAdminSuccessShare])

SetSysAdminSuccessShare(sender, percentage) ==
    OwnerSets(sender, [params EXCEPT
        !.sysAdminSuccessShare = percentage,
        !.totalSuccessShare = params.executorSuccessShare + percentage])

WithdrawSysAdminFunds(sender, amount) ==
    LET realWithdrawAmount == Lesser(amount, sysAdminFunds) IN
    /\ sender = params.owner
    /\ sysAdminFunds' = sysAdminFunds - realWithdrawAmount
    /\ SendValue(realWithdrawAmount)
    /\ UNCHANGED params

-----------------------------------------------------------------------------
(* Fees of a successful execution whose cost is gas * gasPrice.            *)

executorSuccessFee(gas, gasPrice) ==
    LET estExecCost == gas * gasPrice
    IN  estExecCost + (estExecCost * params.executorSuccessShare) \div 100

sysAdminSuccessFee(gas, gasPrice) ==
    LET estExecCost == gas * gasPrice
    IN  (estExecCost * params.sysAdminSuccessShare) \div 100

-----------------------------------------------------------------------------
SysAdminStep(sender) ==
    \/ \E a \in Owners : TransferOwnership(sender, a)
    \/ RenounceOwnership(sender)
    \/ \E p \in GasPrices : SetGelatoGasPriceOracle(sender, p)
    \/ \E g \in GasLimits : SetGelatoMaxGas(sender, g)
    \/ \E g \in GasRequirements : SetInternalGasRequirement(sender, g)
    \/ \E s \in Stakes : SetMinExecutorStake(sender, s)
    \/ \E s \in Shares : SetExecutorSuccessShare(sender, s)
    \/ \E s \in Shares : SetSysAdminSuccessShare(sender, s)
    \/ \E v \in Amounts : WithdrawSysAdminFunds(sender, v)
=============================================================================
