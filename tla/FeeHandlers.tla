----------------------------- MODULE FeeHandlers -----------------------------
(***************************************************************************)
(* FeeHandlerFactory and the ActionFeeHandlers it creates: a provider has  *)
(* one for every fee, and tasks that run its action through a user proxy   *)
(* pay the fee to the provider.  gelato-get-fee-handler looks for the      *)
(* handler of a fee, or creates it; runs of it race with each other.       *)
(*                                                                         *)
(* A handler is known by its place in the order of creation.  Tokens are   *)
(* standard ERC20 tokens, or ether.                                        *)
(***************************************************************************)
EXTENDS Integers, Sequences, SequencesExt

CONSTANTS Providers,   \* accounts that create handlers
          Signer,      \* the one the script signs for
          Proxy, User, \* a user proxy and another account that may pay the fee
          ETH, ERC20,  \* the tokens
          DEN,         \* the denominator of fees
          Word,        \* integers are below it
          Nums,        \* bound: the numerators that are asked for
          Supply,      \* bound: of each token, all the user's in the beginning
          MaxHandlers, \* bound: handlers
          Runs,        \* runs of the script
          Inexact      \* numerators of fees that are no integer in floating point

Tokens == {ETH, ERC20}
Payers == {Proxy, User}
Accounts == Payers \cup Providers

(* No amount that exists, times the denominator, overflows.                *)
FeeHandlersAssumption ==
  /\ Signer \in Providers /\ ETH # ERC20 /\ Proxy # User /\ Payers \cap Providers = {}
  /\ DEN \in Nat \ {0} /\ {Supply, Word} \subseteq Nat /\ Supply * DEN < Word
  /\ Nums \subseteq Nat /\ Inexact \subseteq Nums /\ MaxHandlers \in Nat

VARIABLES handlers,                   \* provider and feeNum of every handler
          feeHandlerByProviderAndNum, \* the factory's maps; 0 is no handler
          feeHandlersByProvider,
          isWhitelistedToken,
          balance,                    \* of each account, by token
          allowance,                  \* ERC20 of the user that the proxy may transfer
          run                         \* the runs of the script

factoryVars == <<handlers, feeHandlerByProviderAndNum, feeHandlersByProvider, isWhitelistedToken>>
vars == <<factoryVars, balance, allowance, run>>

Handlers == 1 .. Len(handlers)

Init ==
  /\ handlers = <<>>
  /\ feeHandlerByProviderAndNum = [p \in Providers |-> [num \in Nums |-> 0]]
  /\ feeHandlersByProvider = [p \in Providers |-> <<>>]
  /\ isWhitelistedToken = [p \in Providers |-> {}]
  /\ balance = [a \in Accounts |-> [t \in Tokens |-> IF a = User THEN Supply ELSE 0]]
  /\ allowance = 0
  /\ run = [r \in Runs |-> [pc |-> "start", num |-> 0, handler |-> 0]]

----------------------------------------------------------------------------
(* FeeHandlerFactory *)

Creatable(p, num) == feeHandlerByProviderAndNum[p][num] = 0 /\ num <= DEN

create(p, num) ==
  /\ Creatable(p, num)
  /\ Len(handlers) < MaxHandlers
  /\ handlers' = Append(handlers, [provider |-> p, feeNum |-> num])
  /\ feeHandlerByProviderAndNum' = [feeHandlerByProviderAndNum EXCEPT ![p][num] = Len(handlers) + 1]
  /\ feeHandlersByProvider' = [feeHandlersByProvider EXCEPT ![p] = Append(@, Len(handlers) + 1)]
  /\ UNCHANGED <<isWhitelistedToken, balance, allowance>>

whitelistTokens(p, tokens) ==
  /\ isWhitelistedToken' = [isWhitelistedToken EXCEPT ![p] = tokens]
  /\ UNCHANGED <<handlers, feeHandlerByProviderAndNum, feeHandlersByProvider, balance, allowance, run>>

(* addTokensToWhitelist and removeTokensFromWhitelist. *)
addTokensToWhitelist(p, tokens) == whitelistTokens(p, isWhitelistedToken[p] \cup tokens)
removeTokensFromWhitelist(p, tokens) == whitelistTokens(p, isWhitelistedToken[p] \ tokens)

----------------------------------------------------------------------------
(* ActionFeeHandler *)

\* Variant: the fee is rounded down.
FeeDown(num, amount) == (amount * num) \div DEN

(* Rounded up: one is subtracted before the division and added after it.   *)
Fee(num, amount) == ((amount * num) - 1) \div DEN + 1

\* Variant: the balance has to be more than nothing.
FundedAny(token, amount, payer) == balance[payer][token] > 0

Funded(token, amount, payer) ==
  /\ balance[payer][token] >= amount
  /\ payer # Proxy => token # ETH /\ allowance >= amount

(* termsOk, for an action without inbound data flow. *)
termsOk(h, token, amount, payer) ==
  /\ amount # 0
  /\ token \in isWhitelistedToken[handlers[h].provider]
  /\ Funded(token, amount, payer)

(* The requirements of action and of the transfer it makes. *)
Succeeds(h, token, amount, payer) ==
  LET num == handlers[h].feeNum
      fee == Fee(num, amount)
  IN /\ amount * num < Word /\ amount * num >= 1
     /\ balance[payer][token] >= fee
     /\ payer # Proxy => token # ETH /\ allowance >= fee
     /\ amount >= fee

Transfer(token, from, to, amount) ==
  balance' = [balance EXCEPT ![from][token] = @ - amount, ![to][token] = @ + amount]

(* The user proxy delegates to action: in a task, checked by termsOk or    *)
(* not, or because its user says so.  One that fails reverts.              *)
action(h, token, amount, payer) ==
  LET fee == Fee(handlers[h].feeNum, amount) IN
  /\ Succeeds(h, token, amount, payer)
  /\ Transfer(token, payer, handlers[h].provider, fee)
  /\ allowance' = IF payer = Proxy THEN allowance ELSE allowance - fee
  /\ UNCHANGED <<factoryVars, run>>

----------------------------------------------------------------------------
(* The user *)

approve(amount) ==
  /\ allowance' = amount
  /\ UNCHANGED <<factoryVars, balance, run>>

Sends(token, from, to, amount) ==
  /\ balance[from][token] >= amount
  /\ Transfer(token, from, to, amount)
  /\ UNCHANGED <<factoryVars, allowance, run>>

----------------------------------------------------------------------------
(* gelato-get-fee-handler *)

Chain == <<factoryVars, balance, allowance>>

Goto(r, pc) == run' = [run EXCEPT ![r].pc = pc]
Done(r, h) == run' = [run EXCEPT ![r].pc = "done", ![r].handler = h]

(* The percentage is multiplied by 100, which for some is not the integer  *)
(* it should be, and is refused when it is encoded.                        *)
Start(r) ==
  /\ run[r].pc = "start"
  /\ \E num \in Nums :
       run' = [run EXCEPT ![r].pc = IF num \in Inexact THEN "failed" ELSE "look", ![r].num = num]
  /\ UNCHANGED Chain

(* Any call of the node may fail. *)
Look(r) ==
  /\ run[r].pc = "look"
  /\ LET h == feeHandlerByProviderAndNum[Signer][run[r].num] IN
       \/ h # 0 /\ Done(r, h)
       \/ h = 0 /\ Goto(r, "create")
       \/ Goto(r, "failed")
  /\ UNCHANGED Chain

\* Variant: the script tries again and again until create is accepted.
CreateRetried(r) ==
  /\ run[r].pc = "create"
  /\ Creatable(Signer, run[r].num) /\ Goto(r, "sent")
  /\ UNCHANGED Chain

(* create, unless it would revert, which the node's estimate tells.        *)
Create(r) ==
  /\ run[r].pc = "create"
  /\ \/ Creatable(Signer, run[r].num) /\ Goto(r, "sent")
     \/ Goto(r, "failed")
  /\ UNCHANGED Chain

(* The transaction is mined; it reverts if another has come before.        *)
Mine(r) ==
  /\ run[r].pc = "sent"
  /\ \/ create(Signer, run[r].num) /\ Goto(r, "mined")
     \/ ~ Creatable(Signer, run[r].num) /\ Goto(r, "failed") /\ UNCHANGED Chain

Return(r) ==
  /\ run[r].pc = "mined"
  /\ \/ Done(r, feeHandlerByProviderAndNum[Signer][run[r].num])
     \/ Goto(r, "failed")
  /\ UNCHANGED Chain

----------------------------------------------------------------------------
Amounts == 0 .. Supply

Next ==
  \/ \E p \in Providers :
       \/ \E num \in Nums : create(p, num) /\ UNCHANGED run
       \/ \E tokens \in SUBSET Tokens :
            addTokensToWhitelist(p, tokens) \/ removeTokensFromWhitelist(p, tokens)
  \/ \E token \in Tokens, amount \in Amounts, payer \in Payers :
       \/ \E h \in Handlers : action(h, token, amount, payer)
       \/ \E to \in Accounts \ {payer} : Sends(token, payer, to, amount)
  \/ \E amount \in Amounts : approve(amount)
  \/ \E r \in Runs : Start(r) \/ Look(r) \/ Create(r) \/ Mine(r) \/ Return(r)

Fairness ==
  \A r \in Runs : /\ WF_vars(Start(r)) /\ WF_vars(Look(r)) /\ WF_vars(Create(r))
                  /\ WF_vars(Mine(r)) /\ WF_vars(Return(r))

Spec == Init /\ [][Next]_vars /\ Fairness

----------------------------------------------------------------------------
(* Properties *)

(* Types; nothing is created or destroyed but handlers. *)
TypeOK ==
  /\ handlers \in Seq([provider : Providers, feeNum : Nums]) /\ Len(handlers) <= MaxHandlers
  /\ feeHandlerByProviderAndNum \in [Providers -> [Nums -> 0 .. MaxHandlers]]
  /\ feeHandlersByProvider \in [Providers -> Seq(Handlers)]
  /\ isWhitelistedToken \in [Providers -> SUBSET Tokens]
  /\ balance \in [Accounts -> [Tokens -> Amounts]] /\ allowance \in Amounts
  /\ \A r \in Runs : run[r].num \in Nums \cup {0} /\ run[r].handler \in 0 .. MaxHandlers

(* The map and the lists of the factory have every handler exactly once,   *)
(* under the provider it pays and the fee it takes: the script and the     *)
(* tasks that ask the factory never pay a stranger, whoever creates        *)
(* handlers at the same time.                                              *)
FactoryAgrees ==
  \A p \in Providers :
    /\ IsInjective(feeHandlersByProvider[p])
    /\ \A h \in Handlers : handlers[h].provider = p =>
         /\ feeHandlerByProviderAndNum[p][handlers[h].feeNum] = h
         /\ h \in ToSet(feeHandlersByProvider[p])
    /\ \A h \in ToSet(feeHandlersByProvider[p]) : handlers[h].provider = p

(* What termsOk accepts does not revert, so that an execution the provider *)
(* pays for does not fail at the fee - but for a handler of no fee, which  *)
(* the factory creates like any other and whose action always reverts.     *)
AcceptedIsPayable ==
  \A h \in Handlers, token \in Tokens, amount \in Amounts, payer \in Payers :
    termsOk(h, token, amount, payer) =>
      (Succeeds(h, token, amount, payer) <=> handlers[h].feeNum # 0)

(* IGelatoAction: termsOk is for "pre-execution sanity checks, to prevent  *)
(* reverts", and returns OK if the task can be executed safely.            *)
AcceptedSucceeds ==
  \A h \in Handlers, token \in Tokens, amount \in Amounts, payer \in Payers :
    termsOk(h, token, amount, payer) => Succeeds(h, token, amount, payer)

(* What the payer loses by an action is the share of the amount, rounded   *)
(* up and never more than the amount, and the provider has it.             *)
FeesAreShares ==
  [][\A h \in Handlers, token \in Tokens, amount \in Amounts, payer \in Payers :
       action(h, token, amount, payer) =>
         LET paid == balance[payer][token] - balance'[payer][token]
             num == handlers[h].feeNum
         IN /\ paid * DEN >= amount * num
            /\ (paid - 1) * DEN < amount * num
            /\ paid <= amount
            /\ LET p == handlers[h].provider IN balance'[p][token] = balance[p][token] + paid]_vars

(* A run returns the handler of its signer and its fee. *)
ReturnsHandler ==
  \A r \in Runs : run[r].pc = "done" =>
    /\ run[r].handler \in Handlers
    /\ handlers[run[r].handler] = [provider |-> Signer, feeNum |-> run[r].num]

Busy(r) == run[r].pc \notin {"done", "failed"}
=============================================================================
