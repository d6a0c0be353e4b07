--------------------------- MODULE FeeHandlerProofs ---------------------------
(* Proofs about the fee handlers: for any denominator, any width of integers *)
(* and any number of providers, handlers and runs of the script.             *)
EXTENDS FeeHandlers, FiniteSetTheorems, TLAPS

-----------------------------------------------------------------------------
(* The fee: the share of the amount, rounded up. *)

LEMMA Division ==
  ASSUME NEW x \in Int, NEW d \in Nat \ {0}
  PROVE  /\ x \div d \in Int
         /\ (x \div d) * d <= x /\ x < (x \div d) * d + d
  OBVIOUS

LEMMA Smaller ==
  ASSUME NEW a \in Int, NEW b \in Int, NEW d \in Nat \ {0}, a * d < b * d
  PROVE  a < b
  OBVIOUS

LEMMA Product ==
  ASSUME NEW a \in Nat, NEW b \in Nat, NEW n \in Nat, NEW d \in Nat, a <= b, n <= d
  PROVE  a * n \in Nat /\ a * n <= a * d /\ a * n <= b * d
<1>1. a * n \in Nat /\ a * d \in Nat /\ b * d \in Nat
  OBVIOUS
<1>2. a * n <= a * d
  OBVIOUS
<1>3. a * d <= b * d
  OBVIOUS
<1> QED
  BY <1>1, <1>2, <1>3

\* The fee covers the provider's share, by less than one unit, and is at least
\* one and at most the amount.
LEMMA FeeBounds ==
  ASSUME FeeHandlersAssumption, NEW num \in Nat, NEW amount \in Nat,
         num <= DEN, amount * num >= 1
  PROVE  LET fee == Fee(num, amount) IN
         /\ fee \in Nat /\ fee >= 1 /\ fee <= amount
         /\ fee * DEN >= amount * num /\ (fee - 1) * DEN < amount * num
<1> DEFINE share == amount * num
           q == (share - 1) \div DEN
           fee == Fee(num, amount)
<1>1. DEN \in Nat \ {0} /\ DEN \in Nat
  BY DEF FeeHandlersAssumption
<1>2. share \in Nat /\ share >= 1 /\ share <= amount * DEN
  BY <1>1, Product
<1> HIDE DEF share
<1>3. q \in Int /\ q * DEN <= share - 1 /\ share - 1 < q * DEN + DEN
  BY <1>1, <1>2, Division
<1>4. fee = q + 1
  BY DEF Fee, share
<1> HIDE DEF q, fee
<1>5. fee * DEN = q * DEN + DEN /\ fee - 1 = q
  BY <1>1, <1>3, <1>4
<1>6. q < amount
  <2>1. q * DEN < amount * DEN
    <3>1. q * DEN \in Int /\ amount * DEN \in Int
      BY <1>1, <1>3
    <3> QED
      BY <1>2, <1>3, <3>1
  <2> QED
    BY <1>1, <1>3, <2>1, Smaller
<1>7. q >= 0
  <2>1. 0 * DEN < (q + 1) * DEN
    <3>1. (q + 1) * DEN = q * DEN + DEN /\ q * DEN \in Int
      BY <1>1, <1>3
    <3> QED
      BY <1>1, <1>2, <1>3, <3>1
  <2>2. 0 < q + 1
    BY <1>1, <1>3, <2>1, Smaller
  <2> QED
    BY <1>3, <2>2
<1>8. fee \in Nat /\ fee >= 1 /\ fee <= amount
  BY <1>3, <1>4, <1>6, <1>7
<1>9. fee * DEN >= share /\ (fee - 1) * DEN < share
  <2>1. q * DEN \in Int
    BY <1>1, <1>3
  <2> QED
    BY <1>1, <1>2, <1>3, <1>5, <2>1
<1> QED
  BY <1>8, <1>9 DEF share, fee

-----------------------------------------------------------------------------
(* The inductive invariant *)

Entries == [provider : Providers, feeNum : Nums]
Entry(p, num) == [provider |-> p, feeNum |-> num]

\* No handler takes more than everything.
HandlersOK ==
  /\ handlers \in Seq(Entries)
  /\ \A h \in Handlers : handlers[h].feeNum <= DEN

\* The map has every handler where its provider and its fee are, and no other.
MapOK ==
  /\ feeHandlerByProviderAndNum \in [Providers -> [Nums -> {0} \cup Handlers]]
  /\ \A p \in Providers, num \in Nums :
       LET h == feeHandlerByProviderAndNum[p][num] IN h # 0 => handlers[h] = Entry(p, num)
  /\ \A h \in Handlers :
       feeHandlerByProviderAndNum[handlers[h].provider][handlers[h].feeNum] = h

\* So has the list of the provider, once.
ListOK(list, p) ==
  /\ list \in Seq(Handlers)
  /\ \A i, j \in DOMAIN list : list[i] = list[j] => i = j
  /\ \A i \in DOMAIN list : handlers[list[i]].provider = p
  /\ \A h \in Handlers : handlers[h].provider = p => \E i \in DOMAIN list : list[i] = h

ListsOK ==
  /\ feeHandlersByProvider = [p \in Providers |-> feeHandlersByProvider[p]]
  /\ \A p \in Providers : ListOK(feeHandlersByProvider[p], p)

MoneyOK ==
  /\ balance \in [Accounts -> [Tokens -> Nat]]
  /\ allowance \in Nat
  /\ isWhitelistedToken \in [Providers -> SUBSET Tokens]

\* A run that has seen its transaction mined finds a handler.
RunOK(c, map, list) ==
  /\ c.pc \in {"look", "create", "sent", "mined", "done"} => c.num \in Nums
  /\ c.pc = "mined" => map[Signer][c.num] # 0
  /\ c.pc = "done" => c.handler \in 1 .. Len(list) /\ list[c.handler] = Entry(Signer, c.num)

RunNow(c) == RunOK(c, feeHandlerByProviderAndNum, handlers)
RunNext(c) == RunOK(c, feeHandlerByProviderAndNum', handlers')

Run == [pc : {"start", "look", "create", "sent", "mined", "done", "failed"},
        num : Nums \cup {0}, handler : Nat]

RunsOK ==
  /\ run \in [Runs -> Run]
  /\ \A r \in Runs : RunNow(run[r])

FeeInv == HandlersOK /\ MapOK /\ ListsOK /\ MoneyOK /\ RunsOK

LEMMA InitFees == ASSUME FeeHandlersAssumption, Init PROVE FeeInv
<1>1. Len(handlers) = 0 /\ handlers \in Seq(Entries) /\ Handlers = {}
  BY DEF Init, Handlers
<1>2. HandlersOK /\ MapOK
  BY <1>1 DEF Init, HandlersOK, MapOK
<1>3. ListsOK
  BY <1>1 DEF Init, ListsOK, ListOK
<1>4. MoneyOK
  BY DEF Init, MoneyOK, FeeHandlersAssumption
<1>5. RunsOK
  BY DEF Init, RunsOK, RunNow, RunOK, Run
<1> QED
  BY <1>2, <1>3, <1>4, <1>5 DEF FeeInv

\* What the steps that do not create a handler leave as it was.
LEMMA FactoryStays ==
  ASSUME FeeInv, UNCHANGED <<handlers, feeHandlerByProviderAndNum, feeHandlersByProvider>>
  PROVE  HandlersOK' /\ MapOK' /\ ListsOK'
<1>1. Handlers' = Handlers
  BY DEF Handlers
<1>2. HandlersOK'
  BY <1>1 DEF FeeInv, HandlersOK
<1>3. MapOK'
  BY <1>1 DEF FeeInv, MapOK
<1>4. ListsOK'
  BY <1>1 DEF FeeInv, ListsOK, ListOK
<1> QED
  BY <1>2, <1>3, <1>4

LEMMA RunsStay ==
  ASSUME FeeInv, UNCHANGED <<handlers, feeHandlerByProviderAndNum, run>>
  PROVE  RunsOK'
  BY DEF FeeInv, RunsOK, RunNow

\* A new handler is the last.
LEMMA Created ==
  ASSUME FeeHandlersAssumption, FeeInv, NEW p \in Providers, NEW num \in Nums, create(p, num)
  PROVE  /\ Len(handlers) \in Nat /\ Handlers = 1 .. Len(handlers)
         /\ Handlers' = Handlers \cup {Len(handlers) + 1}
         /\ Len(handlers) + 1 \notin Handlers /\ 0 \notin Handlers
         /\ \A h \in Handlers : handlers'[h] = handlers[h]
         /\ handlers'[Len(handlers) + 1] = Entry(p, num)
         /\ HandlersOK'
<1> DEFINE n == Len(handlers)
<1>1. /\ handlers \in Seq(Entries) /\ n \in Nat /\ Entry(p, num) \in Entries
      /\ handlers' = Append(handlers, Entry(p, num)) /\ num <= DEN
      /\ \A h \in Handlers : handlers[h].feeNum <= DEN
  BY DEF FeeInv, HandlersOK, create, Creatable, Entry, Entries
<1>2. /\ handlers' \in Seq(Entries) /\ Len(handlers') = n + 1 /\ handlers'[n + 1] = Entry(p, num)
      /\ \A h \in 1 .. n : handlers'[h] = handlers[h]
  BY <1>1
<1>3. /\ Handlers = 1 .. n /\ Handlers' = 1 .. n + 1
      /\ 1 .. n + 1 = (1 .. n) \cup {n + 1} /\ n + 1 \notin 1 .. n /\ 0 \notin 1 .. n
  BY <1>1, <1>2 DEF Handlers
<1>4. Entry(p, num).feeNum <= DEN
  BY <1>1 DEF Entry
<1>5. HandlersOK'
  BY <1>1, <1>2, <1>3, <1>4 DEF HandlersOK
<1> QED
  BY <1>1, <1>2, <1>3, <1>5

LEMMA CreateKeepsMap ==
  ASSUME FeeHandlersAssumption, FeeInv, NEW p \in Providers, NEW num \in Nums, create(p, num)
  PROVE  /\ MapOK'
         /\ feeHandlerByProviderAndNum'[p][num] # 0
         /\ \A q \in Providers, m \in Nums :
              feeHandlerByProviderAndNum[q][m] # 0 => feeHandlerByProviderAndNum'[q][m] # 0
<1> DEFINE new == Len(handlers) + 1
           map == feeHandlerByProviderAndNum
<1>1. /\ Handlers' = Handlers \cup {new} /\ new \notin Handlers /\ new # 0 /\ 0 \notin Handlers
      /\ \A h \in Handlers : handlers'[h] = handlers[h]
      /\ handlers'[new] = Entry(p, num) /\ HandlersOK'
  <2>1. Len(handlers) \in Nat
    BY Created
  <2> QED
    BY <2>1, Created
<1>2. /\ map \in [Providers -> [Nums -> {0} \cup Handlers]]
      /\ map' = [map EXCEPT ![p][num] = new] /\ map[p][num] = 0
  BY DEF FeeInv, MapOK, create, Creatable
<1> HIDE DEF new
<1>3. /\ map' \in [Providers -> [Nums -> {0} \cup Handlers']]
      /\ map'[p][num] = new
      /\ \A q \in Providers, m \in Nums : q # p \/ m # num => map'[q][m] = map[q][m]
  BY <1>1, <1>2
<1>4. ASSUME NEW q \in Providers, NEW m \in Nums, map'[q][m] # 0
      PROVE  handlers'[map'[q][m]] = Entry(q, m)
  <2>1. CASE q = p /\ m = num
    BY <1>1, <1>3, <2>1
  <2>2. CASE q # p \/ m # num
    <3>1. map'[q][m] = map[q][m] /\ map[q][m] \in Handlers
      BY <1>2, <1>3, <1>4, <2>2
    <3>2. handlers[map[q][m]] = Entry(q, m)
      BY <1>4, <3>1 DEF FeeInv, MapOK
    <3> QED
      BY <1>1, <3>1, <3>2
  <2> QED
    BY <2>1, <2>2
<1>5. ASSUME NEW h \in Handlers'
      PROVE  map'[handlers'[h].provider][handlers'[h].feeNum] = h
  <2>1. CASE h = new
    BY <1>1, <1>3, <2>1 DEF Entry
  <2>2. CASE h \in Handlers
    <3>1. /\ handlers'[h] = handlers[h] /\ map[handlers[h].provider][handlers[h].feeNum] = h
          /\ h # 0
      BY <1>1, <2>2 DEF FeeInv, MapOK
    <3>2. handlers[h].provider \in Providers /\ handlers[h].feeNum \in Nums
      <4>1. handlers \in Seq(Entries) /\ h \in 1 .. Len(handlers)
        BY <2>2 DEF FeeInv, HandlersOK, Handlers
      <4>2. handlers[h] \in Entries
        BY <4>1
      <4> QED
        BY <4>2 DEF Entries
    <3> QED
      BY <1>2, <1>3, <3>1, <3>2
  <2> QED
    BY <1>1, <2>1, <2>2
<1>6. MapOK'
  BY <1>3, <1>4, <1>5 DEF MapOK
<1>7. ASSUME NEW q \in Providers, NEW m \in Nums, map[q][m] # 0
      PROVE  map'[q][m] # 0
  BY <1>2, <1>3, <1>7
<1> QED
  BY <1>1, <1>3, <1>6, <1>7

LEMMA CreateKeepsLists ==
  ASSUME FeeHandlersAssumption, FeeInv, NEW p \in Providers, NEW num \in Nums, create(p, num)
  PROVE  ListsOK'
<1> DEFINE new == Len(handlers) + 1
           lists == feeHandlersByProvider
<1>1. /\ Handlers' = Handlers \cup {new} /\ new \notin Handlers
      /\ \A h \in Handlers : handlers'[h] = handlers[h]
      /\ handlers'[new].provider = p
  <2>1. handlers'[new] = Entry(p, num)
    BY Created
  <2> QED
    BY <2>1, Created DEF Entry
<1>2. /\ lists = [q \in Providers |-> lists[q]]
      /\ lists' = [lists EXCEPT ![p] = Append(lists[p], new)]
      /\ \A q \in Providers : ListOK(lists[q], q)
  BY DEF FeeInv, ListsOK, create
<1> HIDE DEF new
<1>3. /\ lists' = [q \in Providers |-> lists'[q]] /\ lists'[p] = Append(lists[p], new)
      /\ \A q \in Providers : q # p => lists'[q] = lists[q]
  BY <1>2
<1>4. ASSUME NEW q \in Providers, q # p PROVE ListOK(lists[q], q)'
  <2> DEFINE l == lists[q]
  <2>1. /\ l \in Seq(Handlers) /\ \A i \in DOMAIN l : l[i] \in Handlers
        /\ \A i, j \in DOMAIN l : l[i] = l[j] => i = j
        /\ \A i \in DOMAIN l : handlers[l[i]].provider = q
        /\ \A h \in Handlers : handlers[h].provider = q => \E i \in DOMAIN l : l[i] = h
    BY <1>2 DEF ListOK
  <2>2. lists'[q] = l
    BY <1>3, <1>4
  <2> HIDE DEF l
  <2>3. l \in Seq(Handlers')
    BY <1>1, <2>1
  <2>4. ASSUME NEW h \in Handlers', handlers'[h].provider = q
        PROVE  \E i \in DOMAIN l : l[i] = h
    BY <1>1, <1>4, <2>1, <2>4
  <2> QED
    BY <1>1, <2>1, <2>2, <2>3, <2>4 DEF ListOK
<1>5. ListOK(lists[p], p)'
  <2> DEFINE l == lists[p]
             m == Append(l, new)
  <2>1. /\ l \in Seq(Handlers) /\ \A i \in DOMAIN l : l[i] \in Handlers
        /\ \A i, j \in DOMAIN l : l[i] = l[j] => i = j
        /\ \A i \in DOMAIN l : handlers[l[i]].provider = p
        /\ \A h \in Handlers : handlers[h].provider = p => \E i \in DOMAIN l : l[i] = h
        /\ DOMAIN l = 1 .. Len(l) /\ Len(l) \in Nat
    BY <1>2 DEF ListOK
  <2>2. lists'[p] = m
    BY <1>3
  <2> HIDE DEF l
  <2>3. /\ m \in Seq(Handlers') /\ DOMAIN m = 1 .. Len(l) + 1 /\ m[Len(l) + 1] = new
        /\ \A i \in 1 .. Len(l) : m[i] = l[i]
    <3>1. l \in Seq(Handlers') /\ new \in Handlers'
      BY <1>1, <2>1
    <3> QED
      BY <2>1, <3>1
  <2> HIDE DEF m
  <2>4. \A i \in DOMAIN m : i \in DOMAIN l \/ i = Len(l) + 1
    BY <2>1, <2>3
  <2>5. \A i \in DOMAIN l : i \in DOMAIN m /\ m[i] = l[i]
    BY <2>1, <2>3
  <2>6. ASSUME NEW i \in DOMAIN m, NEW j \in DOMAIN m, m[i] = m[j] PROVE i = j
    BY <1>1, <2>1, <2>3, <2>4, <2>5, <2>6
  <2>7. ASSUME NEW i \in DOMAIN m PROVE handlers'[m[i]].provider = p
    BY <1>1, <2>1, <2>3, <2>4, <2>5
  <2>8. ASSUME NEW h \in Handlers', handlers'[h].provider = p
        PROVE  \E i \in DOMAIN m : m[i] = h
    <3>1. CASE h = new
      <4>1. Len(l) + 1 \in DOMAIN m
        BY <2>1, <2>3
      <4> QED
        BY <2>3, <3>1, <4>1
    <3>2. CASE h \in Handlers
      BY <1>1, <2>1, <2>5, <2>8, <3>2
    <3> QED
      BY <1>1, <3>1, <3>2
  <2> QED
    BY <2>2, <2>3, <2>6, <2>7, <2>8 DEF ListOK
<1>6. \A q \in Providers : ListOK(lists[q], q)'
  BY <1>4, <1>5
<1>7. (\A q \in Providers : ListOK(lists[q], q))'
  BY <1>6
<1> QED
  BY <1>3, <1>7 DEF ListsOK

\* What a run knows stays true when another handler is created.
LEMMA CreateKeepsRun ==
  ASSUME FeeHandlersAssumption, FeeInv, NEW p \in Providers, NEW num \in Nums, create(p, num),
         NEW c, RunNow(c)
  PROVE  RunNext(c)
<1>1. /\ Handlers' = Handlers \cup {Len(handlers) + 1}
      /\ \A h \in Handlers : handlers'[h] = handlers[h]
  BY Created
<1>2. /\ \A h \in 1 .. Len(handlers) : h \in 1 .. Len(handlers') /\ handlers'[h] = handlers[h]
  BY <1>1 DEF Handlers
<1>3. Signer \in Providers
  BY DEF FeeHandlersAssumption
<1> QED
  BY <1>2, <1>3, CreateKeepsMap DEF RunNow, RunNext, RunOK

\* What is taken from one account the other has.
LEMMA Transfers ==
  ASSUME MoneyOK, NEW token \in Tokens, NEW from \in Accounts, NEW to \in Accounts, from # to,
         NEW amount \in Nat, balance[from][token] >= amount, Transfer(token, from, to, amount)
  PROVE  /\ balance' \in [Accounts -> [Tokens -> Nat]]
         /\ balance'[from][token] = balance[from][token] - amount
         /\ balance'[to][token] = balance[to][token] + amount
<1> DEFINE less == balance[from][token] - amount
           more == balance[to][token] + amount
           f == [balance[from] EXCEPT ![token] = less]
           g == [balance[to] EXCEPT ![token] = more]
<1>1. /\ balance \in [Accounts -> [Tokens -> Nat]]
      /\ balance[from] \in [Tokens -> Nat] /\ balance[to] \in [Tokens -> Nat]
      /\ balance[from][token] \in Nat /\ balance[to][token] \in Nat
  BY DEF MoneyOK
<1>2. less \in Nat /\ more \in Nat
  BY <1>1
<1>3. balance' = [balance EXCEPT ![from] = f, ![to] = g]
  BY <1>1 DEF Transfer
<1> HIDE DEF less, more
<1>4. f \in [Tokens -> Nat] /\ g \in [Tokens -> Nat] /\ f[token] = less /\ g[token] = more
  BY <1>1, <1>2
<1> HIDE DEF f, g
<1>5. balance' \in [Accounts -> [Tokens -> Nat]] /\ balance'[from] = f /\ balance'[to] = g
  BY <1>1, <1>3, <1>4
<1> QED
  BY <1>4, <1>5 DEF less, more

\* An action that does not revert pays its fee to the provider of its handler.
LEMMA Pays ==
  ASSUME FeeHandlersAssumption, FeeInv, NEW h \in Handlers, NEW token \in Tokens,
         NEW amount \in Nat, NEW payer \in Payers, action(h, token, amount, payer)
  PROVE  LET num == handlers[h].feeNum
             fee == Fee(num, amount)
             p == handlers[h].provider
         IN /\ num \in Nat /\ num <= DEN /\ amount * num >= 1 /\ p \in Providers
            /\ balance' \in [Accounts -> [Tokens -> Nat]] /\ allowance' \in Nat
            /\ balance[payer][token] \in Nat
            /\ balance'[payer][token] = balance[payer][token] - fee
            /\ balance'[p][token] = balance[p][token] + fee
<1> DEFINE num == handlers[h].feeNum
           fee == Fee(num, amount)
           p == handlers[h].provider
<1>1. handlers[h] \in Entries /\ num <= DEN
  BY DEF FeeInv, HandlersOK, Handlers
<1>2. num \in Nat /\ p \in Providers
  BY <1>1 DEF Entries, FeeHandlersAssumption
<1>3. /\ amount * num >= 1 /\ balance[payer][token] >= fee /\ Transfer(token, payer, p, fee)
      /\ payer # Proxy => allowance >= fee
      /\ allowance' = IF payer = Proxy THEN allowance ELSE allowance - fee
  BY DEF action, Succeeds
<1>4. fee \in Nat
  BY <1>1, <1>2, <1>3, FeeBounds
<1>5. payer \in Accounts /\ p \in Accounts /\ payer # p
  BY <1>2 DEF Accounts, FeeHandlersAssumption
<1> HIDE DEF num, fee, p
<1>6. MoneyOK
  BY DEF FeeInv
<1>7. /\ balance' \in [Accounts -> [Tokens -> Nat]]
      /\ balance'[payer][token] = balance[payer][token] - fee
      /\ balance'[p][token] = balance[p][token] + fee
  BY <1>3, <1>4, <1>5, <1>6, Transfers
<1>8. allowance' \in Nat /\ balance[payer][token] \in Nat
  BY <1>3, <1>4, <1>5, <1>6 DEF MoneyOK
<1> QED
  BY <1>1, <1>2, <1>3, <1>7, <1>8 DEF num, fee, p

LEMMA OneRuns ==
  ASSUME RunsOK, NEW r \in Runs, NEW c \in Run, RunNext(c), run' = [run EXCEPT ![r] = c],
         \A d \in Run : RunNow(d) => RunNext(d)
  PROVE  RunsOK'
<1>1. /\ run' \in [Runs -> Run] /\ run'[r] = c
      /\ \A q \in Runs : q # r => run'[q] = run[q]
  BY DEF RunsOK
<1>2. ASSUME NEW q \in Runs PROVE RunNext(run'[q])
  BY <1>1 DEF RunsOK
<1>3. \A q \in Runs : RunNow(run[q])'
  BY <1>2 DEF RunNow, RunNext
<1> QED
  BY <1>1, <1>3 DEF RunsOK

\* A step of a run, while the chain stays as it is.
LEMMA RunMoves ==
  ASSUME FeeHandlersAssumption, FeeInv, NEW r \in Runs, UNCHANGED Chain,
         NEW c \in Run, RunNow(c), run' = [run EXCEPT ![r] = c]
  PROVE  FeeInv'
<1>1. HandlersOK' /\ MapOK' /\ ListsOK' /\ MoneyOK'
  BY FactoryStays DEF Chain, factoryVars, FeeInv, MoneyOK
<1>2. \A d : RunNow(d) => RunNext(d)
  BY DEF Chain, factoryVars, RunNow, RunNext
<1>3. RunsOK'
  BY <1>2, OneRuns DEF FeeInv
<1> QED
  BY <1>1, <1>3 DEF FeeInv

LEMMA ScriptSteps ==
  ASSUME FeeHandlersAssumption, FeeInv, NEW r \in Runs,
         Start(r) \/ Look(r) \/ Create(r) \/ Return(r)
  PROVE  FeeInv'
<1> DEFINE c == run[r]
           h == feeHandlerByProviderAndNum[Signer][c.num]
<1>1. /\ c \in Run /\ RunNow(c) /\ Signer \in Providers /\ UNCHANGED Chain
      /\ \A q \in Providers, m \in Nums :
           LET k == feeHandlerByProviderAndNum[q][m] IN
           /\ k \in {0} \cup Handlers
           /\ k # 0 => handlers[k] = Entry(q, m)
      /\ Handlers \subseteq Nat
  BY DEF FeeInv, RunsOK, MapOK, FeeHandlersAssumption, Start, Look, Create, Return, Handlers
<1>2. ASSUME NEW pc \in {"look", "create", "sent", "failed"}, Goto(r, pc),
             pc # "failed" => c.num \in Nums
      PROVE  FeeInv'
  <2> DEFINE d == [c EXCEPT !.pc = pc]
  <2>1. run' = [run EXCEPT ![r] = d]
    BY <1>2 DEF Goto
  <2>2. d \in Run /\ RunNow(d)
    BY <1>1, <1>2 DEF Run, RunNow, RunOK
  <2> QED
    BY <1>1, <2>1, <2>2, RunMoves
<1>3. ASSUME Done(r, h), h # 0, c.num \in Nums PROVE FeeInv'
  <2> DEFINE d == [c EXCEPT !.pc = "done", !.handler = h]
  <2>1. run' = [run EXCEPT ![r] = d]
    BY <1>3 DEF Done
  <2>2. h \in 1 .. Len(handlers) /\ handlers[h] = Entry(Signer, c.num) /\ h \in Nat
    BY <1>1, <1>3 DEF Handlers
  <2> HIDE DEF h
  <2>3. d \in Run /\ d.pc = "done" /\ d.handler = h /\ d.num = c.num
    BY <1>1, <2>2 DEF Run
  <2> HIDE DEF d
  <2>4. RunNow(d)
    BY <1>3, <2>2, <2>3 DEF RunNow, RunOK
  <2> QED
    BY <1>1, <2>1, <2>3, <2>4, RunMoves
<1>4. CASE Start(r)
  <2>1. PICK num \in Nums :
          run' = [run EXCEPT ![r].pc = IF num \in Inexact THEN "failed" ELSE "look",
                             ![r].num = num]
    BY <1>4 DEF Start
  <2> DEFINE pc == IF num \in Inexact THEN "failed" ELSE "look"
             d == [c EXCEPT !.pc = pc, !.num = num]
  <2>2. run' = [run EXCEPT ![r] = d] /\ pc \in {"failed", "look"}
    BY <2>1
  <2> HIDE DEF pc
  <2>3. d \in Run /\ d.pc = pc /\ d.num = num
    BY <1>1, <2>2 DEF Run
  <2> HIDE DEF d
  <2>4. RunNow(d)
    BY <2>2, <2>3 DEF RunNow, RunOK
  <2> QED
    BY <1>1, <2>2, <2>3, <2>4, RunMoves
<1>5. CASE Look(r)
  <2>1. c.pc = "look" /\ c.num \in Nums
    BY <1>1, <1>5 DEF Look, RunNow, RunOK
  <2> QED
    BY <1>2, <1>3, <1>5, <2>1 DEF Look
<1>6. CASE Create(r)
  <2>1. c.pc = "create" /\ c.num \in Nums
    BY <1>1, <1>6 DEF Create, RunNow, RunOK
  <2> QED
    BY <1>2, <1>6, <2>1 DEF Create
<1>7. CASE Return(r)
  <2>1. c.pc = "mined" /\ c.num \in Nums /\ h # 0
    BY <1>1, <1>7 DEF Return, RunNow, RunOK
  <2> QED
    BY <1>2, <1>3, <1>7, <2>1 DEF Return
<1> QED
  BY <1>4, <1>5, <1>6, <1>7


\* The transaction of a run, and what others do.
LEMMA MineStep ==
  ASSUME FeeHandlersAssumption, FeeInv, NEW r \in Runs, Mine(r)
  PROVE  FeeInv'
<1> DEFINE c == run[r]
<1>1. c.pc = "sent" /\ c \in Run /\ c.num \in Nums /\ RunNow(c) /\ Signer \in Providers
  BY DEF FeeInv, RunsOK, RunNow, RunOK, Mine, FeeHandlersAssumption
<1>2. CASE create(Signer, c.num) /\ Goto(r, "mined")
  <2> DEFINE d == [c EXCEPT !.pc = "mined"]
  <2>1. HandlersOK' /\ MapOK' /\ ListsOK' /\ MoneyOK'
    BY <1>1, <1>2, Created, CreateKeepsMap, CreateKeepsLists DEF FeeInv, MoneyOK, create
  <2>2. run' = [run EXCEPT ![r] = d]
    BY <1>2 DEF Goto
  <2>3. d \in Run /\ d.pc = "mined" /\ d.num = c.num
    BY <1>1 DEF Run
  <2> HIDE DEF d
  <2>4. RunNext(d)
    BY <1>1, <1>2, <2>3, CreateKeepsMap DEF RunNext, RunOK
  <2>5. \A e \in Run : RunNow(e) => RunNext(e)
    BY <1>1, <1>2, CreateKeepsRun
  <2>6. RunsOK'
    BY <2>2, <2>3, <2>4, <2>5, OneRuns DEF FeeInv
  <2> QED
    BY <2>1, <2>6 DEF FeeInv
<1>3. CASE Goto(r, "failed") /\ UNCHANGED Chain
  <2> DEFINE d == [c EXCEPT !.pc = "failed"]
  <2>1. run' = [run EXCEPT ![r] = d]
    BY <1>3 DEF Goto
  <2>2. d \in Run /\ RunNow(d)
    BY <1>1 DEF Run, RunNow, RunOK
  <2> QED
    BY <1>3, <2>1, <2>2, RunMoves
<1> QED
  BY <1>2, <1>3 DEF Mine

LEMMA CreateStep ==
  ASSUME FeeHandlersAssumption, FeeInv, NEW p \in Providers, NEW num \in Nums, create(p, num),
         UNCHANGED run
  PROVE  FeeInv'
<1>1. HandlersOK' /\ MapOK' /\ ListsOK' /\ MoneyOK'
  BY Created, CreateKeepsMap, CreateKeepsLists DEF FeeInv, MoneyOK, create
<1>2. \A r \in Runs : RunNext(run[r])
  BY CreateKeepsRun DEF FeeInv, RunsOK
<1>3. RunsOK'
  BY <1>2 DEF FeeInv, RunsOK, RunNow, RunNext
<1> QED
  BY <1>1, <1>3 DEF FeeInv

LEMMA MoneyStep ==
  ASSUME FeeInv, UNCHANGED <<handlers, feeHandlerByProviderAndNum, feeHandlersByProvider, run>>,
         MoneyOK'
  PROVE  FeeInv'
  BY FactoryStays, RunsStay DEF FeeInv

LEMMA FeeStep == ASSUME FeeHandlersAssumption, FeeInv, [Next]_vars PROVE FeeInv'
<1>1. ASSUME NEW p \in Providers, NEW tokens \in SUBSET Tokens, whitelistTokens(p, tokens)
      PROVE  FeeInv'
  <2>1. MoneyOK'
    BY <1>1 DEF whitelistTokens, FeeInv, MoneyOK
  <2> QED
    BY <1>1, <2>1, MoneyStep DEF whitelistTokens
<1>2. ASSUME NEW p \in Providers, NEW tokens \in SUBSET Tokens,
             addTokensToWhitelist(p, tokens) \/ removeTokensFromWhitelist(p, tokens)
      PROVE  FeeInv'
  <2>1. isWhitelistedToken[p] \in SUBSET Tokens
    BY DEF FeeInv, MoneyOK
  <2>2. /\ isWhitelistedToken[p] \cup tokens \in SUBSET Tokens
        /\ isWhitelistedToken[p] \ tokens \in SUBSET Tokens
    BY <2>1
  <2> QED
    BY <1>1, <1>2, <2>2 DEF addTokensToWhitelist, removeTokensFromWhitelist
<1>3. ASSUME NEW token \in Tokens, NEW amount \in Amounts, NEW payer \in Payers,
             NEW h \in Handlers, action(h, token, amount, payer)
      PROVE  FeeInv'
  <2>1. amount \in Nat
    BY DEF Amounts, FeeHandlersAssumption
  <2>2. balance' \in [Accounts -> [Tokens -> Nat]] /\ allowance' \in Nat
    BY <1>3, <2>1, Pays
  <2>3. UNCHANGED <<factoryVars, run>>
    BY <1>3 DEF action
  <2>4. MoneyOK'
    BY <2>2, <2>3 DEF FeeInv, MoneyOK, factoryVars
  <2> QED
    BY <2>3, <2>4, MoneyStep DEF factoryVars
<1>4. ASSUME NEW token \in Tokens, NEW amount \in Amounts, NEW payer \in Payers,
             NEW to \in Accounts \ {payer}, Sends(token, payer, to, amount)
      PROVE  FeeInv'
  <2>1. amount \in Nat /\ payer \in Accounts /\ MoneyOK
    BY DEF Amounts, FeeHandlersAssumption, Accounts, FeeInv
  <2>2. balance' \in [Accounts -> [Tokens -> Nat]]
    BY <1>4, <2>1, Transfers DEF Sends
  <2>3. UNCHANGED <<factoryVars, allowance, run>>
    BY <1>4 DEF Sends
  <2>4. MoneyOK'
    BY <2>1, <2>2, <2>3 DEF MoneyOK, factoryVars
  <2> QED
    BY <2>3, <2>4, MoneyStep DEF factoryVars
<1>5. ASSUME NEW amount \in Amounts, approve(amount) PROVE FeeInv'
  <2>1. amount \in Nat
    BY DEF Amounts, FeeHandlersAssumption
  <2>2. MoneyOK'
    BY <1>5, <2>1 DEF approve, FeeInv, MoneyOK, factoryVars
  <2> QED
    BY <1>5, <2>2, MoneyStep DEF approve, factoryVars
<1>6. CASE UNCHANGED vars
  <2>1. MoneyOK'
    BY <1>6 DEF vars, factoryVars, FeeInv, MoneyOK
  <2> QED
    BY <1>6, <2>1, MoneyStep DEF vars, factoryVars
<1> QED
  BY <1>2, <1>3, <1>4, <1>5, <1>6, CreateStep, ScriptSteps, MineStep DEF Next

\* The inductive invariant of the fee handlers, their factory and its script.
THEOREM FeeInvariant == ASSUME FeeHandlersAssumption PROVE Spec => []FeeInv
<1>1. Init => FeeInv
  BY InitFees
<1>2. FeeInv /\ [Next]_vars => FeeInv'
  BY FeeStep
<1> QED
  BY <1>1, <1>2, PTL DEF Spec

-----------------------------------------------------------------------------
(* What follows *)

\* What the maps and lists say of each handler is what the script relies on.
LEMMA FactoryFollows == ASSUME FeeInv PROVE FactoryAgrees
<1> SUFFICES ASSUME NEW p \in Providers
             PROVE  LET list == feeHandlersByProvider[p] IN
                    /\ IsInjective(list)
                    /\ \A h \in Handlers : handlers[h].provider = p =>
                         /\ feeHandlerByProviderAndNum[p][handlers[h].feeNum] = h
                         /\ h \in ToSet(list)
                    /\ \A h \in ToSet(list) : handlers[h].provider = p
  BY DEF FactoryAgrees
<1>1. ListOK(feeHandlersByProvider[p], p) /\ MapOK
  BY DEF FeeInv, ListsOK
<1> QED
  BY <1>1 DEF ListOK, MapOK, IsInjective, ToSet

LEMMA HandlerFollows == ASSUME FeeInv PROVE ReturnsHandler
  BY DEF FeeInv, RunsOK, RunNow, RunOK, ReturnsHandler, Handlers, Entry

\* Whoever creates handlers, and when, the factory names every handler exactly
\* once, under the provider it pays and the fee it takes.
THEOREM FactoryKeepsAgreeing == ASSUME FeeHandlersAssumption PROVE Spec => []FactoryAgrees
<1>1. FeeInv => FactoryAgrees
  BY FactoryFollows
<1> QED
  BY FeeInvariant, <1>1, PTL

\* A run that returns a handler returns that of its signer and its fee, also
\* when another run has created it in between.
THEOREM RunReturnsHandler == ASSUME FeeHandlersAssumption PROVE Spec => []ReturnsHandler
<1>1. FeeInv => ReturnsHandler
  BY HandlerFollows
<1> QED
  BY FeeInvariant, <1>1, PTL

LEMMA AcceptedFollows ==
  ASSUME FeeHandlersAssumption, FeeInv
  PROVE  AcceptedIsPayable
<1> SUFFICES ASSUME NEW h \in Handlers, NEW token \in Tokens, NEW amount \in Amounts,
                    NEW payer \in Payers, termsOk(h, token, amount, payer)
             PROVE  Succeeds(h, token, amount, payer) <=> handlers[h].feeNum # 0
  BY DEF AcceptedIsPayable
<1> DEFINE num == handlers[h].feeNum
           fee == Fee(num, amount)
\* A handler of no fee always reverts.
<1>0. ASSUME num = 0 PROVE ~ Succeeds(h, token, amount, payer)
  <2>1. amount \in Nat
    BY DEF Amounts, FeeHandlersAssumption
  <2>2. ~ (amount * num >= 1)
    BY <1>0, <2>1
  <2> QED
    BY <2>2 DEF Succeeds
<1> SUFFICES ASSUME num # 0 PROVE Succeeds(h, token, amount, payer)
  BY <1>0
<1>1. handlers[h] \in Entries /\ num <= DEN
  BY DEF FeeInv, HandlersOK, Handlers
<1>2. /\ num \in Nat /\ num # 0 /\ DEN \in Nat \ {0} /\ Supply \in Nat /\ Word \in Nat
      /\ Supply * DEN < Word /\ amount \in Nat /\ amount <= Supply /\ amount # 0
  <2>1. /\ DEN \in Nat \ {0} /\ Supply \in Nat /\ Word \in Nat /\ Supply * DEN < Word
        /\ Nums \subseteq Nat
    BY DEF FeeHandlersAssumption
  <2>2. num \in Nums
    BY <1>1 DEF Entries
  <2>3. amount \in 0 .. Supply /\ amount # 0
    BY DEF Amounts, termsOk
  <2> HIDE DEF num
  <2>4. num \in Nat /\ num # 0
    BY <2>1, <2>2
  <2>5. amount \in Nat /\ amount <= Supply
    BY <2>1, <2>3
  <2> QED
    BY ONLY <2>1, <2>3, <2>4, <2>5
<1>3. /\ balance[payer][token] \in Nat /\ balance[payer][token] >= amount /\ allowance \in Nat
      /\ payer # Proxy => token # ETH /\ allowance >= amount
  BY DEF FeeInv, MoneyOK, Accounts, termsOk, Funded
<1> HIDE DEF num
<1>4. amount * num >= 1 /\ amount * num <= Supply * DEN
  <2>1. amount * num \in Nat /\ amount * num <= Supply * DEN
    BY <1>1, <1>2, Product
  <2>2. amount * num # 0
    BY <1>2
  <2> QED
    BY <2>1, <2>2
<1>5. fee \in Nat /\ fee <= amount
  BY <1>1, <1>2, <1>4, FeeBounds
<1>6. amount * num < Word
  <2>1. amount * num \in Nat /\ Supply * DEN \in Nat
    BY <1>2
  <2> QED
    BY <1>2, <1>4, <2>1
<1> HIDE DEF fee
<1>7. /\ balance[payer][token] >= fee /\ amount >= fee
      /\ payer # Proxy => token # ETH /\ allowance >= fee
  BY <1>2, <1>3, <1>5
<1> QED
  BY <1>4, <1>6, <1>7 DEF Succeeds, num, fee

\* What termsOk accepts does not revert, for any amount, balance and allowance:
\* the product does not overflow and the fee is at most what was looked at.
\* What a handler of no fee accepts always reverts.
THEOREM AcceptedCanPay ==
  ASSUME FeeHandlersAssumption
  PROVE  Spec => []AcceptedIsPayable
<1>1. FeeInv => AcceptedIsPayable
  BY AcceptedFollows
<1> QED
  BY FeeInvariant, <1>1, PTL

\* Every action takes from its payer the share of the amount and gives it on.
FeeIsShare ==
  \A h \in Handlers, token \in Tokens, amount \in Amounts, payer \in Payers :
    action(h, token, amount, payer) =>
      LET paid == balance[payer][token] - balance'[payer][token]
          num == handlers[h].feeNum
      IN /\ paid * DEN >= amount * num
         /\ (paid - 1) * DEN < amount * num
         /\ paid <= amount
         /\ LET p == handlers[h].provider IN balance'[p][token] = balance[p][token] + paid

LEMMA SharesPaid == ASSUME FeeHandlersAssumption, FeeInv PROVE FeeIsShare
<1> SUFFICES ASSUME NEW h \in Handlers, NEW token \in Tokens, NEW amount \in Amounts,
                    NEW payer \in Payers, action(h, token, amount, payer)
             PROVE  LET paid == balance[payer][token] - balance'[payer][token]
                        num == handlers[h].feeNum
                        p == handlers[h].provider
                    IN /\ paid * DEN >= amount * num
                       /\ (paid - 1) * DEN < amount * num
                       /\ paid <= amount
                       /\ balance'[p][token] = balance[p][token] + paid
  BY DEF FeeIsShare
<1> DEFINE num == handlers[h].feeNum
           fee == Fee(num, amount)
           p == handlers[h].provider
           paid == balance[payer][token] - balance'[payer][token]
<1>1. amount \in Nat
  BY DEF Amounts, FeeHandlersAssumption
<1>2. /\ num \in Nat /\ num <= DEN /\ amount * num >= 1 /\ balance[payer][token] \in Nat
      /\ balance'[payer][token] = balance[payer][token] - fee
      /\ balance'[p][token] = balance[p][token] + fee
  BY <1>1, Pays
<1> HIDE DEF num, p
<1>3. /\ fee \in Nat /\ fee <= amount
      /\ fee * DEN >= amount * num /\ (fee - 1) * DEN < amount * num
  BY <1>1, <1>2, FeeBounds
<1> HIDE DEF fee
<1>4. paid = fee
  BY <1>2, <1>3
<1> HIDE DEF paid
<1> QED
  BY <1>2, <1>3, <1>4 DEF paid, num, p

\* Every action takes from its payer the share of the amount, rounded up and never
\* more than the amount, and gives just that to the provider of the handler.
THEOREM FeesPaidAreShares == ASSUME FeeHandlersAssumption PROVE Spec => FeesAreShares
<1>1. FeeInv => FeeIsShare
  BY SharesPaid
<1> QED
  BY FeeInvariant, <1>1, PTL DEF Spec, FeesAreShares, FeeIsShare

-----------------------------------------------------------------------------
(* Nothing is created or destroyed: every unit of a token has one owner,    *)
(* and the balance of an account is the number of its units.  No sum over   *)
(* the accounts is needed, of which there may be any number.                *)

Units == 1 .. Supply
Owned(owner, a) == {c \in Units : owner[c] = a}
Counted(amounts, owner) ==
  owner \in [Units -> Accounts] /\ \A a \in Accounts : amounts[a] = Cardinality(Owned(owner, a))

CoinsOK ==
  \A token \in Tokens : \E owner : Counted([a \in Accounts |-> balance[a][token]], owner)

\* The handler a run has found, if it has.
FoundOK == \A r \in Runs : run[r].handler <= MaxHandlers

BoundsOK == Len(handlers) <= MaxHandlers /\ allowance <= Supply /\ FoundOK

\* Of a finite set one can take as many elements as it has.
LEMMA TakeSome ==
  ASSUME NEW S, IsFiniteSet(S), NEW n \in Nat, n <= Cardinality(S)
  PROVE  \E T \in SUBSET S : Cardinality(T) = n
<1>1. Cardinality(S) \in Nat /\ ExistsBijection(1 .. Cardinality(S), S)
  BY FS_CardinalityType
<1>2. PICK f \in Bijection(1 .. Cardinality(S), S) : TRUE
  BY <1>1 DEF ExistsBijection
<1> DEFINE T == {f[i] : i \in 1 .. n}
           g == [i \in 1 .. n |-> f[i]]
<1>3. f \in [1 .. Cardinality(S) -> S] /\ 1 .. n \subseteq 1 .. Cardinality(S)
  BY <1>1, <1>2 DEF Bijection, Injection
<1>4. \A i, j \in 1 .. Cardinality(S) : f[i] = f[j] => i = j
  BY <1>2 DEF Bijection, Injection, IsInjective
<1>5. g \in Bijection(1 .. n, T)
  BY <1>3, <1>4 DEF Bijection, Injection, Surjection, IsInjective
<1>6. IsFiniteSet(1 .. n) /\ Cardinality(1 .. n) = n
  BY FS_Interval
<1>7. Cardinality(T) = n
  BY <1>5, <1>6, FS_Bijection DEF ExistsBijection
<1> QED
  BY <1>3, <1>7

\* Units that change hands: their number is what one account loses and the
\* other receives.
LEMMA UnitsMove ==
  ASSUME FeeHandlersAssumption, NEW amounts, NEW owner, Counted(amounts, owner),
         NEW from \in Accounts, NEW to \in Accounts, from # to,
         NEW amount \in Nat, amount <= amounts[from],
         NEW next, \A a \in Accounts \ {from, to} : next[a] = amounts[a],
         next[from] = amounts[from] - amount, next[to] = amounts[to] + amount
  PROVE  \E moved : Counted(next, moved)
<1> DEFINE Own(a) == Owned(owner, a)
<1>1. IsFiniteSet(Units)
  BY FS_Interval DEF Units, FeeHandlersAssumption
<1>2. \A a : IsFiniteSet(Own(a)) /\ Cardinality(Own(a)) \in Nat
  BY <1>1, FS_Subset, FS_CardinalityType DEF Owned
<1>3. PICK T \in SUBSET Own(from) : Cardinality(T) = amount
  BY <1>2, TakeSome DEF Counted
<1> DEFINE moved == [c \in Units |-> IF c \in T THEN to ELSE owner[c]]
<1>4. moved \in [Units -> Accounts] /\ T \subseteq Units
  BY <1>3 DEF Counted, Owned
<1>5. IsFiniteSet(T)
  BY <1>2, <1>3, FS_Subset
<1>6. \A a \in Accounts \ {from, to} : Owned(moved, a) = Own(a)
  BY <1>3 DEF Owned
<1>7. Cardinality(Owned(moved, from)) = amounts[from] - amount
  <2>1. Owned(moved, from) = Own(from) \ T /\ Own(from) \cap T = T
    BY <1>3, <1>4 DEF Owned
  <2>2. Cardinality(Own(from) \ T) = Cardinality(Own(from)) - Cardinality(Own(from) \cap T)
    BY <1>2, FS_Difference
  <2> QED
    BY <1>3, <2>1, <2>2 DEF Counted
<1>8. Cardinality(Owned(moved, to)) = amounts[to] + amount
  <2>1. Owned(moved, to) = Own(to) \cup T /\ Own(to) \cap T = {}
    BY <1>3, <1>4 DEF Owned
  <2>2. Cardinality(Own(to) \cup T) =
          Cardinality(Own(to)) + Cardinality(T) - Cardinality(Own(to) \cap T)
    BY <1>2, <1>5, FS_Union
  <2>3. Cardinality(Own(to)) \in Nat /\ Cardinality(Own(to) \cap T) = 0
    BY <1>2, <2>1, FS_EmptySet
  <2>4. amounts[to] = Cardinality(Own(to)) /\ Cardinality(Owned(moved, to)) = Cardinality(Own(to) \cup T)
    BY <2>1 DEF Counted
  <2> HIDE DEF Own, moved
  <2> QED
    BY <1>3, <2>2, <2>3, <2>4
<1> HIDE DEF moved
<1>9. \A a \in Accounts : next[a] = Cardinality(Owned(moved, a))
  <2> SUFFICES ASSUME NEW a \in Accounts PROVE next[a] = Cardinality(Owned(moved, a))
    OBVIOUS
  <2>1. CASE a \notin {from, to}
    BY <1>6, <2>1 DEF Counted
  <2> QED
    BY <1>7, <1>8, <2>1
<1> QED
  BY <1>4, <1>9 DEF Counted

LEMMA CoinsMove ==
  ASSUME FeeHandlersAssumption, MoneyOK, CoinsOK, NEW token \in Tokens,
         NEW from \in Accounts, NEW to \in Accounts, from # to,
         NEW amount \in Nat, balance[from][token] >= amount, Transfer(token, from, to, amount)
  PROVE  CoinsOK'
<1> DEFINE now(t) == [a \in Accounts |-> balance[a][t]]
           next(t) == [a \in Accounts |-> balance'[a][t]]
<1>1. SUFFICES ASSUME NEW t \in Tokens PROVE \E moved : Counted(next(t), moved)
  BY DEF CoinsOK
<1>2. PICK owner : Counted(now(t), owner)
  BY DEF CoinsOK
<1>3. \A a \in Accounts \ {from, to} : balance'[a] = balance[a]
  BY DEF Transfer, MoneyOK
<1>4. /\ balance[from][token] \in Nat /\ balance[to][token] \in Nat
      /\ balance'[from][token] = balance[from][token] - amount
      /\ balance'[to][token] = balance[to][token] + amount
  BY Transfers DEF MoneyOK
<1>5. CASE t = token
  <2>1. /\ \A a \in Accounts \ {from, to} : next(t)[a] = now(t)[a]
        /\ next(t)[from] = now(t)[from] - amount
        /\ next(t)[to] = now(t)[to] + amount
        /\ amount <= now(t)[from]
    BY <1>3, <1>4, <1>5
  <2> HIDE DEF now, next
  <2> QED
    BY <1>2, <2>1, UnitsMove
<1>6. CASE t # token
  <2>1. balance'[from][t] = balance[from][t] /\ balance'[to][t] = balance[to][t]
    BY <1>6 DEF Transfer, MoneyOK
  <2>2. next(t) = now(t)
    BY <1>3, <2>1
  <2> QED
    BY <1>2, <2>2
<1> QED
  BY <1>5, <1>6

\* What a handler receives is a share, so what is left of an allowance is less.
LEMMA ActionMoves ==
  ASSUME FeeHandlersAssumption, FeeInv, CoinsOK, BoundsOK, NEW h \in Handlers,
         NEW token \in Tokens, NEW amount \in Nat, NEW payer \in Payers,
         action(h, token, amount, payer)
  PROVE  CoinsOK' /\ BoundsOK'
<1> DEFINE num == handlers[h].feeNum
           fee == Fee(num, amount)
           p == handlers[h].provider
<1>1. /\ num \in Nat /\ num <= DEN /\ amount * num >= 1 /\ p \in Providers
      /\ allowance' \in Nat
  BY Pays
<1>2. /\ balance[payer][token] >= fee /\ Transfer(token, payer, p, fee)
      /\ allowance' = IF payer = Proxy THEN allowance ELSE allowance - fee
      /\ UNCHANGED <<handlers, run>>
  BY DEF action, Succeeds, factoryVars
<1> HIDE DEF num
<1>3. fee \in Nat
  BY <1>1, FeeBounds
<1>4. payer \in Accounts /\ p \in Accounts /\ payer # p
  BY <1>1 DEF Accounts, FeeHandlersAssumption
<1> HIDE DEF fee, p
<1>5. CoinsOK'
  BY <1>2, <1>3, <1>4, CoinsMove DEF FeeInv
<1>6. BoundsOK'
  <2>1. allowance \in Nat /\ Supply \in Nat
    BY DEF FeeInv, MoneyOK, FeeHandlersAssumption
  <2> QED
    BY <1>2, <1>3, <2>1 DEF BoundsOK, FoundOK
<1> QED
  BY <1>5, <1>6

\* A run finds a handler that is there.
LEMMA RunFinds ==
  ASSUME FeeHandlersAssumption, FeeInv, BoundsOK, NEW r \in Runs,
         Start(r) \/ Look(r) \/ Create(r) \/ Return(r) \/ Mine(r)
  PROVE  FoundOK'
<1> DEFINE h == feeHandlerByProviderAndNum[Signer][run[r].num]
<1>1. /\ run \in [Runs -> Run] /\ RunNow(run[r]) /\ Signer \in Providers
      /\ Len(handlers) \in Nat /\ Len(handlers) <= MaxHandlers /\ MaxHandlers \in Nat
      /\ \A q \in Runs : run[q].handler <= MaxHandlers
  BY DEF FeeInv, RunsOK, HandlersOK, BoundsOK, FoundOK, FeeHandlersAssumption
<1>2. ASSUME run[r].num \in Nums PROVE h <= MaxHandlers
  BY <1>1, <1>2 DEF FeeInv, MapOK, Handlers
<1> HIDE DEF h
<1>3. ASSUME NEW pc, Goto(r, pc) PROVE FoundOK'
  BY <1>1, <1>3 DEF Goto, FoundOK, Run
<1>4. ASSUME Done(r, h), run[r].num \in Nums PROVE FoundOK'
  <2>1. \A q \in Runs : run'[q].handler = IF q = r THEN h ELSE run[q].handler
    BY <1>1, <1>4 DEF Done, Run
  <2> QED
    BY <1>1, <1>2, <1>4, <2>1 DEF FoundOK
<1>5. CASE Start(r)
  <2>1. PICK pc, num : run' = [run EXCEPT ![r].pc = pc, ![r].num = num]
    BY <1>5 DEF Start
  <2>2. \A q \in Runs : run'[q].handler = run[q].handler
    BY <1>1, <2>1 DEF Run
  <2> QED
    BY <1>1, <2>2 DEF FoundOK
<1>6. CASE Look(r)
  BY <1>1, <1>3, <1>4, <1>6 DEF Look, RunNow, RunOK, h
<1>7. CASE Create(r)
  BY <1>3, <1>7 DEF Create
<1>8. CASE Return(r)
  BY <1>1, <1>3, <1>4, <1>8 DEF Return, RunNow, RunOK, h
<1>9. CASE Mine(r)
  BY <1>3, <1>9 DEF Mine
<1> QED
  BY <1>5, <1>6, <1>7, <1>8, <1>9

LEMMA CoinsStep ==
  ASSUME FeeHandlersAssumption, FeeInv, CoinsOK, BoundsOK, [Next]_vars
  PROVE  CoinsOK' /\ BoundsOK'
<1>1. Len(handlers) \in Nat /\ Supply \in Nat /\ allowance \in Nat /\ MaxHandlers \in Nat
  BY DEF FeeInv, HandlersOK, MoneyOK, FeeHandlersAssumption
<1>2. ASSUME UNCHANGED balance PROVE CoinsOK'
  BY <1>2 DEF CoinsOK
<1>3. ASSUME NEW p, NEW num, create(p, num)
      PROVE  CoinsOK' /\ Len(handlers') <= MaxHandlers /\ allowance' <= Supply
  <2>1. handlers \in Seq(Entries) /\ UNCHANGED <<balance, allowance>>
    BY <1>3 DEF create, FeeInv, HandlersOK
  <2>2. Len(handlers') = Len(handlers) + 1 /\ Len(handlers) < MaxHandlers
    BY <1>3, <2>1 DEF create
  <2> QED
    BY <1>1, <1>2, <2>1, <2>2 DEF BoundsOK
<1>4. ASSUME NEW p \in Providers, NEW num \in Nums, create(p, num), UNCHANGED run
      PROVE  CoinsOK' /\ BoundsOK'
  BY <1>3, <1>4 DEF BoundsOK, FoundOK
<1>5. ASSUME NEW p, NEW tokens,
             addTokensToWhitelist(p, tokens) \/ removeTokensFromWhitelist(p, tokens)
      PROVE  CoinsOK' /\ BoundsOK'
  BY <1>2, <1>5
  DEF addTokensToWhitelist, removeTokensFromWhitelist, whitelistTokens, BoundsOK, FoundOK
<1>6. ASSUME NEW token \in Tokens, NEW amount \in Amounts, NEW payer \in Payers,
             NEW to \in Accounts \ {payer}, Sends(token, payer, to, amount)
      PROVE  CoinsOK' /\ BoundsOK'
  <2>1. amount \in Nat /\ payer \in Accounts /\ to \in Accounts /\ payer # to /\ MoneyOK
    BY <1>1 DEF Amounts, Accounts, FeeInv
  <2>2. CoinsOK'
    BY <1>6, <2>1, CoinsMove DEF Sends
  <2> QED
    BY <1>6, <2>2 DEF Sends, BoundsOK, FoundOK, factoryVars
<1>7. ASSUME NEW amount \in Amounts, approve(amount) PROVE CoinsOK' /\ BoundsOK'
  BY <1>1, <1>2, <1>7 DEF approve, BoundsOK, FoundOK, Amounts, factoryVars
<1>8. ASSUME NEW r \in Runs, Start(r) \/ Look(r) \/ Create(r) \/ Mine(r) \/ Return(r)
      PROVE  CoinsOK' /\ BoundsOK'
  <2>1. FoundOK'
    BY <1>8, RunFinds
  <2>2. CASE UNCHANGED Chain
    BY <1>2, <2>1, <2>2 DEF BoundsOK, Chain, factoryVars
  <2>3. CASE create(Signer, run[r].num)
    BY <1>3, <2>1, <2>3 DEF BoundsOK
  <2> QED
    BY <1>8, <2>2, <2>3 DEF Start, Look, Create, Mine, Return
<1>9. CASE UNCHANGED vars
  BY <1>2, <1>9 DEF vars, factoryVars, BoundsOK, FoundOK
<1>10. ASSUME NEW token \in Tokens, NEW amount \in Amounts, NEW payer \in Payers,
              NEW h \in Handlers, action(h, token, amount, payer)
       PROVE  CoinsOK' /\ BoundsOK'
  BY <1>1, <1>10, ActionMoves DEF Amounts
<1> QED
  BY <1>4, <1>5, <1>6, <1>7, <1>8, <1>9, <1>10 DEF Next

LEMMA CoinsInit == ASSUME FeeHandlersAssumption, Init PROVE CoinsOK /\ BoundsOK
<1> DEFINE owner == [c \in Units |-> User]
<1>1. User \in Accounts /\ Supply \in Nat /\ MaxHandlers \in Nat
  BY DEF FeeHandlersAssumption, Accounts, Payers
<1>2. Owned(owner, User) = Units /\ \A a \in Accounts \ {User} : Owned(owner, a) = {}
  BY DEF Owned
<1>3. Cardinality(Units) = Supply /\ Cardinality({}) = 0
  BY <1>1, FS_Interval, FS_EmptySet DEF Units
<1>4. ASSUME NEW t \in Tokens PROVE Counted([a \in Accounts |-> balance[a][t]], owner)
  <2>1. \A a \in Accounts : balance[a][t] = IF a = User THEN Supply ELSE 0
    BY DEF Init
  <2>2. owner \in [Units -> Accounts]
    BY <1>1
  <2> HIDE DEF owner
  <2> QED
    BY <1>2, <1>3, <2>1, <2>2 DEF Counted
<1>5. CoinsOK
  BY <1>4 DEF CoinsOK
<1> QED
  BY <1>1, <1>5 DEF Init, BoundsOK, FoundOK

LEMMA FeeTypes ==
  ASSUME FeeHandlersAssumption, FeeInv, CoinsOK, BoundsOK
  PROVE  TypeOK
<1>1. Supply \in Nat /\ MaxHandlers \in Nat /\ Len(handlers) \in Nat
  BY DEF FeeHandlersAssumption, FeeInv, HandlersOK
<1>2. \A a \in Accounts, token \in Tokens : balance[a][token] <= Supply
  <2> SUFFICES ASSUME NEW a \in Accounts, NEW token \in Tokens
               PROVE  balance[a][token] <= Supply
    OBVIOUS
  <2>1. PICK owner : Counted([b \in Accounts |-> balance[b][token]], owner)
    BY DEF CoinsOK
  <2>2. balance[a][token] = Cardinality(Owned(owner, a))
    BY <2>1 DEF Counted
  <2>3. IsFiniteSet(Units) /\ Cardinality(Units) = Supply
    BY SMTT(40), <1>1, FS_Interval DEF Units
  <2> QED
    BY <2>2, <2>3, FS_Subset DEF Owned
<1>3. balance \in [Accounts -> [Tokens -> Amounts]] /\ allowance \in Amounts
  BY <1>1, <1>2 DEF FeeInv, MoneyOK, BoundsOK, Amounts
<1>4. /\ handlers \in Seq([provider : Providers, feeNum : Nums])
      /\ isWhitelistedToken \in [Providers -> SUBSET Tokens]
  BY DEF FeeInv, HandlersOK, MoneyOK, Entries
<1>5. feeHandlerByProviderAndNum \in [Providers -> [Nums -> 0 .. MaxHandlers]]
  <2>1. {0} \cup Handlers \subseteq 0 .. MaxHandlers
    BY <1>1 DEF Handlers, BoundsOK
  <2> QED
    BY <2>1 DEF FeeInv, MapOK
<1>6. feeHandlersByProvider \in [Providers -> Seq(Handlers)]
  BY DEF FeeInv, ListsOK, ListOK
<1>7. \A r \in Runs : run[r].num \in Nums \cup {0} /\ run[r].handler \in 0 .. MaxHandlers
  BY <1>1 DEF FeeInv, RunsOK, Run, BoundsOK, FoundOK
<1> QED
  BY <1>3, <1>4, <1>5, <1>6, <1>7 DEF TypeOK, BoundsOK

\* Fees and transfers only move what there is: at no time has an account more
\* than the supply, for any number of providers and handlers.
THEOREM FeeTypeCorrect == ASSUME FeeHandlersAssumption PROVE Spec => []TypeOK
<1>1. Init => CoinsOK /\ BoundsOK
  BY CoinsInit
<1>2. FeeInv /\ CoinsOK /\ BoundsOK /\ [Next]_vars => CoinsOK' /\ BoundsOK'
  BY CoinsStep
<1>3. FeeInv /\ CoinsOK /\ BoundsOK => TypeOK
  BY FeeTypes
<1> QED
  BY FeeInvariant, <1>1, <1>2, <1>3, PTL DEF Spec
=============================================================================
