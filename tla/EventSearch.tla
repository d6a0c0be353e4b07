----------------------------- MODULE EventSearch -----------------------------
(***************************************************************************)
(* The scripts that look for event logs (buidler/tasks/events): one event  *)
(* or all events of a contract, in a range of blocks, in one block named   *)
(* by its hash, or of one transaction, raw or parsed and filtered.         *)
(*                                                                         *)
(* A search for all events asks the node once per event, while the chain   *)
(* grows and its last block may be replaced by another.  Each block has    *)
(* one transaction, which is named like the block.  An error is printed by *)
(* the script that meets it, which then returns undefined.                 *)
(***************************************************************************)
EXTENDS Naturals, Sequences

CONSTANTS Kinds,         \* the scripts that are run
          MaxBlocks,     \* bound: blocks ever mined on top of the first
          MaxLogs,       \* bound: logs in a block
          Numbers,       \* block numbers the command line may name
          Values,        \* bound: values of the property the filters are about
          DefaultFrom    \* filters.defaultFromBlock of the network

EventSearchAssumption ==
  /\ Kinds \subseteq {"getLog", "getLogs", "allEvents", "parsedLog", "parsedLogs", "parsedAll"}
  /\ {MaxBlocks, MaxLogs, DefaultFrom} \subseteq Nat
  /\ Numbers \subseteq Nat
  /\ Values \subseteq {1, 2}

VARIABLES chain,    \* the blocks: what names each, and its logs
          mined,    \* how many blocks were ever mined
          args,     \* the arguments of the search
          pc,       \* where it is
          found,    \* the logs it has found, event by event
          result,   \* what it returned
          before    \* the logs of the chain when it was started

search == <<args, pc, found, result>>
vars == <<chain, mined, search, before>>

None == 99         \* an argument that is not given
Undefined == [ok |-> FALSE, logs |-> {}]
Logs(logs) == [ok |-> TRUE, logs |-> logs]

(* The events of the contract, and the properties of a log: "b" lacks the  *)
(* property the filters are about.                                         *)
Events == <<"a", "b">>
Contents == [event : {"a"}, value : Values] \cup {[event |-> "b", value |-> None]}

Block(name, contents) ==
  [name |-> name,
   logs |-> {[block |-> name, index |-> i, event |-> contents[i].event,
              value |-> contents[i].value] : i \in DOMAIN contents}]

LogsOf(blocks) == UNION {blocks[i].logs : i \in DOMAIN blocks}

----------------------------------------------------------------------------
(* Arguments *)

NoFilter == [values |-> FALSE, property |-> FALSE, key |-> FALSE, value |-> None,
             stringify |-> FALSE, strcmp |-> FALSE]
Parses(kind) == kind \in {"parsedLog", "parsedLogs", "parsedAll"}
AllEvents(kind) == kind \in {"allEvents", "parsedAll"}
OneLog(kind) == kind \in {"getLog", "parsedLog"}

(* The events a search asks for, one after the other. *)
EventsOf(a) == IF AllEvents(a.kind) THEN Events ELSE <<a.event>>

FilterArgs(kind) ==
  IF Parses(kind) THEN [values : BOOLEAN, property : BOOLEAN, key : BOOLEAN,
                        value : {None, 1}, stringify : BOOLEAN, strcmp : BOOLEAN]
  ELSE {NoFilter}

(* What the scripts that parse refuse. *)
BadFilter(f) ==
  \/ f.property /\ f.values
  \/ f.value # None /\ ~ f.key /\ ~ f.property
  \/ f.key /\ ~ f.values
  \/ f.stringify /\ ~ f.values /\ f.value = None /\ ~ f.property

(* Numbers are tested like any other value: 0 counts as not given. *)
Truthy(number) == number \notin {None, 0}

BadRange(a) ==
  \/ Truthy(a.from) /\ Truthy(a.to) /\ a.from > a.to
  \/ (Truthy(a.from) \/ Truthy(a.to)) /\ a.block # None

(* The range of a query, which ends with the latest block if no end is     *)
(* given: the block at place i has number i - 1.                           *)
Covers(a, i) ==
  /\ (IF a.from = None THEN DefaultFrom ELSE a.from) <= i - 1
  /\ Truthy(a.to) => i - 1 <= a.to

(* provider.getLogs: the logs of one event. *)
Query(a, event) ==
  LET asked == {i \in DOMAIN chain :
                  IF a.block # None THEN chain[i].name = a.block ELSE Covers(a, i)}
  IN  {l \in UNION {chain[i].logs : i \in asked} : l.event = event}

\* Variant: an unknown block has no logs.
RefusedNever(a) == a.block # None /\ a.from = 0

(* The node knows no block of that name, or is given a block and a range.  *)
Refused(a) ==
  a.block # None /\ (\/ a.from = 0
                     \/ \A i \in DOMAIN chain : chain[i].name # a.block)

(* Array.find on the transaction's name: the first log, if there is one.   *)
FirstOfTx(logs, tx) ==
  {l \in logs : l.block = tx /\ \A k \in logs : k.block = tx => l.index <= k.index}

----------------------------------------------------------------------------
(* Parsing and filtering *)

Has(l) == l.value # None

Matches(l, f) == f.value = None \/ l.value = f.value

(* `undefined`.toString() throws, and with it goes the whole search. *)
Throws(logs, f) ==
  f.property /\ \E l \in logs :
    /\ ~ Has(l)
    /\ \/ f.value # None /\ f.strcmp
       \/ f.value = None /\ f.stringify

Filtered(logs, f) ==
  CASE f.values /\ f.key -> {l \in logs : Has(l) /\ Matches(l, f)}
    [] f.property -> {l \in logs : Matches(l, f)}
    [] OTHER -> logs

(* What a script returns for the logs it has found: event-getlog and       *)
(* event-getparsedlog make an error of none, event-getparsedlogs of none   *)
(* before it has filtered them.                                            *)
Return(kind, logs, f) ==
  IF ~ Parses(kind)
  THEN IF OneLog(kind) /\ logs = {} THEN Undefined ELSE Logs(logs)
  ELSE IF logs = {} THEN IF kind = "parsedAll" THEN Logs({}) ELSE Undefined
  ELSE IF Throws(logs, f) THEN Undefined
  ELSE IF kind = "parsedLog" /\ Filtered(logs, f) = {} THEN Undefined
  ELSE Logs(Filtered(logs, f))

----------------------------------------------------------------------------
(* The search *)

Init ==
  /\ chain = <<Block(0, <<>>)>>
  /\ mined = 0
  /\ args = [kind |-> "getLogs", from |-> None, to |-> None, block |-> None,
             tx |-> None, event |-> "a", filter |-> NoFilter]
  /\ pc = "idle" /\ found = <<>> /\ result = Undefined
  /\ before = {}

Fail == result' = Undefined /\ pc' = "done" /\ UNCHANGED found

(* The command line names numbers of blocks, and blocks by their hash.     *)
(* Only the search for one log needs a transaction; a search for one event *)
(* has no use for it.                                                      *)
Start(kind, numbers, names) ==
  /\ pc = "idle"
  /\ \E from, to \in numbers \cup {None}, block, tx \in names \cup {None},
        event \in {"a", "b"}, filter \in FilterArgs(kind) :
       /\ OneLog(kind) => tx # None
       /\ kind \in {"getLogs", "parsedLogs"} => tx = None
       /\ AllEvents(kind) => event = "a"
       /\ args' = [kind |-> kind, from |-> from, to |-> to, block |-> block, tx |-> tx,
                   event |-> event, filter |-> filter]
       /\ IF (Parses(kind) /\ BadFilter(filter)) \/ BadRange(args')
          THEN Fail
          ELSE pc' = "query" /\ UNCHANGED <<found, result>>
  /\ before' = LogsOf(chain)
  /\ UNCHANGED <<chain, mined>>

Asked == Len(found) = Len(EventsOf(args))

(* event-getlogs for the next event.  *)
AskNode ==
  /\ pc = "query" /\ ~ Asked
  /\ IF Refused(args) THEN Fail
     ELSE LET logs == Query(args, EventsOf(args)[Len(found) + 1]) IN
          /\ found' = Append(found, IF args.tx = None THEN logs ELSE FirstOfTx(logs, args.tx))
          /\ UNCHANGED <<pc, result>>
  /\ UNCHANGED <<chain, mined, args, before>>

(* The node does not answer: the error is caught, nothing is returned.     *)
Reject ==
  /\ pc = "query" /\ ~ Asked
  /\ Fail
  /\ UNCHANGED <<chain, mined, args, before>>

Found == UNION {found[k] : k \in DOMAIN found}

Finish ==
  /\ pc = "query" /\ Asked
  /\ result' = Return(args.kind, Found, args.filter)
  /\ pc' = "done"
  /\ UNCHANGED <<chain, mined, args, found, before>>

Mine(contents) ==
  /\ mined < MaxBlocks
  /\ chain' = Append(chain, Block(mined + 1, contents))
  /\ mined' = mined + 1
  /\ UNCHANGED <<search, before>>

(* Another block takes the place of the last one. *)
Reorganise(contents) ==
  /\ mined < MaxBlocks /\ Len(chain) > 1
  /\ chain' = [chain EXCEPT ![Len(chain)] = Block(mined + 1, contents)]
  /\ mined' = mined + 1
  /\ UNCHANGED <<search, before>>

(* What happens once the search has its arguments, or without it. *)
Proceed ==
  \/ AskNode \/ Reject \/ Finish
  \/ \E n \in 0 .. MaxLogs : \E contents \in [1 .. n -> Contents] :
       Mine(contents) \/ Reorganise(contents)

Next == (\E kind \in Kinds : Start(kind, Numbers, 1 .. MaxBlocks)) \/ Proceed

Spec == Init /\ [][Next]_vars /\ WF_vars(AskNode) /\ WF_vars(Finish)

----------------------------------------------------------------------------
(* Properties *)

Answered(kinds) == pc = "done" /\ result.ok /\ args.kind \in kinds

(* Types: what is found is logs that some block had, at most one where one *)
(* is looked for.                                                          *)
TypeOK ==
  /\ pc \in {"idle", "query", "done"}
  /\ mined \in 0 .. MaxBlocks
  /\ result.logs \subseteq Found
  /\ Found \subseteq
       [block : 1 .. MaxBlocks, index : 1 .. MaxLogs, event : {"a", "b"}, value : Values \cup {None}]
  /\ OneLog(args.kind) => \A l, k \in Found : l = k

InRange(l) ==
  \E i \in DOMAIN chain :
    /\ l \in chain[i].logs
    /\ (IF args.from = None THEN DefaultFrom ELSE args.from) <= i - 1
    /\ Truthy(args.to) => i - 1 <= args.to

(* A search of a range answers with every log of the range that was there  *)
(* all the time, although it asks event by event while blocks are added    *)
(* and replaced, and never twice with the same one.                        *)
RangeComplete ==
  Answered({"getLogs", "allEvents"}) /\ args.block = None /\ args.tx = None =>
    /\ \A l \in before :
         InRange(l) /\ (l.event = args.event \/ args.kind = "allEvents") => l \in result.logs
    /\ \A k, n \in DOMAIN found : k # n => found[k] \cap found[n] = {}

(* A search of one block by its hash returns all of its logs or fails: it  *)
(* never mixes the logs of a block with those of the block that replaced   *)
(* it, or with half of them.                                               *)
BlockAllOrNothing ==
  Answered({"allEvents"}) /\ args.block # None /\ args.tx = None =>
    /\ \A l \in result.logs : l.block = args.block
    /\ \A l \in before : l.block = args.block => l \in result.logs

(* A search with a filter value returns no log without that value, and,    *)
(* when it returns, none of those it found with the value is missing.      *)
FilteredExactly ==
  Answered({"parsedLog", "parsedLogs", "parsedAll"}) /\ args.filter.value # None =>
    result.logs = {l \in Found : l.value = args.filter.value}

(* "the provider's Logs for all events on" the contract for --txhash: all  *)
(* logs of the transaction.                                                *)
TxLogsComplete ==
  Answered({"allEvents"}) /\ args.tx # None /\ args.block = None =>
    \A l \in before : l.block = args.tx /\ InRange(l) => l \in result.logs

(* --property "A specific key-value pair to search for": where some log    *)
(* found has the pair, the search returns it.                              *)
PairIsFound ==
  pc = "done" /\ args.kind = "parsedAll" /\ args.filter.property /\ ~ BadFilter(args.filter)
  /\ (\E l \in Found : l.value = args.filter.value) /\ Asked
    => result.ok
=============================================================================
