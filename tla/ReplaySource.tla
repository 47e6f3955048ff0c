---------------------------- MODULE ReplaySource ----------------------------
(***************************************************************************)
(* The replay index (partly-proxy-lib/src/replay.rs): the exchanges known  *)
(* for one upstream and a map from match key (method, path and query, body *)
(* hash) to a position among them. A source is [exchanges, index], where   *)
(* position 0 stands for an absent key; an exchange is                     *)
(* [key, outcome, ...] and an outcome either a response or an error.       *)
(* The lock of the source is never held across an await, so each operation *)
(* is one atomic step.                                                     *)
(***************************************************************************)
EXTENDS Naturals, Sequences

CONSTANT Keys   \* match keys

IsResponse(outcome) == outcome.kind # "error"

NoEntries == [k \in Keys |-> 0]

\* One round of the build_index loop: errors are skipped, and or_insert keeps
\* the position an earlier exchange has taken.
OrInsert(index, exchange, i) ==
    IF IsResponse(exchange.outcome) /\ index[exchange.key] = 0
    THEN [index EXCEPT ![exchange.key] = i]
    ELSE index

\* Mutant of BuildIndex: the last exchange is left out.
BuildIndexShort(exchanges) ==
    LET upTo[i \in 0..Len(exchanges)] ==
            IF i = 0 THEN NoEntries ELSE OrInsert(upTo[i - 1], exchanges[i], i)
    IN  upTo[IF exchanges = <<>> THEN 0 ELSE Len(exchanges) - 1]

\* build_index
BuildIndex(exchanges) ==
    LET upTo[i \in 0..Len(exchanges)] ==
            IF i = 0 THEN NoEntries ELSE OrInsert(upTo[i - 1], exchanges[i], i)
    IN  upTo[Len(exchanges)]

\* from_storage: drain the medium, then index it.
FromStorage(medium) == [exchanges |-> medium, index |-> BuildIndex(medium)]

\* Mutants of Insert: the last write wins; the position is off by one.
InsertLast(source, exchange) ==
    [exchanges |-> Append(source.exchanges, exchange),
     index |-> [source.index EXCEPT ![exchange.key] = Len(source.exchanges) + 1]]

InsertOffByOne(source, exchange) ==
    IF ~IsResponse(exchange.outcome) \/ source.index[exchange.key] # 0
    THEN source
    ELSE [exchanges |-> Append(source.exchanges, exchange),
          index |-> [source.index EXCEPT ![exchange.key] = Len(source.exchanges)]]

\* insert: only responses, and the first write for a key wins.
Insert(source, exchange) ==
    IF ~IsResponse(exchange.outcome) \/ source.index[exchange.key] # 0
    THEN source
    ELSE [exchanges |-> Append(source.exchanges, exchange),
          index |-> [source.index EXCEPT
                        ![exchange.key] = Len(source.exchanges) + 1]]

\* lookup finds a response: the key has a position, the position holds an
\* exchange, and that exchange is not an error.
Hit(source, key) ==
    LET i == source.index[key]
    IN  i \in 1..Len(source.exchanges) /\ IsResponse(source.exchanges[i].outcome)

\* lookup, on a hit.
Lookup(source, key) == source.exchanges[source.index[key]].outcome
============================================================================
