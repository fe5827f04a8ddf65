---------------------------- MODULE PositionLedger ----------------------------
(***************************************************************************)
(* The account facts and the positions derived from them                    *)
(* (position_reality_service.py, account_event_store.py, cash_event_service *)
(* .py, the write side of trade_ledger_service.py).  Account events and     *)
(* trades are two tables of trade_ledger.sqlite3; nothing is ever rewritten: *)
(* a correction is an event of its own, a trade is voided.  Every operation *)
(* checks what it relies on and writes in one transaction under the write   *)
(* lock of the file, so it is one step here.                                *)
(*                                                                          *)
(* No position is stored.  A reader takes the active events and the active  *)
(* trades in two queries of one read transaction and replays them: the      *)
(* opening position first, then the trades by execution instant, each fact  *)
(* with the value its last correction gave it.  A replay that would sell    *)
(* more than is held, or that cannot place a fact, fails as a whole.        *)
(*                                                                          *)
(* The replay keeps one state per stock code and never mixes two, so one    *)
(* code is modelled.  One field stands for the correctable ones of a fact:  *)
(* actual_quantity of a trade, shares of an opening position, opening_cash  *)
(* of the account opening, amount of a cash event.                          *)
(***************************************************************************)
EXTENDS Integers, Sequences, FiniteSets, FiniteSetsExt, Functions

CONSTANTS Readers,     \* calls of derive_positions
          TradeIds,    \* trade_id of a record; random in the code, so any order
          Quantities,  \* bound: quantities of shares clients send
          Amounts,     \* bound: amounts of money clients send
          MaxEvents,   \* bound: rows of account_events
          MaxClock,    \* bound: last instant of the clock and of an execution
          Skew         \* how far ahead an execution instant may be: five minutes

ASSUME LedgerAssumption ==
  /\ TradeIds \subseteq Nat
  /\ Quantities \subseteq Nat \ {0} /\ Amounts \subseteq Nat \ {0}
  /\ MaxEvents \in Nat /\ MaxClock \in Nat \ {0} /\ Skew \in Nat

Instants == 1 .. MaxClock
\* datetime.max: no execution instant is later.
Forever == MaxClock

Values == Quantities \cup Amounts \cup {0}

EventTypes == {"ACCOUNT_OPENING", "LEGACY_POSITION_OPENING", "CASH", "CORRECTION"}

VARIABLES
  clock,   \* the wall clock
  events,  \* account_events in rowid order
  trades,  \* trade_records by trade_id
  reader   \* each reader's pc, the events it has read and its last answer

vars == <<clock, events, trades, reader>>

Init ==
  /\ clock = 1
  /\ events = <<>>
  /\ trades = <<>>
  /\ reader = [r \in Readers |-> [pc |-> "idle", events |-> <<>>, answer |-> 0]]

--------------------------------------------------------------------------------
(***************************************************************************)
(* The active facts E and T of a ledger, and what corrections make of them. *)
(***************************************************************************)
OfType(E, type) == {n \in DOMAIN E : E[n].type = type}
Standing(T) == {i \in DOMAIN T : ~T[i].voided}
\* A trade that was not executed carries no quantity and takes no part.
Executed(T) == {i \in Standing(T) : T[i].quantity > 0}

\* Active corrections of one fact; created_at is stamped under the write lock,
\* so created_at, rowid is the order of the rows.
Corrections(E, target) ==
  {n \in OfType(E, "CORRECTION") : ~E[n].voided /\ E[n].target = target}

Effective(E, target, base) ==
  LET chain == Corrections(E, target) IN
  IF chain = {} THEN base ELSE E[Max(chain)].value

TradeKey(i) == <<"trade", i>>
EventKey(n) == <<"account_event", n>>

\* Does the target of a correction take part in the replay?
Resolves(E, T, target) ==
  \/ \E i \in Executed(T) : target = TradeKey(i)
  \/ \E n \in DOMAIN E : E[n].type # "CORRECTION" /\ target = EventKey(n)

--------------------------------------------------------------------------------
(***************************************************************************)
(* Replay: derive_positions.                                                *)
(***************************************************************************)
\* trade_order_key: execution instant, recording instant, trade_id.
Precedes(T, i, j) ==
  \/ T[i].executed < T[j].executed
  \/ /\ T[i].executed = T[j].executed
     /\ \/ T[i].created < T[j].created
        \/ T[i].created = T[j].created /\ i < j

\* What each opening position and each trade adds to the shares held.
Openings(E) ==
  [n \in OfType(E, "LEGACY_POSITION_OPENING") |-> Effective(E, EventKey(n), E[n].value)]

Moves(E, T) ==
  [i \in Executed(T) |->
    LET quantity == Effective(E, TradeKey(i), T[i].quantity) IN
    IF T[i].operation = "buy" THEN quantity ELSE -quantity]

\* Shares held after the opening position and the given trades.
Holding(E, T, applied) ==
  SumFunction(Openings(E)) + SumFunctionOnSet(Moves(E, T), applied)

\* The trades that have become facts by instant t.
Current(T, t) == {i \in Executed(T) : T[i].executed <= t}

NeverOversold(E, T, t) ==
  \A i \in Current(T, t) :
    Holding(E, T, {j \in Current(T, t) : j = i \/ Precedes(T, j, i)}) >= 0

Derivable(E, T, t) ==
  LET openings == OfType(E, "ACCOUNT_OPENING") IN
  /\ Cardinality(openings) <= 1
  /\ \A n \in openings, i \in Executed(T) : T[i].executed >= E[n].start
  /\ \A n \in OfType(E, "CORRECTION") : ~E[n].voided => Resolves(E, T, E[n].target)
  /\ Cardinality(OfType(E, "LEGACY_POSITION_OPENING")) <= 1
  /\ NeverOversold(E, T, t)

\* What derive_positions answers for instant t: the shares, or that it cannot.
Underivable == -1

Position(E, T, t) ==
  IF Derivable(E, T, t) THEN Holding(E, T, Current(T, t)) ELSE Underivable

--------------------------------------------------------------------------------
(***************************************************************************)
(* The writers.                                                             *)
(***************************************************************************)
\* Mutant: the reader's BEGIN is lost, so each of its queries is a transaction.
WritableBetweenQueries == TRUE

\* The file has a rollback journal: a writer cannot commit while a read
\* transaction is open; one that waits too long fails and changes nothing.
Writable == \A r \in Readers : reader[r].pc # "reading"

None == <<"none", 0>>

Opening(type, value, start) ==
  [type |-> type, value |-> value, start |-> start,
   target |-> None, before |-> 0, voided |-> FALSE]

\* bootstrap_commit: no active event and no active trade, executed or not.
\* An account may open without a position in the code.
Bootstrap ==
  /\ Writable
  /\ \A n \in DOMAIN events : events[n].voided
  /\ Standing(trades) = {}
  /\ \E start \in Instants, cash \in Amounts, shares \in Quantities \cup {0} :
       LET account == Opening("ACCOUNT_OPENING", cash, start)
           position == Opening("LEGACY_POSITION_OPENING", shares, start) IN
       events' = events \o IF shares = 0 THEN <<account>> ELSE <<account, position>>
  /\ Len(events') <= MaxEvents
  /\ UNCHANGED <<clock, trades, reader>>

\* Mutant: the validator replays what is current, not what will become so.
ProvenAtPresent(E, T) ==
  OfType(E, "ACCOUNT_OPENING") # {} => Derivable(E, T, clock)

\* validate_trade_insert_on_connection: the ledger with the new row, replayed
\* with every fact it holds; without an opening nothing is checked.
Proven(E, T) ==
  OfType(E, "ACCOUNT_OPENING") # {} => Derivable(E, T, Forever)

\* create_trade.  created_at is stamped first, the limit on executed_at is taken
\* after it and both before the write lock, so created may lie behind other rows.
\* A trade that was not executed has no execution instant; its field is unused.
RecordTrade(i, operation, quantity) ==
  /\ Writable
  /\ i \notin DOMAIN trades
  /\ \E created \in 1 .. clock, executed \in Instants :
       LET record == [operation |-> operation, quantity |-> quantity,
                      executed |-> executed, created |-> created, voided |-> FALSE]
           with == [j \in DOMAIN trades \cup {i} |-> IF j = i THEN record ELSE trades[j]] IN
       /\ quantity > 0 => executed <= clock + Skew
       /\ quantity = 0 => executed = created
       /\ Proven(events, with)
       /\ trades' = with
  /\ UNCHANGED <<clock, events, reader>>

\* The values a correction may give its target: the quantity of a trade stays
\* positive, the shares of an opening position may become zero; a correction and
\* what is voided are no targets.
Admissible(target, value) ==
  \/ /\ \E i \in Executed(trades) : target = TradeKey(i)
     /\ value \in Quantities
  \/ /\ \E n \in OfType(events, "LEGACY_POSITION_OPENING") : target = EventKey(n)
     /\ value \in Quantities \cup {0}
  \/ /\ \E n \in OfType(events, "ACCOUNT_OPENING") \cup OfType(events, "CASH") : target = EventKey(n)
     /\ value \in Amounts

BaseValue(E, T, target) ==
  IF target[1] = "trade" THEN T[target[2]].quantity ELSE E[target[2]].value

\* Mutant: before_payload repeats the recorded value.
PriorRecorded(target) == BaseValue(events, trades, target)

\* _prior_effective_values_on_connection.
Prior(target) == Effective(events, target, BaseValue(events, trades, target))

\* create_correction: the replay is not run.
Correct(target, value) ==
  /\ Writable
  /\ Len(events) < MaxEvents
  /\ Admissible(target, value)
  /\ events' = Append(events,
       [type |-> "CORRECTION", value |-> value, start |-> 0,
        target |-> target, before |-> Prior(target), voided |-> FALSE])
  /\ UNCHANGED <<clock, trades, reader>>

\* Mutant: a trade is voided without the corrections that point to it.
CascadeNothing(i) == events

Cascade(i) ==
  [n \in DOMAIN events |->
    IF n \in Corrections(events, TradeKey(i)) THEN [events[n] EXCEPT !.voided = TRUE]
    ELSE events[n]]

\* void_trade_with_cascade: also clears corrections left on a voided trade.
Void(i) ==
  /\ Writable
  /\ i \in DOMAIN trades
  /\ trades[i].voided => Corrections(events, TradeKey(i)) # {}
  /\ events' = Cascade(i)
  /\ trades' = [trades EXCEPT ![i].voided = TRUE]
  /\ UNCHANGED <<clock, reader>>

\* create_cash_event.
CashEvent(amount) ==
  /\ Writable
  /\ Len(events) < MaxEvents
  /\ Cardinality(OfType(events, "ACCOUNT_OPENING")) = 1
  /\ events' = Append(events, Opening("CASH", amount, 0))
  /\ UNCHANGED <<clock, trades, reader>>

--------------------------------------------------------------------------------
(***************************************************************************)
(* The reader: read_active_ledger_facts and derive_positions.  Its first    *)
(* query takes the shared lock of the file, the end of the transaction      *)
(* returns it; the instant of the derivation is taken after that.           *)
(***************************************************************************)
ReadEvents(r) ==
  /\ reader[r].pc = "idle"
  /\ reader' = [reader EXCEPT ![r] =
       [pc |-> "reading", events |-> events, answer |-> reader[r].answer]]
  /\ UNCHANGED <<clock, events, trades>>

ReadTrades(r) ==
  /\ reader[r].pc = "reading"
  /\ \E now \in clock .. MaxClock :
       reader' = [reader EXCEPT ![r] =
         [pc |-> "idle", events |-> <<>>, answer |-> Position(reader[r].events, trades, now)]]
  /\ UNCHANGED <<clock, events, trades>>

Tick ==
  /\ clock < MaxClock
  /\ clock' = clock + 1
  /\ UNCHANGED <<events, trades, reader>>

Next ==
  \/ Bootstrap
  \/ \E i \in TradeIds, operation \in {"buy", "sell"}, quantity \in Quantities \cup {0} :
       RecordTrade(i, operation, quantity)
  \/ \E target \in {TradeKey(i) : i \in DOMAIN trades} \cup {EventKey(n) : n \in DOMAIN events},
        value \in Values :
       Correct(target, value)
  \/ \E i \in TradeIds : Void(i)
  \/ \E amount \in Amounts : CashEvent(amount)
  \/ \E r \in Readers : ReadEvents(r) \/ ReadTrades(r)
  \/ Tick

Spec == Init /\ [][Next]_vars

--------------------------------------------------------------------------------
(***************************************************************************)
(* Properties.                                                              *)
(***************************************************************************)
EventRecords ==
  [type : EventTypes, value : Values, start : Instants \cup {0},
   target : {None} \cup {TradeKey(i) : i \in TradeIds} \cup {EventKey(n) : n \in 1 .. MaxEvents},
   before : Values, voided : BOOLEAN]

TradeRecords ==
  [operation : {"buy", "sell"}, quantity : Quantities \cup {0}, executed : Instants,
   created : 1 .. MaxClock, voided : BOOLEAN]

\* Rows, records and reader states are of the declared types, and every
\* correction points to a record or to an earlier row.
TypeOK ==
  /\ clock \in 1 .. MaxClock
  /\ events \in Seq(EventRecords) /\ Len(events) <= MaxEvents
  /\ DOMAIN trades \subseteq TradeIds
  /\ \A i \in DOMAIN trades : trades[i] \in TradeRecords
  /\ DOMAIN reader = Readers
  /\ \A r \in Readers :
       reader[r].pc \in {"idle", "reading"} /\ reader[r].events \in Seq(EventRecords)

\* A correction that is still active always finds its target among the facts a
\* replay uses: voiding a trade takes its corrections along, and none can be
\* added to it afterwards.  One left behind makes every later derivation fail
\* (_apply_corrections, position_reality_service.py:681-699).
TargetsResolve ==
  \A n \in OfType(events, "CORRECTION") :
    ~events[n].voided => Resolves(events, trades, events[n].target)

Sound == \A t \in Instants : Derivable(events, trades, t)

\* Once an account is open, recording a trade or a cash event, reading and the
\* passing of time never make a derivable ledger underivable, not even when an
\* execution instant the clock tolerates ahead of time arrives: only a
\* correction or a voided trade can (validate_trade_insert_on_connection,
\* position_reality_service.py:775-795).
StaysDerivable ==
  [][ OfType(events, "ACCOUNT_OPENING") # {} /\ Sound /\ ~Sound' =>
        \/ OfType(events', "CORRECTION") # OfType(events, "CORRECTION")
        \/ Standing(trades') # Standing(trades) /\ DOMAIN trades' = DOMAIN trades ]_vars

\* Correction n names as its before_payload the value its predecessor left.
Chained(E, T, n) ==
  LET earlier == {m \in Corrections(E, E[n].target) : m < n} IN
  E[n].before = IF earlier = {} THEN BaseValue(E, T, E[n].target) ELSE E[Max(earlier)].value

\* The corrections of a fact form a chain an auditor can follow, the first from
\* the recorded value, however corrections, voided trades and requests that wait
\* for each other alternate (_prior_effective_values_on_connection, 396-424).
AuditChain ==
  \A n \in OfType(events, "CORRECTION") : ~events[n].voided => Chained(events, trades, n)

\* What a reader answers is derived from one state of the ledger, the one
\* present when it finishes reading: the two queries never mix a voided trade
\* with the corrections it had (read_active_ledger_facts,
\* account_event_store.py:461-490).
ReadsAreSnapshots ==
  [][ \A r \in Readers :
        reader[r].pc = "reading" /\ reader'[r].pc = "idle" =>
          \E now \in clock .. MaxClock :
            reader'[r].answer = Position(events, trades, now) ]_vars

--------------------------------------------------------------------------------
(***************************************************************************)
(* The inductive invariant.                                                 *)
(***************************************************************************)
\* Facts are not voided, only corrections are.
FactsStand == \A n \in DOMAIN events : events[n].voided => events[n].type = "CORRECTION"

\* While a reader holds the shared lock the events stay as it read them.
ReadersHoldTheLedger ==
  \A r \in Readers : reader[r].pc = "reading" => reader[r].events = events

LedgerInv == TypeOK /\ FactsStand /\ TargetsResolve /\ AuditChain /\ ReadersHoldTheLedger
================================================================================
