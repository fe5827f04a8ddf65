------------------------- MODULE PositionLedgerProofs --------------------------
(***************************************************************************)
(* Proofs about PositionLedger, for every set of readers, trades and        *)
(* amounts and every bound.                                                 *)
(***************************************************************************)
EXTENDS PositionLedger, FiniteSetTheorems, SequenceTheorems, WellFoundedInduction, TLAPS

\* A set of rows has a last one.
LEMMA MaxIsMember ==
  ASSUME NEW n \in Nat, NEW S \in SUBSET (1 .. n), S # {}
  PROVE  Max(S) \in S /\ \A m \in S : m <= Max(S)
<1> DEFINE T == {x \in Nat : n - x \in S}
<1>1. PICK s \in S : TRUE
  OBVIOUS
<1>2. n - s \in T /\ n - (n - s) = s
  BY <1>1
<1>3. T \subseteq Nat /\ T # {}
  BY <1>2
<1> DEFINE R == OpToRel(<, Nat)
<1>4. IsWellFoundedOn(R, Nat)
  BY NatLessThanWellFounded, Zenon
<1>40. \A x, y \in Nat : <<y, x>> \in R <=> y < x
  BY DEF OpToRel
<1> HIDE DEF R
<1>4a. \E x \in T : \A y \in T : ~ (<<y, x>> \in R)
  <2> HIDE DEF T
  <2> QED BY <1>3, WFMin, <1>4
<1>4b. PICK x \in T : \A y \in T : ~ (<<y, x>> \in R)
  BY <1>4a
<1>5. \A y \in T : x <= y
  <2> TAKE y \in T
  <2>1. ~ (y < x)
    BY <1>4b, <1>40, <1>3
  <2> QED BY <2>1
<1>6. \A m \in S : n - m \in T /\ x <= n - m
  <2> TAKE m \in S
  <2>1. n - (n - m) = m /\ n - m \in Nat
    OBVIOUS
  <2> QED BY <2>1, <1>5
<1>7. \A m \in S : n - x >= m
  BY <1>6
<1>8. n - x \in S
  BY <1>4b
<1>9. \E z \in S : \A m \in S : z >= m
  BY <1>7, <1>8
<1> QED BY <1>9 DEF Max

--------------------------------------------------------------------------------
(***************************************************************************)
(* Rows and corrections.                                                    *)
(***************************************************************************)
LEMMA RowsAreFields ==
  ASSUME NEW E \in Seq(EventRecords)
  PROVE  /\ DOMAIN E = 1 .. Len(E) /\ Len(E) \in Nat
         /\ \A n \in DOMAIN E :
              /\ E[n] \in EventRecords
              /\ E[n].type \in EventTypes /\ E[n].value \in Values
              /\ E[n].voided \in BOOLEAN /\ E[n].before \in Values
<1>1. DOMAIN E = 1 .. Len(E) /\ Len(E) \in Nat /\ \A n \in DOMAIN E : E[n] \in EventRecords
  OBVIOUS
<1>2. \A e \in EventRecords :
        /\ e.type \in EventTypes /\ e.value \in Values
        /\ e.voided \in BOOLEAN /\ e.before \in Values
  BY DEF EventRecords
<1> QED BY <1>1, <1>2

LEMMA CorrectionsAreRows ==
  ASSUME NEW E \in Seq(EventRecords), NEW target
  PROVE  Corrections(E, target) \in SUBSET (1 .. Len(E))
BY RowsAreFields DEF Corrections, OfType

LEMMA EffectiveIsValue ==
  ASSUME NEW E \in Seq(EventRecords), NEW target, NEW base \in Values
  PROVE  Effective(E, target, base) \in Values
<1>1. CASE Corrections(E, target) = {}
  BY <1>1 DEF Effective
<1>2. CASE Corrections(E, target) # {}
  <2>1. Max(Corrections(E, target)) \in 1 .. Len(E)
    BY <1>2, CorrectionsAreRows, RowsAreFields, MaxIsMember
  <2> QED BY <1>2, <2>1, RowsAreFields DEF Effective
<1> QED BY <1>1, <1>2

\* The ledger F continues E with facts, none of them a correction.
Continues(E, F) ==
  /\ Len(E) <= Len(F)
  /\ \A n \in DOMAIN E : F[n] = E[n]
  /\ \A n \in DOMAIN F \ DOMAIN E : F[n].type # "CORRECTION"

LEMMA FactsKeepCorrections ==
  ASSUME NEW E \in Seq(EventRecords), NEW F \in Seq(EventRecords), Continues(E, F)
  PROVE  /\ OfType(F, "CORRECTION") = OfType(E, "CORRECTION")
         /\ \A target : Corrections(F, target) = Corrections(E, target)
         /\ \A target, base : Effective(F, target, base) = Effective(E, target, base)
<1>1. DOMAIN E = 1 .. Len(E) /\ DOMAIN F = 1 .. Len(F) /\ DOMAIN E \subseteq DOMAIN F
  BY RowsAreFields DEF Continues
<1>2. OfType(F, "CORRECTION") = OfType(E, "CORRECTION")
  BY <1>1 DEF Continues, OfType
<1>3. ASSUME NEW target
      PROVE  Corrections(F, target) = Corrections(E, target)
  BY <1>1, <1>2 DEF Continues, Corrections, OfType
<1>4. ASSUME NEW target, NEW base
      PROVE  Effective(F, target, base) = Effective(E, target, base)
  <2>1. CASE Corrections(E, target) = {}
    BY <2>1, <1>3 DEF Effective
  <2>2. CASE Corrections(E, target) # {}
    <3>1. Max(Corrections(E, target)) \in DOMAIN E
      BY <2>2, CorrectionsAreRows, RowsAreFields, MaxIsMember
    <3> QED BY <2>2, <3>1, <1>3 DEF Effective, Continues
  <2> QED BY <2>1, <2>2
<1> QED BY <1>2, <1>3, <1>4

--------------------------------------------------------------------------------
(***************************************************************************)
(* Type correctness.                                                        *)
(***************************************************************************)
LEMMA OpeningIsRecord ==
  ASSUME NEW type \in EventTypes, NEW value \in Values, NEW start \in Instants \cup {0}
  PROVE  Opening(type, value, start) \in EventRecords
<1>1. 0 \in Values
  BY DEF Values
<1> QED BY <1>1 DEF Opening, EventRecords

LEMMA BootstrapContinues ==
  ASSUME TypeOK, Bootstrap
  PROVE  events' \in Seq(EventRecords) /\ Continues(events, events')
<1> USE DEF TypeOK
<1>1. PICK start \in Instants, cash \in Amounts, shares \in Quantities \cup {0} :
        LET account == Opening("ACCOUNT_OPENING", cash, start)
            position == Opening("LEGACY_POSITION_OPENING", shares, start) IN
        events' = events \o IF shares = 0 THEN <<account>> ELSE <<account, position>>
  BY DEF Bootstrap
<1> DEFINE account == Opening("ACCOUNT_OPENING", cash, start)
           position == Opening("LEGACY_POSITION_OPENING", shares, start)
           added == IF shares = 0 THEN <<account>> ELSE <<account, position>>
<1>2. account \in EventRecords /\ position \in EventRecords
  BY OpeningIsRecord DEF Values, EventTypes
<1>3. account.type = "ACCOUNT_OPENING" /\ position.type = "LEGACY_POSITION_OPENING"
  BY DEF Opening
<1> HIDE DEF account, position
<1>4. /\ added \in Seq(EventRecords)
      /\ \A n \in DOMAIN added : added[n].type # "CORRECTION"
  BY <1>2, <1>3
<1>5. events' = events \o added
  BY <1>1 DEF account, position
<1> HIDE DEF added
<1>6. /\ events' \in Seq(EventRecords)
      /\ Len(events') = Len(events) + Len(added)
      /\ \A n \in DOMAIN events : events'[n] = events[n]
      /\ \A n \in DOMAIN events' \ DOMAIN events :
           n - Len(events) \in DOMAIN added /\ events'[n] = added[n - Len(events)]
  BY <1>4, <1>5
<1> QED BY <1>4, <1>6 DEF Continues

LEMMA CashContinues ==
  ASSUME TypeOK, NEW amount \in Amounts, CashEvent(amount)
  PROVE  events' \in Seq(EventRecords) /\ Continues(events, events')
<1> USE DEF TypeOK
<1>1. Opening("CASH", amount, 0) \in EventRecords
  BY OpeningIsRecord DEF Values, EventTypes
<1>2. Opening("CASH", amount, 0).type = "CASH"
  BY DEF Opening
<1>3. events' = Append(events, Opening("CASH", amount, 0))
  BY DEF CashEvent
<1> QED BY <1>1, <1>2, <1>3 DEF Continues

\* What create_correction appends.
Correction(target, value) ==
  [type |-> "CORRECTION", value |-> value, start |-> 0,
   target |-> target, before |-> Prior(target), voided |-> FALSE]

\* An admissible target is a fact, whose recorded value is a value.
LEMMA TargetIsFact ==
  ASSUME TypeOK, NEW target, NEW value, Admissible(target, value)
  PROVE  /\ Resolves(events, trades, target)
         /\ BaseValue(events, trades, target) \in Values
         /\ value \in Values
         /\ target \in {TradeKey(i) : i \in TradeIds} \cup {EventKey(n) : n \in 1 .. MaxEvents}
<1>1. CASE \E i \in Executed(trades) : target = TradeKey(i) /\ value \in Quantities
  <2>1. PICK i \in Executed(trades) : target = TradeKey(i)
    BY <1>1
  <2>2. i \in TradeIds /\ trades[i] \in TradeRecords
    BY DEF TypeOK, Executed, Standing
  <2>3. BaseValue(events, trades, target) = trades[i].quantity
    BY <2>1 DEF BaseValue, TradeKey
  <2>4. trades[i].quantity \in Values
    BY <2>2 DEF TradeRecords, Values
  <2> QED BY <1>1, <2>1, <2>2, <2>3, <2>4 DEF Resolves, Values
<1>2. CASE \E n \in DOMAIN events :
             /\ events[n].type # "CORRECTION" /\ target = EventKey(n)
             /\ value \in Values
  <2>1. PICK n \in DOMAIN events : events[n].type # "CORRECTION" /\ target = EventKey(n)
    BY <1>2
  <2>2. BaseValue(events, trades, target) = events[n].value
    BY <2>1 DEF BaseValue, EventKey
  <2>3. n \in 1 .. MaxEvents
    BY RowsAreFields, LedgerAssumption DEF TypeOK
  <2> QED BY <1>2, <2>1, <2>2, <2>3, RowsAreFields DEF Resolves, TypeOK
<1> QED BY <1>1, <1>2 DEF Admissible, OfType, Values

LEMMA CorrectionIsRecord ==
  ASSUME TypeOK, NEW target, NEW value, Correct(target, value)
  PROVE  /\ events' = Append(events, Correction(target, value))
         /\ Correction(target, value) \in EventRecords
         /\ events' \in Seq(EventRecords)
<1>1. /\ BaseValue(events, trades, target) \in Values /\ value \in Values
      /\ target \in {TradeKey(i) : i \in TradeIds} \cup {EventKey(n) : n \in 1 .. MaxEvents}
  BY TargetIsFact DEF Correct
<1>2. Prior(target) \in Values
  BY <1>1, EffectiveIsValue DEF Prior, TypeOK
<1>3. Correction(target, value) \in EventRecords
  BY <1>1, <1>2 DEF Correction, EventRecords, EventTypes
<1>4. events' = Append(events, Correction(target, value))
  BY DEF Correct, Correction
<1> QED BY <1>3, <1>4 DEF TypeOK

LEMMA CascadeOnlyVoids ==
  ASSUME TypeOK, NEW i, Void(i)
  PROVE  /\ events' \in Seq(EventRecords)
         /\ DOMAIN events' = DOMAIN events /\ Len(events') = Len(events)
         /\ \A n \in DOMAIN events :
              /\ events'[n].type = events[n].type /\ events'[n].value = events[n].value
              /\ events'[n].start = events[n].start
              /\ events'[n].target = events[n].target /\ events'[n].before = events[n].before
              /\ events'[n].voided
                   = (events[n].voided \/ n \in Corrections(events, TradeKey(i)))
<1>1. events' = Cascade(i)
  BY DEF Void
<1>2. DOMAIN events = 1 .. Len(events) /\ Len(events) \in Nat
      /\ \A n \in DOMAIN events : events[n] \in EventRecords
  BY RowsAreFields DEF TypeOK
<1>3. \A e \in EventRecords :
        LET v == [e EXCEPT !.voided = TRUE] IN
        /\ v \in EventRecords
        /\ v.type = e.type /\ v.value = e.value /\ v.start = e.start
        /\ v.target = e.target /\ v.before = e.before /\ v.voided = TRUE
  BY DEF EventRecords
<1>4. \A n \in DOMAIN events : events[n].voided \in BOOLEAN
  BY RowsAreFields DEF TypeOK
<1>5. \A n \in DOMAIN events :
        events'[n] = IF n \in Corrections(events, TradeKey(i))
                       THEN [events[n] EXCEPT !.voided = TRUE] ELSE events[n]
  BY <1>1 DEF Cascade
<1>6. DOMAIN events' = 1 .. Len(events) /\ \A n \in DOMAIN events : events'[n] \in EventRecords
  BY <1>1, <1>2, <1>3, <1>5 DEF Cascade
<1>7. events' \in Seq(EventRecords) /\ Len(events') = Len(events)
  BY <1>1, <1>2, <1>6 DEF Cascade
<1>8. ASSUME NEW n \in DOMAIN events
      PROVE  /\ events'[n].type = events[n].type /\ events'[n].value = events[n].value
             /\ events'[n].start = events[n].start
             /\ events'[n].target = events[n].target /\ events'[n].before = events[n].before
             /\ events'[n].voided = (events[n].voided \/ n \in Corrections(events, TradeKey(i)))
  <2>1. events[n] \in EventRecords /\ events[n].voided \in BOOLEAN
    BY <1>2, <1>4
  <2>2. CASE n \in Corrections(events, TradeKey(i))
    <3>1. events'[n] = [events[n] EXCEPT !.voided = TRUE]
      BY <1>5, <2>2
    <3> QED BY <1>3, <2>1, <2>2, <3>1
  <2>3. CASE n \notin Corrections(events, TradeKey(i))
    BY <1>5, <2>1, <2>3
  <2> QED BY <2>2, <2>3
<1> QED BY <1>2, <1>6, <1>7, <1>8

\* A recorded trade is a new one and a record; a voided one stays a record.
LEMMA TradesStayRecords ==
  ASSUME TypeOK, clock' = clock,
         (\E i \in TradeIds, operation \in {"buy", "sell"}, quantity \in Quantities \cup {0} :
            RecordTrade(i, operation, quantity))
         \/ \E i \in TradeIds : Void(i)
  PROVE  /\ DOMAIN trades' \subseteq TradeIds
         /\ \A i \in DOMAIN trades' : trades'[i] \in TradeRecords
<1> USE DEF TypeOK
<1>1. ASSUME NEW i \in TradeIds, NEW operation \in {"buy", "sell"},
             NEW quantity \in Quantities \cup {0}, RecordTrade(i, operation, quantity)
      PROVE  /\ DOMAIN trades' \subseteq TradeIds
             /\ \A j \in DOMAIN trades' : trades'[j] \in TradeRecords
  <2>1. PICK created \in 1 .. clock, executed \in Instants :
          trades' = [j \in DOMAIN trades \cup {i} |->
            IF j = i
            THEN [operation |-> operation, quantity |-> quantity, executed |-> executed,
                  created |-> created, voided |-> FALSE]
            ELSE trades[j]]
    BY <1>1 DEF RecordTrade
  <2>2. created \in 1 .. MaxClock
    BY LedgerAssumption
  <2>3. [operation |-> operation, quantity |-> quantity, executed |-> executed,
         created |-> created, voided |-> FALSE] \in TradeRecords
    BY <2>2 DEF TradeRecords
  <2> QED BY <2>1, <2>3
<1>2. ASSUME NEW i \in TradeIds, Void(i)
      PROVE  /\ DOMAIN trades' \subseteq TradeIds
             /\ \A j \in DOMAIN trades' : trades'[j] \in TradeRecords
  <2>1. trades[i] \in TradeRecords /\ trades' = [trades EXCEPT ![i].voided = TRUE]
    BY <1>2 DEF Void
  <2>2. [trades[i] EXCEPT !.voided = TRUE] \in TradeRecords
    BY <2>1 DEF TradeRecords
  <2> QED BY <2>1, <2>2
<1> QED BY <1>1, <1>2

LEMMA TypeStep ==
  ASSUME TypeOK, [Next]_vars
  PROVE  TypeOK'
<1> USE DEF TypeOK
<1>1. CASE Bootstrap
  BY <1>1, BootstrapContinues DEF Bootstrap
<1>2. ASSUME NEW i \in TradeIds, NEW operation \in {"buy", "sell"},
             NEW quantity \in Quantities \cup {0}, RecordTrade(i, operation, quantity)
      PROVE  TypeOK'
  <2>1. UNCHANGED <<clock, events, reader>>
    BY <1>2 DEF RecordTrade
  <2>2. DOMAIN trades' \subseteq TradeIds /\ \A j \in DOMAIN trades' : trades'[j] \in TradeRecords
    BY <1>2, <2>1, TradesStayRecords
  <2> QED BY <2>1, <2>2
<1>3. ASSUME NEW target, NEW value, Correct(target, value)
      PROVE  TypeOK'
  <2>1. UNCHANGED <<clock, trades, reader>> /\ Len(events) < MaxEvents
    BY <1>3 DEF Correct
  <2>2. events' \in Seq(EventRecords) /\ Len(events') = Len(events) + 1
    BY <1>3, CorrectionIsRecord
  <2> QED BY <2>1, <2>2, LedgerAssumption
<1>4. ASSUME NEW i \in TradeIds, Void(i)
      PROVE  TypeOK'
  <2>1. UNCHANGED <<clock, reader>>
    BY <1>4 DEF Void
  <2>2. DOMAIN trades' \subseteq TradeIds /\ \A j \in DOMAIN trades' : trades'[j] \in TradeRecords
    BY <1>4, <2>1, TradesStayRecords
  <2> QED BY <1>4, <2>1, <2>2, CascadeOnlyVoids
<1>5. ASSUME NEW amount \in Amounts, CashEvent(amount)
      PROVE  TypeOK'
  <2>1. UNCHANGED <<clock, trades, reader>> /\ Len(events) < MaxEvents
        /\ events' = Append(events, Opening("CASH", amount, 0))
    BY <1>5 DEF CashEvent
  <2>2. events' \in Seq(EventRecords) /\ Len(events') = Len(events) + 1
    BY <1>5, <2>1, CashContinues
  <2> QED BY <2>1, <2>2, LedgerAssumption
<1>6. ASSUME NEW r \in Readers, ReadEvents(r)
      PROVE  TypeOK'
  BY <1>6 DEF ReadEvents
<1>7. ASSUME NEW r \in Readers, ReadTrades(r)
      PROVE  TypeOK'
  <2>1. PICK now \in clock .. MaxClock :
          reader' = [reader EXCEPT ![r] =
            [pc |-> "idle", events |-> <<>>, answer |-> Position(reader[r].events, trades, now)]]
    BY <1>7 DEF ReadTrades
  <2>2. <<>> \in Seq(EventRecords)
    OBVIOUS
  <2> QED BY <1>7, <2>1, <2>2 DEF ReadTrades
<1>8. CASE Tick
  BY <1>8, LedgerAssumption DEF Tick
<1>9. CASE UNCHANGED vars
  BY <1>9 DEF vars
<1> QED BY <1>1, <1>2, <1>3, <1>4, <1>5, <1>6, <1>7, <1>8, <1>9 DEF Next

LEMMA TypeInit == ASSUME Init PROVE TypeOK
<1>1. clock \in 1 .. MaxClock
  BY LedgerAssumption DEF Init
<1>2. events \in Seq(EventRecords) /\ Len(events) = 0 /\ Len(events) <= MaxEvents
  BY LedgerAssumption DEF Init
<1>3. DOMAIN trades = {}
  BY DEF Init
<1>4. DOMAIN reader = Readers
  BY DEF Init
<1>5. \A r \in Readers :
        reader[r].pc \in {"idle", "reading"} /\ reader[r].events \in Seq(EventRecords)
  <2> TAKE r \in Readers
  <2>1. reader[r].pc = "idle" /\ reader[r].events = <<>>
    BY DEF Init
  <2>2. <<>> \in Seq(EventRecords)
    OBVIOUS
  <2> QED BY <2>1, <2>2
<1> QED BY <1>1, <1>2, <1>3, <1>4, <1>5 DEF TypeOK

\* Every reachable ledger is made of well-formed rows and records
\* (account_event_store.py, trade_ledger_store.py).
THEOREM TypeCorrect == Spec => []TypeOK
<1>1. Init => TypeOK
  BY TypeInit
<1>2. TypeOK /\ [Next]_vars => TypeOK'
  BY TypeStep
<1> QED BY <1>1, <1>2, PTL DEF Spec

--------------------------------------------------------------------------------
(***************************************************************************)
(* The ledger invariant.                                                    *)
(***************************************************************************)
\* A continued ledger resolves and chains as before: no correction is new, and
\* the targets of the old ones are where they were.
LEMMA FactsKeepChains ==
  ASSUME LedgerInv, trades' = trades, events' \in Seq(EventRecords), Continues(events, events')
  PROVE  TargetsResolve' /\ AuditChain'
<1> USE DEF LedgerInv
<1>1. DOMAIN events = 1 .. Len(events) /\ DOMAIN events \subseteq DOMAIN events'
      /\ \A n \in DOMAIN events : events'[n] = events[n]
  BY RowsAreFields DEF TypeOK, Continues
<1>2. /\ OfType(events', "CORRECTION") = OfType(events, "CORRECTION")
      /\ \A target : Corrections(events', target) = Corrections(events, target)
  BY FactsKeepCorrections DEF TypeOK
<1>3. OfType(events, "CORRECTION") \subseteq DOMAIN events
  BY DEF OfType
<1>4. TargetsResolve'
  BY <1>1, <1>2, <1>3 DEF TargetsResolve, Resolves, Executed, Standing
<1>5. ASSUME NEW n \in OfType(events', "CORRECTION"), ~events'[n].voided
      PROVE  Chained(events', trades', n)
  <2> DEFINE target == events[n].target
             earlier == {m \in Corrections(events, target) : m < n}
  <2>1. n \in OfType(events, "CORRECTION") /\ events'[n] = events[n] /\ ~events[n].voided
    BY <1>5, <1>1, <1>2, <1>3
  <2>2. Chained(events, trades, n) /\ Resolves(events, trades, target)
    BY <2>1 DEF AuditChain, TargetsResolve
  <2>3. BaseValue(events', trades', target) = BaseValue(events, trades, target)
    BY <2>2, <1>1 DEF BaseValue, Resolves, TradeKey, EventKey
  <2>4. Corrections(events', events'[n].target) = Corrections(events, target)
    BY <2>1, <1>2
  <2>5. CASE earlier = {}
    BY <2>1, <2>2, <2>3, <2>4, <2>5 DEF Chained
  <2>6. CASE earlier # {}
    <3>1. Max(earlier) \in DOMAIN events
      <4>1. earlier \in SUBSET (1 .. Len(events))
        BY CorrectionsAreRows DEF TypeOK
      <4> QED BY <4>1, <2>6, <1>1, RowsAreFields, MaxIsMember DEF TypeOK
    <3> QED BY <2>1, <2>2, <2>4, <2>6, <3>1, <1>1 DEF Chained
  <2> QED BY <2>5, <2>6
<1>6. AuditChain'
  BY <1>5 DEF AuditChain
<1> QED BY <1>4, <1>6

\* A new correction finds its target and records the value in force.
LEMMA CorrectKeepsChains ==
  ASSUME LedgerInv, NEW target, NEW value, Correct(target, value)
  PROVE  TargetsResolve' /\ AuditChain'
<1> USE DEF LedgerInv
<1> DEFINE last == Len(events) + 1
<1>1. DOMAIN events = 1 .. Len(events) /\ Len(events) \in Nat
  BY RowsAreFields DEF TypeOK
<1>2. /\ trades' = trades
      /\ DOMAIN events' = DOMAIN events \cup {last} /\ last \notin DOMAIN events
      /\ \A n \in DOMAIN events : events'[n] = events[n]
      /\ events'[last] = Correction(target, value)
  BY <1>1, CorrectionIsRecord DEF Correct, TypeOK
<1>3. /\ events'[last].type = "CORRECTION" /\ ~events'[last].voided
      /\ events'[last].target = target /\ events'[last].before = Prior(target)
  BY <1>2 DEF Correction
<1>4. OfType(events', "CORRECTION") = OfType(events, "CORRECTION") \cup {last}
  BY <1>2, <1>3 DEF OfType
<1>5. \A x : /\ x # target => Corrections(events', x) = Corrections(events, x)
             /\ x = target => Corrections(events', x) = Corrections(events, x) \cup {last}
  BY <1>2, <1>3, <1>4 DEF Corrections, OfType
<1>6. \A x, n : n \in DOMAIN events =>
        {m \in Corrections(events', x) : m < n} = {m \in Corrections(events, x) : m < n}
  BY <1>1, <1>5
<1>7. Resolves(events, trades, target)
  BY TargetIsFact DEF Correct
<1>8. \A x : Resolves(events, trades, x) => Resolves(events', trades', x)
  BY <1>2 DEF Resolves
<1>9. \A x : Resolves(events, trades, x) =>
        BaseValue(events', trades', x) = BaseValue(events, trades, x)
  BY <1>2 DEF BaseValue, Resolves, TradeKey, EventKey
<1>10. ASSUME NEW n \in OfType(events', "CORRECTION"), ~events'[n].voided
       PROVE  Resolves(events', trades', events'[n].target) /\ Chained(events', trades', n)
  <2>1. CASE n = last
    <3> DEFINE chain == Corrections(events, target)
    <3>1. {m \in Corrections(events', target) : m < last} = chain
      <4>1. chain \in SUBSET (1 .. Len(events))
        BY CorrectionsAreRows DEF TypeOK
      <4>2. \A m \in chain : m < last
        BY <4>1, <1>1
      <4> QED BY <4>2, <1>5
    <3>2. chain # {} => Max(chain) \in DOMAIN events
      BY <1>1, CorrectionsAreRows, MaxIsMember DEF TypeOK
    <3>3. events'[last].before = IF chain = {} THEN BaseValue(events, trades, target)
                                 ELSE events[Max(chain)].value
      BY <1>3 DEF Prior, Effective
    <3>4. Chained(events', trades', last)
      <4> HIDE DEF chain, last
      <4> QED BY <3>1, <3>2, <3>3, <1>2, <1>3, <1>7, <1>9 DEF Chained
    <3> QED BY <2>1, <3>4, <1>3, <1>7, <1>8
  <2>2. CASE n # last
    <3> DEFINE earlier == {m \in Corrections(events, events[n].target) : m < n}
    <3>1. n \in OfType(events, "CORRECTION") /\ n \in DOMAIN events
          /\ events'[n] = events[n] /\ ~events[n].voided
      BY <2>2, <1>2, <1>4, <1>10 DEF OfType
    <3>2. Resolves(events, trades, events[n].target) /\ Chained(events, trades, n)
      BY <3>1 DEF TargetsResolve, AuditChain
    <3>3. {m \in Corrections(events', events'[n].target) : m < n} = earlier
      BY <3>1, <1>6
    <3>4. earlier # {} => Max(earlier) \in DOMAIN events
      <4>1. earlier \in SUBSET (1 .. Len(events))
        BY CorrectionsAreRows DEF TypeOK
      <4> QED BY <4>1, <1>1, MaxIsMember
    <3>5. events[n].before = IF earlier = {} THEN BaseValue(events, trades, events[n].target)
                             ELSE events[Max(earlier)].value
      BY <3>2 DEF Chained
    <3>6. Chained(events', trades', n)
      <4> HIDE DEF earlier
      <4> QED BY <3>1, <3>2, <3>3, <3>4, <3>5, <1>2, <1>9 DEF Chained
    <3> QED BY <3>1, <3>2, <3>6, <1>8
  <2> QED BY <2>1, <2>2
<1> QED BY <1>10 DEF TargetsResolve, AuditChain

\* Voiding a trade leaves no active correction that points to it, and touches
\* the chain of no other fact.
LEMMA VoidKeepsChains ==
  ASSUME LedgerInv, NEW i, Void(i)
  PROVE  TargetsResolve' /\ AuditChain'
<1> USE DEF LedgerInv
<1>1. /\ DOMAIN events = 1 .. Len(events) /\ Len(events) \in Nat
      /\ \A n \in DOMAIN events : events[n].voided \in BOOLEAN
  BY RowsAreFields DEF TypeOK
<1>2. /\ DOMAIN events' = DOMAIN events
      /\ \A n \in DOMAIN events :
           /\ events'[n].type = events[n].type /\ events'[n].value = events[n].value
           /\ events'[n].target = events[n].target /\ events'[n].before = events[n].before
           /\ events'[n].voided = (events[n].voided \/ n \in Corrections(events, TradeKey(i)))
  BY CascadeOnlyVoids DEF TypeOK
<1>3. OfType(events', "CORRECTION") = OfType(events, "CORRECTION")
  BY <1>2 DEF OfType
<1>4. \A x : x # TradeKey(i) => Corrections(events', x) = Corrections(events, x)
  BY <1>1, <1>2, <1>3 DEF Corrections, OfType
<1>5. /\ i \in DOMAIN trades /\ trades' = [trades EXCEPT ![i].voided = TRUE]
      /\ trades[i] \in TradeRecords
  BY DEF Void, TypeOK
<1>6. /\ DOMAIN trades' = DOMAIN trades
      /\ \A j \in DOMAIN trades : trades'[j].quantity = trades[j].quantity
      /\ \A j \in DOMAIN trades : j # i => trades'[j] = trades[j]
  BY <1>5 DEF TradeRecords
<1>7. \A x : Resolves(events, trades, x) /\ x # TradeKey(i) => Resolves(events', trades', x)
  BY <1>2, <1>6 DEF Resolves, Executed, Standing
<1>8. \A x : Resolves(events, trades, x) =>
        BaseValue(events', trades', x) = BaseValue(events, trades, x)
  <2>1. \A j \in Executed(trades) : j \in DOMAIN trades
    BY DEF Executed, Standing
  <2> QED BY <2>1, <1>2, <1>6 DEF BaseValue, Resolves, TradeKey, EventKey
<1>9. ASSUME NEW n \in OfType(events', "CORRECTION"), ~events'[n].voided
      PROVE  Resolves(events', trades', events'[n].target) /\ Chained(events', trades', n)
  <2> DEFINE target == events[n].target
             earlier == {m \in Corrections(events, target) : m < n}
  <2>1. /\ n \in OfType(events, "CORRECTION") /\ n \in DOMAIN events
        /\ ~events[n].voided /\ n \notin Corrections(events, TradeKey(i))
        /\ events'[n].target = target /\ events'[n].before = events[n].before
    BY <1>1, <1>2, <1>3, <1>9 DEF OfType
  <2>2. target # TradeKey(i)
    BY <2>1 DEF Corrections
  <2>3. Resolves(events, trades, target) /\ Chained(events, trades, n)
    BY <2>1 DEF TargetsResolve, AuditChain
  <2>4. {m \in Corrections(events', events'[n].target) : m < n} = earlier
    BY <2>1, <2>2, <1>4
  <2>5. earlier # {} => events'[Max(earlier)].value = events[Max(earlier)].value
    <3>1. earlier \in SUBSET (1 .. Len(events))
      BY CorrectionsAreRows DEF TypeOK
    <3> QED BY <3>1, <1>1, <1>2, MaxIsMember
  <2>6. events[n].before = IF earlier = {} THEN BaseValue(events, trades, target)
                           ELSE events[Max(earlier)].value
    BY <2>3 DEF Chained
  <2>7. Chained(events', trades', n)
    <3> HIDE DEF earlier, target
    <3> QED BY <2>1, <2>3, <2>4, <2>5, <2>6, <1>8 DEF Chained
  <2> QED BY <2>1, <2>2, <2>3, <2>7, <1>7
<1> QED BY <1>9 DEF TargetsResolve, AuditChain

LEMMA FactsStandStep ==
  ASSUME LedgerInv, [Next]_vars
  PROVE  FactsStand'
<1> USE DEF LedgerInv
<1>1. DOMAIN events = 1 .. Len(events) /\ Len(events) \in Nat
  BY RowsAreFields DEF TypeOK
<1>2. CASE Bootstrap
  <2>1. PICK start \in Instants, cash \in Amounts, shares \in Quantities \cup {0} :
          LET account == Opening("ACCOUNT_OPENING", cash, start)
              position == Opening("LEGACY_POSITION_OPENING", shares, start) IN
          events' = events \o IF shares = 0 THEN <<account>> ELSE <<account, position>>
    BY <1>2 DEF Bootstrap
  <2> DEFINE account == Opening("ACCOUNT_OPENING", cash, start)
             position == Opening("LEGACY_POSITION_OPENING", shares, start)
             added == IF shares = 0 THEN <<account>> ELSE <<account, position>>
  <2>2. ~account.voided /\ ~position.voided
    BY DEF Opening
  <2> HIDE DEF account, position
  <2>3. added \in Seq({account, position}) /\ \A n \in DOMAIN added : ~added[n].voided
    <3>1. added \in Seq({account, position})
      <4> DEFINE both == {account, position}
      <4>1. account \in both /\ position \in both
        OBVIOUS
      <4> HIDE DEF both
      <4>2. added \in Seq(both)
        BY <4>1
      <4> QED BY <4>2 DEF both
    <3>2. \A n \in DOMAIN added : added[n] = account \/ added[n] = position
      OBVIOUS
    <3> QED BY <3>1, <3>2, <2>2
  <2>4. events' = events \o added
    BY <2>1 DEF account, position
  <2> HIDE DEF added
  <2>5. \A n \in DOMAIN events' :
          \/ n \in DOMAIN events /\ events'[n] = events[n]
          \/ n - Len(events) \in DOMAIN added /\ events'[n] = added[n - Len(events)]
    BY <2>3, <2>4, <1>1 DEF TypeOK
  <2> QED BY <2>3, <2>5 DEF FactsStand
<1>3. ASSUME NEW target, NEW value, Correct(target, value)
      PROVE  FactsStand'
  <2>1. events' = Append(events, Correction(target, value))
    BY <1>3, CorrectionIsRecord
  <2>2. ~Correction(target, value).voided
    BY DEF Correction
  <2> QED BY <2>1, <2>2, <1>1 DEF FactsStand, TypeOK
<1>4. ASSUME NEW i \in TradeIds, Void(i)
      PROVE  FactsStand'
  BY <1>4, CascadeOnlyVoids DEF FactsStand, Corrections, OfType
<1>5. ASSUME NEW amount \in Amounts, CashEvent(amount)
      PROVE  FactsStand'
  <2>1. events' = Append(events, Opening("CASH", amount, 0))
    BY <1>5 DEF CashEvent
  <2>2. ~Opening("CASH", amount, 0).voided
    BY DEF Opening
  <2> QED BY <2>1, <2>2, <1>1 DEF FactsStand, TypeOK
<1>6. CASE UNCHANGED events
  BY <1>6 DEF FactsStand
<1> QED BY <1>2, <1>3, <1>4, <1>5, <1>6 DEF Next, RecordTrade, ReadEvents, ReadTrades, Tick, vars

LEMMA ChainsStep ==
  ASSUME LedgerInv, [Next]_vars
  PROVE  TargetsResolve' /\ AuditChain'
<1> USE DEF LedgerInv
<1>1. CASE Bootstrap
  <2>1. trades' = trades
    BY <1>1 DEF Bootstrap
  <2> QED BY <1>1, <2>1, BootstrapContinues, FactsKeepChains
<1>2. ASSUME NEW i \in TradeIds, NEW operation \in {"buy", "sell"},
             NEW quantity \in Quantities \cup {0}, RecordTrade(i, operation, quantity)
      PROVE  TargetsResolve' /\ AuditChain'
  <2>1. /\ events' = events /\ DOMAIN trades \subseteq DOMAIN trades'
        /\ \A j \in DOMAIN trades : trades'[j] = trades[j]
    BY <1>2 DEF RecordTrade
  <2>2. \A target : Resolves(events, trades, target) =>
          /\ Resolves(events, trades', target)
          /\ BaseValue(events, trades', target) = BaseValue(events, trades, target)
    BY <2>1 DEF Resolves, BaseValue, Executed, Standing, TradeKey, EventKey
  <2>3. ASSUME NEW n \in OfType(events, "CORRECTION"), ~events[n].voided
        PROVE  Resolves(events, trades', events[n].target) /\ Chained(events, trades', n)
    <3>1. Resolves(events, trades, events[n].target) /\ Chained(events, trades, n)
      BY <2>3 DEF TargetsResolve, AuditChain
    <3> QED BY <3>1, <2>2 DEF Chained
  <2> QED BY <2>1, <2>3 DEF TargetsResolve, AuditChain
<1>3. ASSUME NEW target, NEW value, Correct(target, value)
      PROVE  TargetsResolve' /\ AuditChain'
  BY <1>3, CorrectKeepsChains
<1>4. ASSUME NEW i \in TradeIds, Void(i)
      PROVE  TargetsResolve' /\ AuditChain'
  BY <1>4, VoidKeepsChains
<1>5. ASSUME NEW amount \in Amounts, CashEvent(amount)
      PROVE  TargetsResolve' /\ AuditChain'
  <2>1. trades' = trades
    BY <1>5 DEF CashEvent
  <2> QED BY <1>5, <2>1, CashContinues, FactsKeepChains
<1>6. CASE UNCHANGED <<events, trades>>
  BY <1>6 DEF TargetsResolve, AuditChain
<1> QED BY <1>1, <1>2, <1>3, <1>4, <1>5, <1>6 DEF Next, ReadEvents, ReadTrades, Tick, vars

LEMMA ReadersStep ==
  ASSUME LedgerInv, [Next]_vars
  PROVE  ReadersHoldTheLedger'
<1> USE DEF LedgerInv
<1>1. CASE Writable /\ reader' = reader
  BY <1>1 DEF Writable, ReadersHoldTheLedger
<1>2. CASE UNCHANGED <<events, reader>>
  BY <1>2 DEF ReadersHoldTheLedger
<1>3. ASSUME NEW r \in Readers, ReadEvents(r)
      PROVE  ReadersHoldTheLedger'
  BY <1>3 DEF ReadEvents, ReadersHoldTheLedger, TypeOK
<1>4. ASSUME NEW r \in Readers, ReadTrades(r)
      PROVE  ReadersHoldTheLedger'
  <2>1. PICK now \in clock .. MaxClock :
          reader' = [reader EXCEPT ![r] =
            [pc |-> "idle", events |-> <<>>, answer |-> Position(reader[r].events, trades, now)]]
    BY <1>4 DEF ReadTrades
  <2> QED BY <1>4, <2>1 DEF ReadTrades, ReadersHoldTheLedger, TypeOK
<1> QED BY <1>1, <1>2, <1>3, <1>4
  DEF Next, Bootstrap, RecordTrade, Correct, Void, CashEvent, Tick, vars

LEMMA LedgerInit == ASSUME Init PROVE LedgerInv
<1>1. TypeOK
  BY TypeInit
<1>2. DOMAIN events = {}
  BY DEF Init
<1>3. \A r \in Readers : reader[r].pc = "idle"
  BY DEF Init
<1> QED BY <1>1, <1>2, <1>3
  DEF LedgerInv, FactsStand, TargetsResolve, AuditChain, ReadersHoldTheLedger, OfType

LEMMA LedgerStep ==
  ASSUME LedgerInv, [Next]_vars
  PROVE  LedgerInv'
<1>1. TypeOK'
  BY TypeStep DEF LedgerInv
<1> QED BY <1>1, FactsStandStep, ChainsStep, ReadersStep DEF LedgerInv

\* The inductive invariant: what is voided is a correction, every other
\* correction resolves and chains, and a reader holds the ledger it has read.
THEOREM LedgerInvariant == Spec => []LedgerInv
<1>1. Init => LedgerInv
  BY LedgerInit
<1>2. LedgerInv /\ [Next]_vars => LedgerInv'
  BY LedgerStep
<1> QED BY <1>1, <1>2, PTL DEF Spec

\* An active correction never loses its target, in any order of corrections and
\* voided trades (position_reality_service.py:583-657).
THEOREM CorrectionsResolve == Spec => []TargetsResolve
<1>1. LedgerInv => TargetsResolve
  BY DEF LedgerInv
<1> QED BY <1>1, LedgerInvariant, PTL

\* The before_payload of the active corrections of a fact form a chain
\* (position_reality_service.py:396-424).
THEOREM CorrectionsChain == Spec => []AuditChain
<1>1. LedgerInv => AuditChain
  BY DEF LedgerInv
<1> QED BY <1>1, LedgerInvariant, PTL

--------------------------------------------------------------------------------
(***************************************************************************)
(* Readers and derivability.                                                *)
(***************************************************************************)
\* What a reader answers is one state of the ledger: writers wait for the end
\* of its transaction (account_event_store.py:461-490).
THEOREM ReadsAreOfOneState == Spec => ReadsAreSnapshots
<1>1. ASSUME LedgerInv, [Next]_vars
      PROVE  [\A r \in Readers :
                reader[r].pc = "reading" /\ reader'[r].pc = "idle" =>
                  \E now \in clock .. MaxClock :
                    reader'[r].answer = Position(events, trades, now)]_vars
  <2>1. SUFFICES ASSUME NEW r \in Readers, reader[r].pc = "reading", reader'[r].pc = "idle"
                 PROVE  \E now \in clock .. MaxClock :
                          reader'[r].answer = Position(events, trades, now)
    OBVIOUS
  <2>2. ~UNCHANGED vars /\ reader' # reader
    BY <2>1 DEF vars
  <2>3. PICK q \in Readers : ReadEvents(q) \/ ReadTrades(q)
    BY <2>2, <1>1 DEF Next, Bootstrap, RecordTrade, Correct, Void, CashEvent, Tick
  <2>4. ASSUME ReadEvents(q) PROVE FALSE
    BY <2>4, <2>1, <1>1 DEF ReadEvents, LedgerInv, TypeOK
  <2>5. PICK now \in clock .. MaxClock :
          reader' = [reader EXCEPT ![q] =
            [pc |-> "idle", events |-> <<>>, answer |-> Position(reader[q].events, trades, now)]]
    BY <2>3, <2>4 DEF ReadTrades
  <2>6. q = r
    BY <2>1, <2>5, <1>1 DEF LedgerInv, TypeOK
  <2>7. reader[r].events = events
    BY <2>1, <1>1 DEF LedgerInv, ReadersHoldTheLedger
  <2>8. reader'[r].answer = Position(events, trades, now)
    BY <2>5, <2>6, <2>7, <1>1 DEF LedgerInv, TypeOK
  <2> QED BY <2>8
<1>2. LedgerInv /\ [Next]_vars =>
        [\A r \in Readers :
           reader[r].pc = "reading" /\ reader'[r].pc = "idle" =>
             \E now \in clock .. MaxClock :
               reader'[r].answer = Position(events, trades, now)]_vars
  BY <1>1
<1> QED BY <1>2, LedgerInvariant, PTL DEF Spec, ReadsAreSnapshots

\* A replay of every fact replays every shorter history on its way.
LEMMA ForeverCoversAll ==
  ASSUME NEW E, NEW T, \A i \in DOMAIN T : T[i] \in TradeRecords,
         Derivable(E, T, Forever), NEW t \in Instants
  PROVE  Derivable(E, T, t)
<1>1. t <= Forever /\ t \in Nat /\ Forever \in Nat
  BY LedgerAssumption DEF Instants, Forever
<1>2. \A i \in Executed(T) : T[i].executed \in Nat /\ i \in DOMAIN T
  BY LedgerAssumption DEF TradeRecords, Executed, Standing, Instants
<1>3. Current(T, t) \subseteq Current(T, Forever)
  BY <1>1, <1>2 DEF Current
<1>4. ASSUME NEW i \in Current(T, t)
      PROVE  Holding(E, T, {j \in Current(T, t) : j = i \/ Precedes(T, j, i)}) >= 0
  <2>1. \A j \in Current(T, Forever) : j = i \/ Precedes(T, j, i) => j \in Current(T, t)
    BY <1>1, <1>2, <1>4 DEF Current, Precedes
  <2>2. {j \in Current(T, t) : j = i \/ Precedes(T, j, i)}
          = {j \in Current(T, Forever) : j = i \/ Precedes(T, j, i)}
    BY <1>3, <2>1
  <2> QED BY <1>3, <1>4, <2>2 DEF Derivable, NeverOversold
<1>5. NeverOversold(E, T, t)
  BY <1>4 DEF NeverOversold
<1> QED BY <1>5 DEF Derivable

\* A cash event changes no replay.
LEMMA CashChangesNoReplay ==
  ASSUME LedgerInv, NEW amount \in Amounts, CashEvent(amount), NEW t \in Instants,
         Derivable(events, trades, t)
  PROVE  Derivable(events', trades', t)
<1>1. trades' = trades /\ events' = Append(events, Opening("CASH", amount, 0))
  BY DEF CashEvent
<1>2. Opening("CASH", amount, 0).type = "CASH"
  BY DEF Opening
<1>3. /\ DOMAIN events \subseteq DOMAIN events'
      /\ \A n \in DOMAIN events : events'[n] = events[n]
      /\ \A n \in DOMAIN events' : n \in DOMAIN events \/ events'[n].type = "CASH"
  BY <1>1, <1>2 DEF LedgerInv, TypeOK
<1>4. /\ OfType(events', "ACCOUNT_OPENING") = OfType(events, "ACCOUNT_OPENING")
      /\ OfType(events', "LEGACY_POSITION_OPENING") = OfType(events, "LEGACY_POSITION_OPENING")
      /\ OfType(events', "CORRECTION") = OfType(events, "CORRECTION")
  BY <1>3 DEF OfType
<1>5. \A target, base : Effective(events', target, base) = Effective(events, target, base)
  BY CashContinues, FactsKeepCorrections DEF LedgerInv, TypeOK
<1>6. Openings(events') = Openings(events)
  BY <1>3, <1>4, <1>5 DEF Openings, OfType
<1>7. Moves(events', trades) = Moves(events, trades)
  BY <1>5 DEF Moves
<1>8. \A applied : Holding(events', trades, applied) = Holding(events, trades, applied)
  BY <1>6, <1>7 DEF Holding
<1>9. NeverOversold(events', trades, t)
  BY <1>8 DEF Derivable, NeverOversold
<1>10. \A n \in OfType(events, "CORRECTION") : ~events'[n].voided =>
         Resolves(events', trades, events'[n].target)
  BY <1>3 DEF Derivable, Resolves, OfType
<1>11. \A n \in OfType(events, "ACCOUNT_OPENING") : events'[n] = events[n]
  BY <1>3 DEF OfType
<1> QED BY <1>1, <1>4, <1>9, <1>10, <1>11 DEF Derivable

\* Once an account is open only corrections and voided trades can make a
\* derivable ledger underivable (position_reality_service.py:775-795).
THEOREM LedgerStaysDerivable == Spec => StaysDerivable
<1> DEFINE Broken ==
      OfType(events, "ACCOUNT_OPENING") # {} /\ Sound /\ ~Sound' =>
        \/ OfType(events', "CORRECTION") # OfType(events, "CORRECTION")
        \/ Standing(trades') # Standing(trades) /\ DOMAIN trades' = DOMAIN trades
<1>1. ASSUME LedgerInv, LedgerInv', [Next]_vars
      PROVE  [Broken]_vars
  <2>1. SUFFICES ASSUME OfType(events, "ACCOUNT_OPENING") # {}, Sound, ~Sound'
                 PROVE  \/ OfType(events', "CORRECTION") # OfType(events, "CORRECTION")
                        \/ Standing(trades') # Standing(trades) /\ DOMAIN trades' = DOMAIN trades
    OBVIOUS
  <2>2. DOMAIN events = 1 .. Len(events) /\ Len(events) \in Nat
    BY <1>1, RowsAreFields DEF LedgerInv, TypeOK
  <2>3. ASSUME Bootstrap PROVE FALSE
    <3>1. PICK n \in DOMAIN events : events[n].type = "ACCOUNT_OPENING"
      BY <2>1 DEF OfType
    <3> QED BY <2>3, <3>1, <1>1 DEF Bootstrap, LedgerInv, FactsStand
  <2>4. ASSUME NEW i \in TradeIds, NEW operation \in {"buy", "sell"},
               NEW quantity \in Quantities \cup {0}, RecordTrade(i, operation, quantity)
        PROVE  FALSE
    <3>1. events' = events /\ Derivable(events, trades', Forever)
      BY <2>1, <2>4 DEF RecordTrade, Proven
    <3>2. \A j \in DOMAIN trades' : trades'[j] \in TradeRecords
      BY <1>1 DEF LedgerInv, TypeOK
    <3>3. \A t \in Instants : Derivable(events, trades', t)
      BY <3>1, <3>2, ForeverCoversAll
    <3> QED BY <2>1, <3>1, <3>3 DEF Sound
  <2>5. ASSUME NEW target, NEW value, Correct(target, value)
        PROVE  OfType(events', "CORRECTION") # OfType(events, "CORRECTION")
    <3> DEFINE last == Len(events) + 1
    <3>1. events' = Append(events, Correction(target, value))
      BY <2>5, <1>1, CorrectionIsRecord DEF LedgerInv
    <3>2. last \in DOMAIN events' /\ events'[last] = Correction(target, value)
          /\ last \notin DOMAIN events
      BY <3>1, <2>2, <1>1 DEF LedgerInv, TypeOK
    <3>3. events'[last].type = "CORRECTION"
      BY <3>2 DEF Correction
    <3> QED BY <3>2, <3>3 DEF OfType
  <2>6. ASSUME NEW i \in TradeIds, Void(i)
        PROVE  Standing(trades') # Standing(trades) /\ DOMAIN trades' = DOMAIN trades
    <3>1. /\ i \in DOMAIN trades /\ trades' = [trades EXCEPT ![i].voided = TRUE]
          /\ trades[i] \in TradeRecords
      BY <2>6, <1>1 DEF Void, LedgerInv, TypeOK
    <3>2. ~trades[i].voided
      <4>1. SUFFICES ASSUME trades[i].voided PROVE FALSE
        OBVIOUS
      <4>2. PICK n \in Corrections(events, TradeKey(i)) : TRUE
        BY <2>6, <4>1 DEF Void
      <4>3. n \in OfType(events, "CORRECTION") /\ ~events[n].voided
            /\ events[n].target = TradeKey(i)
        BY <4>2 DEF Corrections
      <4>4. Resolves(events, trades, TradeKey(i))
        BY <4>3, <1>1 DEF LedgerInv, TargetsResolve
      <4> QED BY <4>1, <4>4 DEF Resolves, Executed, Standing, TradeKey, EventKey
    <3>3. DOMAIN trades' = DOMAIN trades /\ trades'[i].voided
      BY <3>1 DEF TradeRecords
    <3> QED BY <3>1, <3>2, <3>3 DEF Standing
  <2>7. ASSUME NEW amount \in Amounts, CashEvent(amount) PROVE FALSE
    <3>1. \A t \in Instants : Derivable(events', trades', t)
      BY <2>7, <2>1, <1>1, CashChangesNoReplay DEF Sound
    <3> QED BY <3>1, <2>1 DEF Sound
  <2>8. ASSUME UNCHANGED <<events, trades>> PROVE FALSE
    BY <2>8, <2>1 DEF Sound
  <2> QED BY <1>1, <2>3, <2>4, <2>5, <2>6, <2>7, <2>8
    DEF Next, ReadEvents, ReadTrades, Tick, vars
<1>2. LedgerInv /\ LedgerInv' /\ [Next]_vars => [Broken]_vars
  BY <1>1
<1> QED BY <1>2, LedgerInvariant, PTL DEF Spec, StaysDerivable

================================================================================
