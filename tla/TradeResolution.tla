---------------------------- MODULE TradeResolution ----------------------------
(***************************************************************************)
(* How an executed trade gets its origin: attributed to a Frozen Decision  *)
(* in one database, or declared UNPLANNED in another, never both.  The two *)
(* stores share no transaction; what excludes the second write is a guard  *)
(* made of a process lock and of the write reservation of a third          *)
(* database, the trade ledger, in which trades are created and voided.     *)
(***************************************************************************)
EXTENDS Naturals, FiniteSets

CONSTANTS
  Requests, Processes,
  ProcessOf,   \* the process each request runs in
  Trades, Decisions,
  Matches,     \* <<t, d>>: security and Thesis reference of t are those of d
  Planned,     \* trades created with a reference to a Thesis
  Instants,    \* bound: the instants trades and decisions are stamped with
  Tolerance,   \* how far ahead of its creation a trade may be executed
  None

ASSUME ProcessOfAssumption == ProcessOf \in [Requests -> Processes]
ASSUME MatchesAssumption == Matches \subseteq Trades \X Decisions
ASSUME PlannedAssumption == Planned \subseteq Trades
ASSUME InstantsAssumption == Instants \subseteq Nat \ {0} /\ Tolerance \in Nat

\* What a request or a reconciliation answers, unless it names a decision.
Replies == {"NONE", "REFUSED", "NOT_APPLICABLE", "ERROR", "UNALLOCATED", "CONFLICTING",
            "UNPLANNED"}

ASSUME NoneAssumption == None \notin Decisions \union Requests \union Trades \union Replies
ASSUME RepliesAssumption == Decisions \intersect Replies = {}

VARIABLES
  trade,        \* trade_records: state, created_at, executed_at
  decision,     \* committed_at of each Frozen Decision, 0 before it exists
  file,         \* each store: "absent", "empty" (no table yet) or "ready"
  unplanned,    \* trades with a row in the origin store
  attribution,  \* the decision of each trade in the attribution store
  lock,         \* TRADE_RESOLUTION_LOCK of each process
  writer,       \* holder of the trade ledger's write reservation
  req           \* local state of each request

ledgers == <<trade, decision>>
stores == <<file, unplanned, attribution>>
guard == <<lock, writer>>
vars == <<ledgers, stores, guard, req>>

Stores == {"origin", "attribution"}
Other(store) == IF store = "origin" THEN "attribution" ELSE "origin"

IdleRequest ==
  [pc |-> "idle", store |-> "origin", trade |-> None, decision |-> None,
   seen |-> FALSE, answer |-> "NONE"]

Init ==
  /\ trade = [t \in Trades |-> [state |-> "absent", created |-> 0, executed |-> 0]]
  /\ decision = [d \in Decisions |-> 0]
  /\ file = [s \in Stores |-> "absent"]
  /\ unplanned = {}
  /\ attribution = [t \in Trades |-> None]
  /\ lock = [p \in Processes |-> None]
  /\ writer = None
  /\ req = [r \in Requests |-> IdleRequest]

At(r, pc) == req[r].pc = pc
Goto(r, pc) == req' = [req EXCEPT ![r].pc = pc]
Answer(r, a) == req' = [req EXCEPT ![r].pc = "idle", ![r].answer = a]

Standing(t) == trade[t].state = "executed"

\* A row for the trade in a store.
Present(store, t) ==
  IF store = "origin" THEN t \in unplanned ELSE attribution[t] # None

--------------------------------------------------------------------------------
(***************************************************************************)
(* Requests.                                                               *)
(***************************************************************************)
\* Same security, and the Thesis revision the trade names if it names one.
Concerns(t, d) == <<t, d>> \in Matches

\* Mutant: only the creation of the trade is compared.
PrecedesCreation(t, d) == decision[d] <= trade[t].created

\* Committed before the trade was recorded and before it was executed.
Precedes(t, d) == decision[d] <= trade[t].created /\ decision[d] <= trade[t].executed

Eligible(t, d) == decision[d] # 0 /\ Concerns(t, d) /\ Precedes(t, d)

\* A refused request changes nothing, so only accepted ones are requested.
RequestAttribution(r, t, d) ==
  /\ At(r, "idle")
  /\ Standing(t)
  /\ Eligible(t, d)
  /\ req' = [req EXCEPT ![r] = [IdleRequest EXCEPT !.pc = "lock", !.store = "attribution",
                                                  !.trade = t, !.decision = d]]
  /\ UNCHANGED <<ledgers, stores, guard>>

RequestUnplanned(r, t) ==
  /\ At(r, "idle")
  /\ Standing(t)
  /\ t \notin Planned
  /\ req' = [req EXCEPT ![r] = [IdleRequest EXCEPT !.pc = "lock", !.store = "origin",
                                                  !.trade = t]]
  /\ UNCHANGED <<ledgers, stores, guard>>

--------------------------------------------------------------------------------
(***************************************************************************)
(* The guard.                                                              *)
(***************************************************************************)
AcquireLock(r) ==
  /\ At(r, "lock")
  /\ lock[ProcessOf[r]] = None
  /\ lock' = [lock EXCEPT ![ProcessOf[r]] = r]
  /\ Goto(r, "reserve")
  /\ UNCHANGED <<ledgers, stores, writer>>

\* BEGIN IMMEDIATE on the trade ledger.
Reserve(r) ==
  /\ At(r, "reserve")
  /\ writer = None
  /\ writer' = r
  /\ Goto(r, "recheck")
  /\ UNCHANGED <<ledgers, stores, lock>>

\* Mutant: the lock is kept when there was nothing to roll back.
ReleaseReserved(r) ==
  /\ writer' = IF writer = r THEN None ELSE writer
  /\ lock' = IF writer = r THEN [lock EXCEPT ![ProcessOf[r]] = None] ELSE lock

Release(r) ==
  /\ lock' = [lock EXCEPT ![ProcessOf[r]] = None]
  /\ writer' = IF writer = r THEN None ELSE writer

\* The request ends: the reservation is rolled back, the lock released.
Finish(r, answer) == Release(r) /\ Answer(r, answer)

\* Another connection keeps the reservation for longer than the timeout.
ReserveBusy(r) ==
  /\ At(r, "reserve")
  /\ writer # None
  /\ Finish(r, "REFUSED")
  /\ UNCHANGED <<ledgers, stores>>

\* Mutant: what was read before the wait is trusted.
StillStandingTrusted(r) == TRUE

StillStanding(r) == Standing(req[r].trade)

\* The trade may have been voided while the request waited.
Recheck(r) ==
  /\ At(r, "recheck")
  /\ IF StillStanding(r)
       THEN Goto(r, "other") /\ UNCHANGED guard
       ELSE Finish(r, "REFUSED")
  /\ UNCHANGED <<ledgers, stores>>

--------------------------------------------------------------------------------
(***************************************************************************)
(* Check and write.  A store whose file has no table is refused.           *)
(***************************************************************************)
Readable(store) == file[store] # "empty"

\* The other authority first: it must have nothing to say of this trade.
ReadOther(r) ==
  LET other == Other(req[r].store) IN
  /\ At(r, "other")
  /\ IF Readable(other) /\ ~Present(other, req[r].trade)
       THEN Goto(r, "own") /\ UNCHANGED guard
       ELSE Finish(r, "REFUSED")
  /\ UNCHANGED <<ledgers, stores>>

\* Mutant: any row of the trade is taken for the requested one.
SameResolutionAssumed(r) == TRUE

\* The row found says what the request asks for.
SameResolution(r) ==
  req[r].store = "origin" \/ attribution[req[r].trade] = req[r].decision

Requested(r) == IF req[r].store = "origin" THEN "UNPLANNED" ELSE req[r].decision

\* A replay of the same resolution is answered with the row; another is a
\* conflict.
ReadOwn(r) ==
  LET own == req[r].store IN
  /\ At(r, "own")
  /\ IF Readable(own) /\ ~Present(own, req[r].trade)
       THEN Goto(r, "open") /\ UNCHANGED guard
       ELSE Finish(r, IF Readable(own) /\ SameResolution(r) THEN Requested(r)
                                                            ELSE "REFUSED")
  /\ UNCHANGED <<ledgers, stores>>

\* The first write creates the file before it creates the table.
OpenStore(r) ==
  LET own == req[r].store IN
  /\ At(r, "open")
  /\ IF file[own] = "ready"
       THEN Goto(r, "insert") /\ UNCHANGED file
       ELSE Goto(r, "create") /\ file' = [file EXCEPT ![own] = "empty"]
  /\ UNCHANGED <<ledgers, unplanned, attribution, guard>>

CreateTable(r) ==
  /\ At(r, "create")
  /\ file' = [file EXCEPT ![req[r].store] = "ready"]
  /\ Goto(r, "insert")
  /\ UNCHANGED <<ledgers, unplanned, attribution, guard>>

InsertResolution(r) ==
  LET t == req[r].trade IN
  /\ At(r, "insert")
  /\ IF req[r].store = "origin"
       THEN unplanned' = unplanned \union {t} /\ UNCHANGED attribution
       ELSE attribution' = [attribution EXCEPT ![t] = req[r].decision] /\ UNCHANGED unplanned
  /\ Goto(r, "release")
  /\ UNCHANGED <<ledgers, file, guard>>

ReleaseGuard(r) ==
  /\ At(r, "release")
  /\ Finish(r, Requested(r))
  /\ UNCHANGED <<ledgers, stores>>

\* A database error under the guard; the statement is rolled back.
StoreFails(r) ==
  /\ req[r].pc \in {"recheck", "other", "own", "create", "insert"}
  /\ Finish(r, "REFUSED")
  /\ UNCHANGED <<ledgers, stores>>

--------------------------------------------------------------------------------
(***************************************************************************)
(* Reconciliation reads the three databases one after the other, without   *)
(* the guard.                                                              *)
(***************************************************************************)
ReadTrade(r, t) ==
  /\ At(r, "idle")
  /\ trade[t].state # "absent"
  /\ req' = [req EXCEPT ![r] =
               IF Standing(t)
                 THEN [IdleRequest EXCEPT !.pc = "readOrigin", !.trade = t]
                 ELSE [IdleRequest EXCEPT !.answer = "NOT_APPLICABLE", !.trade = t]]
  /\ UNCHANGED <<ledgers, stores, guard>>

ReadOrigin(r) ==
  /\ At(r, "readOrigin")
  /\ IF Readable("origin")
       THEN req' = [req EXCEPT ![r].pc = "readAttribution",
                               ![r].seen = req[r].trade \in unplanned]
       ELSE Answer(r, "ERROR")
  /\ UNCHANGED <<ledgers, stores, guard>>

\* Two authorities for one trade are an error, not a choice.
Report(seen, attributed) ==
  IF seen THEN (IF attributed = None THEN "UNPLANNED" ELSE "CONFLICTING")
          ELSE (IF attributed = None THEN "UNALLOCATED" ELSE attributed)

ReadAttribution(r) ==
  /\ At(r, "readAttribution")
  /\ Answer(r, IF Readable("attribution")
                 THEN Report(req[r].seen, attribution[req[r].trade])
                 ELSE "ERROR")
  /\ UNCHANGED <<ledgers, stores, guard>>

--------------------------------------------------------------------------------
(***************************************************************************)
(* The other writers of the ledgers, and the death of a process.           *)
(***************************************************************************)
CreateTrade(t, created, executed) ==
  /\ trade[t].state = "absent"
  /\ writer = None
  /\ executed <= created + Tolerance
  /\ trade' = [trade EXCEPT ![t] = [state |-> "executed", created |-> created,
                                    executed |-> executed]]
  /\ UNCHANGED <<decision, stores, guard, req>>

VoidTrade(t) ==
  /\ Standing(t)
  /\ writer = None
  /\ trade' = [trade EXCEPT ![t].state = "voided"]
  /\ UNCHANGED <<decision, stores, guard, req>>

CommitDecision(d, at) ==
  /\ decision[d] = 0
  /\ decision' = [decision EXCEPT ![d] = at]
  /\ UNCHANGED <<trade, stores, guard, req>>

Inside(p) == {r \in Requests : ProcessOf[r] = p}

\* SQLite gives the reservation back; what was committed stays, a file
\* without its table too.
ProcessDies(p) ==
  /\ \E r \in Inside(p) : ~At(r, "idle")
  /\ req' = [r \in Requests |-> IF ProcessOf[r] = p THEN IdleRequest ELSE req[r]]
  /\ lock' = [lock EXCEPT ![p] = None]
  /\ writer' = IF writer \in Inside(p) THEN None ELSE writer
  /\ UNCHANGED <<ledgers, stores>>

--------------------------------------------------------------------------------
Begin(r) ==
  \E t \in Trades :
    \/ \E d \in Decisions : RequestAttribution(r, t, d)
    \/ RequestUnplanned(r, t)
    \/ ReadTrade(r, t)

\* The steps a running thread takes.
Step(r) ==
  \/ AcquireLock(r) \/ Reserve(r) \/ ReserveBusy(r) \/ Recheck(r)
  \/ ReadOther(r) \/ ReadOwn(r)
  \/ OpenStore(r) \/ CreateTable(r) \/ InsertResolution(r) \/ ReleaseGuard(r)
  \/ ReadOrigin(r) \/ ReadAttribution(r)

Environment ==
  \/ \E t \in Trades :
       \/ \E created, executed \in Instants : CreateTrade(t, created, executed)
       \/ VoidTrade(t)
  \/ \E d \in Decisions, at \in Instants : CommitDecision(d, at)
  \/ \E p \in Processes : ProcessDies(p)

Next ==
  \/ \E r \in Requests : Begin(r) \/ Step(r) \/ StoreFails(r)
  \/ Environment

Spec == Init /\ [][Next]_vars

\* Threads keep running and a wait for the reservation is bounded; nothing is
\* assumed of clients, of failures or of the lock being granted to a waiter.
FairSpec == Spec /\ \A r \in Requests : WF_vars(Step(r))
--------------------------------------------------------------------------------
(***************************************************************************)
(* Properties.                                                             *)
(***************************************************************************)
RequestStates ==
  [pc : {"idle", "lock", "reserve", "recheck", "other", "own", "open", "create",
         "insert", "release", "readOrigin", "readAttribution"},
   store : Stores, trade : Trades \union {None}, decision : Decisions \union {None},
   seen : BOOLEAN, answer : Replies \union Decisions]

\* Type invariant; a busy request has a trade, an attribution a decision.
TypeOK ==
  /\ trade \in [Trades -> [state : {"absent", "executed", "voided"}, created : Nat,
                           executed : Nat]]
  /\ decision \in [Decisions -> Nat]
  /\ file \in [Stores -> {"absent", "empty", "ready"}]
  /\ unplanned \subseteq Trades
  /\ attribution \in [Trades -> Decisions \union {None}]
  /\ lock \in [Processes -> Requests \union {None}]
  /\ writer \in Requests \union {None}
  /\ req \in [Requests -> RequestStates]
  /\ \A r \in Requests :
       /\ ~At(r, "idle") \/ req[r].answer \in Decisions => req[r].trade \in Trades
       /\ ~At(r, "idle") /\ req[r].store = "attribution" => req[r].decision \in Decisions

\* A trade is never both UNPLANNED and attributed, however requests of several
\* processes interleave and whichever of them dies.
OneAuthority == \A t \in unplanned : attribution[t] = None

\* A trade is attributed to no decision that was made after it: committed
\* later than the trade was recorded, or than it was executed.
NoHindsight ==
  \A t \in Trades :
    LET d == attribution[t] IN
    d # None =>
      /\ <<t, d>> \in Matches
      /\ decision[d] # 0
      /\ decision[d] <= trade[t].created
      /\ decision[d] <= trade[t].executed

\* What a request or a reconciliation was told stays true, and no reader ever
\* sees two authorities, although it reads them one after the other.
AnswersStand ==
  \A r \in Requests :
    LET a == req[r].answer IN
    /\ a # "CONFLICTING"
    /\ a = "UNPLANNED" => req[r].trade \in unplanned
    /\ a \in Decisions => attribution[req[r].trade] = a

Resolution == [t \in Trades |-> IF t \in unplanned THEN "UNPLANNED" ELSE attribution[t]]

Abstract ==
  INSTANCE TradeResolutions WITH
    Unresolved <- None,
    resolution <- Resolution,
    standing   <- {t \in Trades : Standing(t)}

\* A trade is resolved once, only while it stands, and its resolution is never
\* changed: the abstract specification.
ImplementsResolutions == Abstract!Spec

\* Whatever fails or dies, the lock of every process and the reservation of the
\* trade ledger are given back.
GuardIsReleased ==
  /\ \A p \in Processes : []<>(lock[p] = None)
  /\ []<>(writer = None)

\* tests/test_trade_attribution_runtime.py: when a process is terminated inside
\* the guard, the next request resolves the trade. With nobody inside the
\* guard, both stores can be written.
StoresOutliveTheirWriter == writer = None => \A s \in Stores : Readable(s)

(***************************************************************************)
(* Why it holds: from the recheck on, a request owns the reservation, so   *)
(* what it has found absent stays absent and the trade stands.             *)
(***************************************************************************)
Guarded(r) == req[r].pc \in {"recheck", "other", "own", "open", "create", "insert", "release"}

GuardIsHeld ==
  \A r \in Requests :
    /\ Guarded(r) => writer = r
    /\ req[r].pc \in {"other", "own", "open", "create", "insert"} => Standing(req[r].trade)
    /\ req[r].pc \in {"own", "open", "create", "insert"} =>
         ~Present(Other(req[r].store), req[r].trade)
    /\ req[r].pc \in {"open", "create", "insert"} => ~Present(req[r].store, req[r].trade)
    /\ At(r, "release") =>
         IF req[r].store = "origin" THEN req[r].trade \in unplanned
                                    ELSE attribution[req[r].trade] = req[r].decision

\* The decision of an attribution under way was eligible when it was read, and
\* neither ledger changes what made it so.
RequestsAreEligible ==
  \A r \in Requests :
    ~At(r, "idle") /\ req[r].store = "attribution" => Eligible(req[r].trade, req[r].decision)

\* Nothing refers to a trade before it is created.
TradesExist ==
  \A t \in Trades : trade[t].state = "absent" =>
    attribution[t] = None /\ trade[t].created = 0

SightingsAreTrue ==
  \A r \in Requests : At(r, "readAttribution") /\ req[r].seen => req[r].trade \in unplanned

\* The inductive invariant of trade resolution.
ResolutionInv ==
  /\ TypeOK
  /\ GuardIsHeld /\ RequestsAreEligible /\ TradesExist /\ SightingsAreTrue
  /\ OneAuthority /\ NoHindsight /\ AnswersStand
================================================================================
