------------------------- MODULE TradeResolutionProofs -------------------------
(***************************************************************************)
(* Proofs about TradeResolution for every set of processes, requests,      *)
(* trades, decisions and instants.                                         *)
(***************************************************************************)
EXTENDS TradeResolution, TLAPS

(***************************************************************************)
(* ResolutionInv speaks of the databases and of each request by itself.    *)
(***************************************************************************)
SharedInv ==
  /\ trade \in [Trades -> [state : {"absent", "executed", "voided"}, created : Nat,
                           executed : Nat]]
  /\ decision \in [Decisions -> Nat]
  /\ file \in [Stores -> {"absent", "empty", "ready"}]
  /\ unplanned \subseteq Trades
  /\ attribution \in [Trades -> Decisions \union {None}]
  /\ lock \in [Processes -> Requests \union {None}]
  /\ writer \in Requests \union {None}
  /\ TradesExist /\ OneAuthority /\ NoHindsight

Typed(q) ==
  /\ q \in RequestStates
  /\ q.pc # "idle" \/ q.answer \in Decisions => q.trade \in Trades
  /\ q.pc # "idle" /\ q.store = "attribution" => q.decision \in Decisions

\* What the databases must say of a request in state q, if r is its name.
Witnessed(q, r) ==
  /\ q.pc \in {"recheck", "other", "own", "open", "create", "insert", "release"} => writer = r
  /\ q.pc \in {"other", "own", "open", "create", "insert"} => Standing(q.trade)
  /\ q.pc \in {"own", "open", "create", "insert"} => ~Present(Other(q.store), q.trade)
  /\ q.pc \in {"open", "create", "insert"} => ~Present(q.store, q.trade)
  /\ q.pc = "release" =>
       IF q.store = "origin" THEN q.trade \in unplanned
                             ELSE attribution[q.trade] = q.decision
  /\ q.pc # "idle" /\ q.store = "attribution" => Eligible(q.trade, q.decision)
  /\ q.pc = "readAttribution" /\ q.seen => q.trade \in unplanned
  /\ q.answer # "CONFLICTING"
  /\ q.answer = "UNPLANNED" => q.trade \in unplanned
  /\ q.answer \in Decisions => attribution[q.trade] = q.answer

RequestInv(q, r) == Typed(q) /\ Witnessed(q, r)

EveryRequest == \A r \in Requests : RequestInv(req[r], r)

LEMMA InvSplits ==
  ASSUME req = [r \in Requests |-> req[r]]
  PROVE  ResolutionInv <=> SharedInv /\ EveryRequest
<1>1. TypeOK /\ TradesExist /\ OneAuthority /\ NoHindsight
        <=> SharedInv /\ \A r \in Requests : Typed(req[r])
  BY DEF TypeOK, SharedInv, Typed, At
<1>2. GuardIsHeld /\ RequestsAreEligible /\ SightingsAreTrue /\ AnswersStand
        <=> \A r \in Requests : Witnessed(req[r], r)
  <2>1. ASSUME NEW r \in Requests
        PROVE  /\ Guarded(r) <=> req[r].pc \in {"recheck", "other", "own", "open", "create",
                                                "insert", "release"}
               /\ \A pc \in STRING : At(r, pc) <=> req[r].pc = pc
    BY DEF Guarded, At
  <2>2. GuardIsHeld /\ RequestsAreEligible /\ SightingsAreTrue /\ AnswersStand
          => \A r \in Requests : Witnessed(req[r], r)
    BY <2>1, Zenon DEF GuardIsHeld, RequestsAreEligible, SightingsAreTrue, AnswersStand, Witnessed, At
  <2>3. (\A r \in Requests : Witnessed(req[r], r))
          => GuardIsHeld /\ RequestsAreEligible /\ SightingsAreTrue /\ AnswersStand
    BY <2>1, Zenon DEF GuardIsHeld, RequestsAreEligible, SightingsAreTrue, AnswersStand, Witnessed, At
  <2> QED BY <2>2, <2>3
<1> QED BY <1>1, <1>2 DEF ResolutionInv, EveryRequest, RequestInv

LEMMA IdleInv == ASSUME NEW r PROVE RequestInv(IdleRequest, r)
BY RepliesAssumption DEF RequestInv, Typed, Witnessed, IdleRequest, RequestStates, Stores, Replies

(***************************************************************************)
(* A step of one request leaves the others as they were: whoever is inside *)
(* the guard holds the reservation, so the others are outside.             *)
(***************************************************************************)
Steady == UNCHANGED <<trade, decision, unplanned, attribution>>

LEMMA OthersSteady ==
  ASSUME NEW q, NEW s, RequestInv(q, s), Steady, writer = s => writer' = s
  PROVE  RequestInv(q, s)'
BY DEF RequestInv, Typed, Witnessed, Steady, Standing, Present, Eligible, Concerns, Precedes

\* A step of r that writes no row.
LEMMA RequestStep ==
  ASSUME SharedInv, EveryRequest, Steady,
         NEW r \in Requests, NEW q, req' = [req EXCEPT ![r] = q],
         req = [s \in Requests |-> req[s]],
         RequestInv(q, r)',
         file' \in [Stores -> {"absent", "empty", "ready"}],
         lock' \in [Processes -> Requests \union {None}],
         writer' \in Requests \union {None},
         writer \notin {None, r} => writer' = writer
  PROVE  (SharedInv /\ EveryRequest)'
<1>1. SharedInv'
  BY DEF SharedInv, Steady, TradesExist, OneAuthority, NoHindsight
<1>2. ASSUME NEW s \in Requests PROVE RequestInv(req[s], s)'
  <2>1. CASE s = r
    BY <2>1
  <2>2. CASE s # r
    <3>1. req'[s] = req[s] /\ RequestInv(req[s], s)
      BY <2>2 DEF EveryRequest
    <3>2. writer = s => writer' = s
      BY <2>2, NoneAssumption
    <3> QED BY <3>1, <3>2, OthersSteady
  <2> QED BY <2>1, <2>2
<1> QED BY <1>1, <1>2 DEF EveryRequest

(***************************************************************************)
(* One lemma per action.                                                   *)
(***************************************************************************)
Inv == SharedInv /\ EveryRequest /\ req = [s \in Requests |-> req[s]]

LEMMA RequestAttributionKeeps ==
  ASSUME Inv, NEW r \in Requests, NEW t \in Trades, NEW d \in Decisions,
         RequestAttribution(r, t, d)
  PROVE  (SharedInv /\ EveryRequest)'
<1>1. PICK q : q = [IdleRequest EXCEPT !.pc = "lock", !.store = "attribution",
                                       !.trade = t, !.decision = d]
  OBVIOUS
<1>2. RequestInv(q, r)'
  BY <1>1, RepliesAssumption DEF RequestAttribution, RequestInv, Typed, Witnessed, IdleRequest, RequestStates,
     Stores, Replies, Eligible, Concerns, Precedes, ledgers
<1> QED BY <1>1, <1>2, RequestStep DEF Inv, RequestAttribution, Steady, ledgers, stores, guard, SharedInv

LEMMA RequestUnplannedKeeps ==
  ASSUME Inv, NEW r \in Requests, NEW t \in Trades, RequestUnplanned(r, t)
  PROVE  (SharedInv /\ EveryRequest)'
<1>1. PICK q : q = [IdleRequest EXCEPT !.pc = "lock", !.store = "origin", !.trade = t]
  OBVIOUS
<1>2. RequestInv(q, r)'
  BY <1>1, RepliesAssumption DEF RequestUnplanned, RequestInv, Typed, Witnessed, IdleRequest, RequestStates,
     Stores, Replies
<1> QED BY <1>1, <1>2, RequestStep DEF Inv, RequestUnplanned, Steady, ledgers, stores, guard, SharedInv

\* The request goes on: only its place in the code changes.
LEMMA GotoInv ==
  ASSUME Inv, NEW r \in Requests, NEW q,
         NEW pc \in {"reserve", "recheck", "other", "own", "open", "create", "insert"},
         req[r].pc \notin {"idle"},
         q = [req[r] EXCEPT !.pc = pc],
         Steady,
         pc # "reserve" => writer' = r,
         pc \in {"other", "own", "open", "create", "insert"} => Standing(q.trade),
         pc \in {"own", "open", "create", "insert"} => ~Present(Other(q.store), q.trade),
         pc \in {"open", "create", "insert"} => ~Present(q.store, q.trade)
  PROVE  RequestInv(q, r)'
BY DEF Inv, EveryRequest, RequestInv, Typed, Witnessed, RequestStates, Steady, Standing, Present,
       Eligible, Concerns, Precedes

LEMMA AcquireLockKeeps ==
  ASSUME Inv, NEW r \in Requests, AcquireLock(r)
  PROVE  (SharedInv /\ EveryRequest)'
<1>1. PICK q : q = [req[r] EXCEPT !.pc = "reserve"]
  OBVIOUS
<1>2. RequestInv(q, r)'
  BY <1>1, GotoInv DEF AcquireLock, Steady, ledgers, stores, At
<1>3. req' = [req EXCEPT ![r] = q]
  BY <1>1 DEF AcquireLock, Goto
<1>4. lock' \in [Processes -> Requests \union {None}]
  BY ProcessOfAssumption DEF AcquireLock, Inv, SharedInv
<1> QED BY <1>2, <1>3, <1>4, RequestStep DEF Inv, AcquireLock, Steady, ledgers, stores, SharedInv

LEMMA ReserveKeeps ==
  ASSUME Inv, NEW r \in Requests, Reserve(r)
  PROVE  (SharedInv /\ EveryRequest)'
<1>1. PICK q : q = [req[r] EXCEPT !.pc = "recheck"]
  OBVIOUS
<1>2. RequestInv(q, r)'
  BY <1>1, GotoInv DEF Reserve, Steady, ledgers, stores, At
<1>3. req' = [req EXCEPT ![r] = q]
  BY <1>1 DEF Reserve, Goto
<1> QED BY <1>2, <1>3, RequestStep DEF Inv, Reserve, Steady, ledgers, stores, SharedInv

\* Every end of a request: nothing is written, the answer is true.
LEMMA FinishKeeps ==
  ASSUME Inv, NEW r \in Requests, NEW a \in (Replies \union Decisions) \ {"CONFLICTING"},
         Finish(r, a), Steady, UNCHANGED file,
         a = "UNPLANNED" => req[r].trade \in unplanned,
         a \in Decisions => req[r].trade \in Trades /\ attribution[req[r].trade] = a
  PROVE  (SharedInv /\ EveryRequest)'
<1>1. PICK q : q = [req[r] EXCEPT !.pc = "idle", !.answer = a]
  OBVIOUS
<1>2. RequestInv(q, r)'
  BY <1>1, RepliesAssumption DEF Inv, EveryRequest, RequestInv, Typed, Witnessed, RequestStates, Steady
<1>3. req' = [req EXCEPT ![r] = q]
  BY <1>1 DEF Finish, Answer
<1>4. /\ lock' \in [Processes -> Requests \union {None}]
      /\ writer' \in Requests \union {None}
      /\ writer \notin {None, r} => writer' = writer
  BY ProcessOfAssumption DEF Finish, Release, Inv, SharedInv
<1> QED BY <1>2, <1>3, <1>4, RequestStep DEF Inv, SharedInv

LEMMA RefusalKeeps ==
  ASSUME Inv, NEW r \in Requests, Finish(r, "REFUSED"), UNCHANGED <<ledgers, stores>>
  PROVE  (SharedInv /\ EveryRequest)'
BY FinishKeeps, RepliesAssumption DEF Replies, Steady, ledgers, stores

LEMMA RecheckKeeps ==
  ASSUME Inv, NEW r \in Requests, Recheck(r)
  PROVE  (SharedInv /\ EveryRequest)'
<1>1. CASE StillStanding(r)
  <2>1. PICK q : q = [req[r] EXCEPT !.pc = "other"]
    OBVIOUS
  <2>2. writer' = r /\ Standing(q.trade) /\ req[r].pc = "recheck"
    BY <1>1, <2>1 DEF Recheck, guard, StillStanding, Inv, EveryRequest, RequestInv, Witnessed, At,
       Typed, RequestStates
  <2>3. RequestInv(q, r)'
    BY <2>1, <2>2, GotoInv DEF Recheck, Steady, ledgers, stores
  <2>4. req' = [req EXCEPT ![r] = q]
    BY <1>1, <2>1 DEF Recheck, Goto
  <2> QED BY <1>1, <2>3, <2>4, RequestStep DEF Inv, Recheck, Steady, ledgers, stores, guard, SharedInv
<1>2. CASE ~StillStanding(r)
  BY <1>2, RefusalKeeps DEF Recheck
<1> QED BY <1>1, <1>2

LEMMA ReadOtherKeeps ==
  ASSUME Inv, NEW r \in Requests, ReadOther(r)
  PROVE  (SharedInv /\ EveryRequest)'
<1> DEFINE absent == Readable(Other(req[r].store)) /\ ~Present(Other(req[r].store), req[r].trade)
<1>1. CASE absent
  <2>1. PICK q : q = [req[r] EXCEPT !.pc = "own"]
    OBVIOUS
  <2>2. /\ writer' = r /\ Standing(q.trade) /\ req[r].pc = "other"
        /\ ~Present(Other(q.store), q.trade)
    BY <1>1, <2>1 DEF ReadOther, guard, Inv, EveryRequest, RequestInv, Witnessed, At, Typed,
       RequestStates
  <2>3. RequestInv(q, r)'
    BY <2>1, <2>2, GotoInv DEF ReadOther, Steady, ledgers, stores
  <2>4. req' = [req EXCEPT ![r] = q]
    BY <1>1, <2>1 DEF ReadOther, Goto
  <2> QED BY <1>1, <2>3, <2>4, RequestStep DEF Inv, ReadOther, Steady, ledgers, stores, guard, SharedInv
<1>2. CASE ~absent
  BY <1>2, RefusalKeeps DEF ReadOther
<1> QED BY <1>1, <1>2

LEMMA ReadOwnKeeps ==
  ASSUME Inv, NEW r \in Requests, ReadOwn(r)
  PROVE  (SharedInv /\ EveryRequest)'
<1> DEFINE absent == Readable(req[r].store) /\ ~Present(req[r].store, req[r].trade)
<1>1. CASE absent
  <2>1. PICK q : q = [req[r] EXCEPT !.pc = "open"]
    OBVIOUS
  <2>2. /\ writer' = r /\ Standing(q.trade) /\ req[r].pc = "own"
        /\ ~Present(Other(q.store), q.trade) /\ ~Present(q.store, q.trade)
    BY <1>1, <2>1 DEF ReadOwn, guard, Inv, EveryRequest, RequestInv, Witnessed, At, Typed,
       RequestStates
  <2>3. RequestInv(q, r)'
    BY <2>1, <2>2, GotoInv DEF ReadOwn, Steady, ledgers, stores
  <2>4. req' = [req EXCEPT ![r] = q]
    BY <1>1, <2>1 DEF ReadOwn, Goto
  <2> QED BY <1>1, <2>3, <2>4, RequestStep DEF Inv, ReadOwn, Steady, ledgers, stores, guard, SharedInv
<1>2. CASE ~absent /\ ~(Readable(req[r].store) /\ SameResolution(r))
  BY <1>2, RefusalKeeps DEF ReadOwn
<1>3. CASE ~absent /\ Readable(req[r].store) /\ SameResolution(r)
  <2>1. Present(req[r].store, req[r].trade) /\ Finish(r, Requested(r))
    BY <1>3 DEF ReadOwn
  <2>2. /\ req[r].store \in Stores /\ req[r].trade \in Trades
        /\ req[r].store = "attribution" => req[r].decision \in Decisions
    BY DEF Inv, EveryRequest, RequestInv, Typed, RequestStates, ReadOwn, At
  <2>3. /\ Requested(r) \in (Replies \union Decisions) \ {"CONFLICTING"}
        /\ Requested(r) = "UNPLANNED" => req[r].trade \in unplanned
        /\ Requested(r) \in Decisions => attribution[req[r].trade] = Requested(r)
    BY <1>3, <2>1, <2>2, RepliesAssumption DEF Requested, Replies, Stores, Present, SameResolution
  <2> QED BY <2>1, <2>2, <2>3, FinishKeeps DEF ReadOwn, Steady, ledgers, stores
<1> QED BY <1>1, <1>2, <1>3

LEMMA OpenStoreKeeps ==
  ASSUME Inv, NEW r \in Requests, OpenStore(r)
  PROVE  (SharedInv /\ EveryRequest)'
<1>1. PICK next \in {"insert", "create"} : Goto(r, next)
  BY DEF OpenStore
<1>2. PICK q : q = [req[r] EXCEPT !.pc = next]
  OBVIOUS
<1>3. /\ writer' = r /\ Standing(q.trade) /\ req[r].pc = "open"
      /\ ~Present(Other(q.store), q.trade) /\ ~Present(q.store, q.trade)
  BY <1>2 DEF OpenStore, guard, Inv, EveryRequest, RequestInv, Witnessed, At, Typed, RequestStates
<1>4. Steady /\ UNCHANGED guard
  BY DEF OpenStore, Steady, ledgers
<1>5. RequestInv(q, r)'
  BY <1>2, <1>3, <1>4, GotoInv
<1>6. req' = [req EXCEPT ![r] = q]
  BY <1>1, <1>2 DEF Goto
<1>7. file' \in [Stores -> {"absent", "empty", "ready"}]
  BY DEF OpenStore, Inv, SharedInv, EveryRequest, RequestInv, Typed, RequestStates
<1> QED BY <1>4, <1>5, <1>6, <1>7, RequestStep DEF Inv, guard, SharedInv

LEMMA CreateTableKeeps ==
  ASSUME Inv, NEW r \in Requests, CreateTable(r)
  PROVE  (SharedInv /\ EveryRequest)'
<1>1. PICK q : q = [req[r] EXCEPT !.pc = "insert"]
  OBVIOUS
<1>2. /\ writer' = r /\ Standing(q.trade) /\ req[r].pc = "create"
      /\ ~Present(Other(q.store), q.trade) /\ ~Present(q.store, q.trade)
  BY <1>1 DEF CreateTable, guard, Inv, EveryRequest, RequestInv, Witnessed, At, Typed, RequestStates
<1>3. Steady /\ UNCHANGED guard
  BY DEF CreateTable, Steady, ledgers
<1>4. RequestInv(q, r)'
  BY <1>1, <1>2, <1>3, GotoInv
<1>5. req' = [req EXCEPT ![r] = q]
  BY <1>1 DEF CreateTable, Goto
<1>6. file' \in [Stores -> {"absent", "empty", "ready"}]
  BY DEF CreateTable, Inv, SharedInv, EveryRequest, RequestInv, Typed, RequestStates
<1> QED BY <1>3, <1>4, <1>5, <1>6, RequestStep DEF Inv, guard, SharedInv

\* The write: the trade had no row in either store and stands, and the others
\* are outside the guard.
LEMMA InsertResolutionKeeps ==
  ASSUME Inv, NEW r \in Requests, InsertResolution(r)
  PROVE  (SharedInv /\ EveryRequest)'
<1> DEFINE t == req[r].trade
<1>1. /\ writer = r /\ Standing(t) /\ t \in Trades
      /\ t \notin unplanned /\ attribution[t] = None
      /\ req[r].store = "attribution" => req[r].decision \in Decisions /\ Eligible(t, req[r].decision)
      /\ req[r].store \in Stores /\ req[r].pc = "insert"
  BY DEF InsertResolution, Inv, EveryRequest, RequestInv, Witnessed, At, Typed, RequestStates,
     Stores, Present, Other
<1>2. UNCHANGED <<trade, decision, file, lock, writer>>
  BY DEF InsertResolution, ledgers, guard
<1>3. \/ unplanned' = unplanned \union {t} /\ UNCHANGED attribution /\ req[r].store = "origin"
      \/ /\ attribution' = [attribution EXCEPT ![t] = req[r].decision] /\ UNCHANGED unplanned
         /\ req[r].store = "attribution"
  BY <1>1 DEF InsertResolution, Stores
<1>4. SharedInv'
  <2>1. CASE unplanned' = unplanned \union {t} /\ UNCHANGED attribution
    BY <1>1, <1>2, <2>1 DEF Inv, SharedInv, TradesExist, OneAuthority, NoHindsight
  <2>2. CASE /\ attribution' = [attribution EXCEPT ![t] = req[r].decision]
             /\ UNCHANGED unplanned /\ req[r].store = "attribution"
    BY <1>1, <1>2, <2>2, NoneAssumption
    DEF Inv, SharedInv, TradesExist, OneAuthority, NoHindsight, Eligible, Concerns, Precedes, Standing
  <2> QED BY <1>3, <2>1, <2>2
<1>5. ASSUME NEW s \in Requests PROVE RequestInv(req[s], s)'
  <2>1. CASE s = r
    <3>1. req'[s] = [req[r] EXCEPT !.pc = "release"] /\ RequestInv(req[r], r)
      BY <2>1 DEF InsertResolution, Goto, Inv, EveryRequest
    <3>2. /\ req'[s].pc = "release" /\ req'[s].trade = t /\ req'[s].store = req[r].store
          /\ req'[s].decision = req[r].decision /\ req'[s].answer = req[r].answer
          /\ req'[s] \in RequestStates
      BY <3>1 DEF RequestInv, Typed, RequestStates
    <3>7. Typed(req'[s])
      BY <1>1, <3>2 DEF Typed
    <3>3. IF req[r].store = "origin" THEN t \in unplanned' ELSE attribution'[t] = req[r].decision
      BY <1>1, <1>3 DEF Inv, SharedInv, Stores
    <3>4. /\ req[r].answer # "CONFLICTING"
          /\ req[r].answer = "UNPLANNED" => t \in unplanned
          /\ req[r].answer \in Decisions => attribution[t] = req[r].answer
      BY <3>1 DEF RequestInv, Witnessed
    <3>5. req[r].answer \notin Decisions /\ req[r].answer # "UNPLANNED"
      BY <1>1, <3>4, NoneAssumption
    <3>6. Witnessed(req[s], s)'
      BY <1>1, <1>2, <2>1, <3>2, <3>3, <3>4, <3>5 DEF Witnessed, Eligible, Concerns, Precedes
    <3> QED BY <3>6, <3>7 DEF RequestInv, Typed
  <2>2. CASE s # r
    <3>1. req'[s] = req[s] /\ RequestInv(req[s], s)
      BY <2>2 DEF InsertResolution, Goto, Inv, EveryRequest
    <3>2. req[s].pc \notin {"recheck", "other", "own", "open", "create", "insert", "release"}
      BY <1>1, <2>2, <3>1 DEF RequestInv, Witnessed
    <3>3. /\ \A u \in unplanned : u \in unplanned'
          /\ \A u \in Trades : attribution[u] \in Decisions => attribution'[u] = attribution[u]
      BY <1>1, <1>3, NoneAssumption DEF Inv, SharedInv
    <3> QED BY <1>2, <3>1, <3>2, <3>3 DEF RequestInv, Typed, Witnessed, Eligible, Concerns, Precedes
  <2> QED BY <2>1, <2>2
<1> QED BY <1>4, <1>5 DEF EveryRequest

LEMMA ReleaseGuardKeeps ==
  ASSUME Inv, NEW r \in Requests, ReleaseGuard(r)
  PROVE  (SharedInv /\ EveryRequest)'
<1>1. /\ req[r].store \in Stores /\ req[r].trade \in Trades
      /\ req[r].store = "attribution" => req[r].decision \in Decisions
      /\ IF req[r].store = "origin" THEN req[r].trade \in unplanned
                                    ELSE attribution[req[r].trade] = req[r].decision
  BY DEF Inv, EveryRequest, RequestInv, Typed, Witnessed, RequestStates, ReleaseGuard, At
<1>2. /\ Requested(r) \in (Replies \union Decisions) \ {"CONFLICTING"}
      /\ Requested(r) = "UNPLANNED" => req[r].trade \in unplanned
      /\ Requested(r) \in Decisions => attribution[req[r].trade] = Requested(r)
  BY <1>1, RepliesAssumption DEF Requested, Replies, Stores
<1> QED BY <1>1, <1>2, FinishKeeps DEF ReleaseGuard, Steady, ledgers, stores

LEMMA ReserveBusyKeeps ==
  ASSUME Inv, NEW r \in Requests, ReserveBusy(r)
  PROVE  (SharedInv /\ EveryRequest)'
BY RefusalKeeps DEF ReserveBusy

LEMMA StoreFailsKeeps ==
  ASSUME Inv, NEW r \in Requests, StoreFails(r)
  PROVE  (SharedInv /\ EveryRequest)'
BY RefusalKeeps DEF StoreFails

LEMMA ReadTradeKeeps ==
  ASSUME Inv, NEW r \in Requests, NEW t \in Trades, ReadTrade(r, t)
  PROVE  (SharedInv /\ EveryRequest)'
<1>1. PICK q : /\ req' = [req EXCEPT ![r] = q]
               /\ q = IF Standing(t)
                        THEN [IdleRequest EXCEPT !.pc = "readOrigin", !.trade = t]
                        ELSE [IdleRequest EXCEPT !.answer = "NOT_APPLICABLE", !.trade = t]
  BY DEF ReadTrade
<1>2. RequestInv(q, r)'
  BY <1>1, RepliesAssumption DEF RequestInv, Typed, Witnessed, IdleRequest, RequestStates, Stores,
     Replies
<1> QED BY <1>1, <1>2, RequestStep DEF Inv, ReadTrade, Steady, ledgers, stores, guard, SharedInv

LEMMA ReadOriginKeeps ==
  ASSUME Inv, NEW r \in Requests, ReadOrigin(r)
  PROVE  (SharedInv /\ EveryRequest)'
<1>1. Steady /\ UNCHANGED <<file, lock, writer>>
  BY DEF ReadOrigin, Steady, ledgers, stores, guard
<1>2. PICK q : /\ req' = [req EXCEPT ![r] = q]
               /\ \/ q = [req[r] EXCEPT !.pc = "readAttribution",
                                        !.seen = req[r].trade \in unplanned]
                  \/ q = [req[r] EXCEPT !.pc = "idle", !.answer = "ERROR"]
  BY DEF ReadOrigin, Answer
<1>3. RequestInv(q, r)'
  <2>1. req[r].pc = "readOrigin" /\ RequestInv(req[r], r)
    BY DEF ReadOrigin, At, Inv, EveryRequest
  <2>2. CASE q = [req[r] EXCEPT !.pc = "readAttribution", !.seen = req[r].trade \in unplanned]
    <3>1. req[r] \in RequestStates
      BY <2>1 DEF RequestInv, Typed
    <3>2. /\ q.pc = "readAttribution" /\ q.seen = (req[r].trade \in unplanned)
          /\ q.trade = req[r].trade /\ q.store = req[r].store /\ q.decision = req[r].decision
          /\ q.answer = req[r].answer
      BY <2>2, <3>1 DEF RequestStates
    <3>3. PICK b \in BOOLEAN : b = (req[r].trade \in unplanned)
      <4>1. (req[r].trade \in unplanned) = TRUE \/ (req[r].trade \in unplanned) = FALSE
        OBVIOUS
      <4> QED BY <4>1, Zenon
    <3>4. q = [req[r] EXCEPT !.pc = "readAttribution", !.seen = b]
      BY <2>2, <3>3, Zenon
    <3>5. q \in RequestStates
      BY <3>1, <3>3, <3>4 DEF RequestStates
    <3>6. Typed(q)
      BY <2>1, <3>2, <3>5 DEF RequestInv, Typed
    <3>7. q.seen => q.trade \in unplanned
      BY <3>2
    <3>8. /\ q.pc = "readAttribution" /\ q.trade = req[r].trade /\ q.store = req[r].store
          /\ q.decision = req[r].decision /\ q.answer = req[r].answer
      BY <3>2, Zenon
    <3>9. Witnessed(q, r)'
      BY <1>1, <2>1, <3>7, <3>8 DEF RequestInv, Witnessed, Steady, Eligible, Concerns, Precedes
    <3> QED BY <3>6, <3>9 DEF RequestInv, Typed
  <2>3. CASE q = [req[r] EXCEPT !.pc = "idle", !.answer = "ERROR"]
    BY <1>1, <2>1, <2>3, RepliesAssumption DEF RequestInv, Typed, Witnessed, RequestStates, Steady,
       Replies
  <2> QED BY <1>2, <2>2, <2>3
<1> QED BY <1>1, <1>2, <1>3, RequestStep DEF Inv, SharedInv

\* A row seen in the origin store is still there, and excludes an attribution.
LEMMA ReadAttributionKeeps ==
  ASSUME Inv, NEW r \in Requests, ReadAttribution(r)
  PROVE  (SharedInv /\ EveryRequest)'
<1>1. /\ req[r].trade \in Trades
      /\ req[r].seen => req[r].trade \in unplanned
      /\ req[r].seen \in BOOLEAN
  BY DEF ReadAttribution, At, Inv, EveryRequest, RequestInv, Typed, Witnessed, RequestStates
<1>2. attribution[req[r].trade] \in Decisions \union {None}
  BY <1>1 DEF Inv, SharedInv
<1>3. req[r].seen => attribution[req[r].trade] = None
  BY <1>1 DEF Inv, SharedInv, OneAuthority
<1>4. PICK a : a = IF Readable("attribution")
                     THEN Report(req[r].seen, attribution[req[r].trade]) ELSE "ERROR"
  OBVIOUS
<1>5. /\ a \in (Replies \union Decisions) \ {"CONFLICTING"}
      /\ a = "UNPLANNED" => req[r].trade \in unplanned
      /\ a \in Decisions => attribution[req[r].trade] = a
  BY <1>1, <1>2, <1>3, <1>4, RepliesAssumption DEF Report, Replies
<1>6. Steady /\ UNCHANGED <<file, lock, writer>>
  BY DEF ReadAttribution, Steady, ledgers, stores, guard
<1>7. PICK q : q = [req[r] EXCEPT !.pc = "idle", !.answer = a] /\ req' = [req EXCEPT ![r] = q]
  BY <1>4 DEF ReadAttribution, Answer
<1>8. RequestInv(q, r)'
  BY <1>1, <1>5, <1>6, <1>7 DEF Inv, EveryRequest, RequestInv, Typed, Witnessed, RequestStates,
     Steady
<1> QED BY <1>6, <1>7, <1>8, RequestStep DEF Inv, SharedInv

(***************************************************************************)
(* The other writers.  They change the trade ledger while nobody holds its *)
(* reservation, that is, while no request is inside the guard.             *)
(***************************************************************************)
LEMMA LedgerStep ==
  ASSUME Inv, UNCHANGED <<file, lock, writer, unplanned, attribution, req>>,
         UNCHANGED trade \/ writer = None,
         trade' \in [Trades -> [state : {"absent", "executed", "voided"}, created : Nat,
                                executed : Nat]],
         decision' \in [Decisions -> Nat],
         TradesExist', NoHindsight',
         \A t \in Trades : \A d \in Decisions : Eligible(t, d) => Eligible(t, d)'
  PROVE  (SharedInv /\ EveryRequest)'
<1>1. SharedInv'
  BY DEF Inv, SharedInv, OneAuthority
<1>2. ASSUME NEW s \in Requests PROVE RequestInv(req[s], s)'
  <2>1. PICK q : q = req[s] /\ q = req'[s] /\ RequestInv(q, s)
    BY DEF Inv, EveryRequest
  <2>2. Typed(q)
    BY <2>1 DEF RequestInv
  <2>3. UNCHANGED trade \/ q.pc \notin {"recheck", "other", "own", "open", "create", "insert", "release"}
    BY <2>1, NoneAssumption DEF RequestInv, Witnessed
  <2>4. q.pc # "idle" /\ q.store = "attribution" => Eligible(q.trade, q.decision)'
    BY <2>1, <2>2 DEF RequestInv, Witnessed, Typed
  <2>5. Witnessed(q, s)'
    BY <2>1, <2>3, <2>4 DEF RequestInv, Witnessed, Standing, Present
  <2> QED BY <2>1, <2>2, <2>5 DEF RequestInv, Typed
<1> QED BY <1>1, <1>2 DEF EveryRequest

LEMMA CreateTradeKeeps ==
  ASSUME Inv, NEW t \in Trades, NEW created \in Instants, NEW executed \in Instants,
         CreateTrade(t, created, executed)
  PROVE  (SharedInv /\ EveryRequest)'
<1>1. UNCHANGED <<file, lock, writer, unplanned, attribution, req, decision>> /\ writer = None
  BY DEF CreateTrade, stores, guard
<1>2. /\ trade' \in [Trades -> [state : {"absent", "executed", "voided"}, created : Nat,
                                executed : Nat]]
      /\ trade'[t].state = "executed"
      /\ \A u \in Trades \ {t} : trade'[u] = trade[u]
  BY InstantsAssumption DEF CreateTrade, Inv, SharedInv
<1>3. attribution[t] = None /\ trade[t].created = 0
  BY DEF CreateTrade, Inv, SharedInv, TradesExist
<1>4. TradesExist' /\ NoHindsight'
  BY <1>1, <1>2, <1>3 DEF Inv, SharedInv, TradesExist, NoHindsight
<1>5. \A u \in Trades : \A d \in Decisions : Eligible(u, d) => Eligible(u, d)'
  BY <1>1, <1>2, <1>3 DEF Eligible, Concerns, Precedes, Inv, SharedInv
<1> QED BY <1>1, <1>2, <1>4, <1>5, LedgerStep DEF Inv, SharedInv

LEMMA VoidTradeKeeps ==
  ASSUME Inv, NEW t \in Trades, VoidTrade(t)
  PROVE  (SharedInv /\ EveryRequest)'
<1>1. UNCHANGED <<file, lock, writer, unplanned, attribution, req, decision>> /\ writer = None
  BY DEF VoidTrade, stores, guard
<1>2. /\ trade' \in [Trades -> [state : {"absent", "executed", "voided"}, created : Nat,
                                executed : Nat]]
      /\ trade'[t].state = "voided"
      /\ \A u \in Trades : trade'[u].created = trade[u].created
                           /\ trade'[u].executed = trade[u].executed
      /\ \A u \in Trades \ {t} : trade'[u] = trade[u]
  BY DEF VoidTrade, Inv, SharedInv
<1>3. TradesExist' /\ NoHindsight'
  BY <1>1, <1>2 DEF Inv, SharedInv, TradesExist, NoHindsight
<1>4. \A u \in Trades : \A d \in Decisions : Eligible(u, d) => Eligible(u, d)'
  BY <1>1, <1>2 DEF Eligible, Concerns, Precedes
<1> QED BY <1>1, <1>2, <1>3, <1>4, LedgerStep DEF Inv, SharedInv

LEMMA CommitDecisionKeeps ==
  ASSUME Inv, NEW d \in Decisions, NEW at \in Instants, CommitDecision(d, at)
  PROVE  (SharedInv /\ EveryRequest)'
<1>1. UNCHANGED <<file, lock, writer, unplanned, attribution, req, trade>>
  BY DEF CommitDecision, stores, guard
<1>2. /\ decision' \in [Decisions -> Nat]
      /\ \A e \in Decisions : decision[e] # 0 => decision'[e] = decision[e]
  BY InstantsAssumption DEF CommitDecision, Inv, SharedInv
<1>3. TradesExist' /\ NoHindsight'
  <2>1. \A t \in Trades : attribution[t] # None => attribution[t] \in Decisions
    BY DEF Inv, SharedInv
  <2> QED BY <1>1, <1>2, <2>1 DEF Inv, SharedInv, TradesExist, NoHindsight
<1>4. \A u \in Trades : \A e \in Decisions : Eligible(u, e) => Eligible(u, e)'
  BY <1>1, <1>2 DEF Eligible, Concerns, Precedes
<1> QED BY <1>1, <1>2, <1>3, <1>4, LedgerStep DEF Inv, SharedInv

LEMMA ProcessDiesKeeps ==
  ASSUME Inv, NEW p \in Processes, ProcessDies(p)
  PROVE  (SharedInv /\ EveryRequest)'
<1>1. Steady /\ UNCHANGED file
  BY DEF ProcessDies, Steady, ledgers, stores
<1>2. /\ lock' \in [Processes -> Requests \union {None}]
      /\ writer' \in Requests \union {None}
  BY DEF ProcessDies, Inv, SharedInv
<1>3. SharedInv'
  BY <1>1, <1>2 DEF Inv, SharedInv, Steady, TradesExist, OneAuthority, NoHindsight
<1>4. ASSUME NEW s \in Requests PROVE RequestInv(req[s], s)'
  <2>1. CASE ProcessOf[s] = p
    <3>1. req'[s] = IdleRequest
      BY <2>1 DEF ProcessDies
    <3>2. \A q : q = IdleRequest => RequestInv(q, s)'
      BY RepliesAssumption DEF RequestInv, Typed, Witnessed, IdleRequest, RequestStates, Stores, Replies
    <3> QED BY <3>1, <3>2
  <2>2. CASE ProcessOf[s] # p
    <3>1. PICK q : q = req'[s] /\ q = req[s] /\ RequestInv(q, s)
      BY <2>2 DEF ProcessDies, Inv, EveryRequest
    <3>2. writer = s => writer' = s
      BY <2>2 DEF ProcessDies, Inside
    <3>3. RequestInv(q, s)'
      BY <1>1, <3>1, <3>2, OthersSteady
    <3> QED BY <3>1, <3>3
  <2> QED BY <2>1, <2>2
<1> QED BY <1>3, <1>4 DEF EveryRequest
(***************************************************************************)
(* The inductive invariant.                                                *)
(***************************************************************************)
LEMMA InitInv == Init => ResolutionInv
<1> SUFFICES ASSUME Init PROVE ResolutionInv
  OBVIOUS
<1>1. req = [s \in Requests |-> req[s]]
  BY DEF Init
<1>2. EveryRequest
  <2>1. ASSUME NEW s \in Requests PROVE RequestInv(req[s], s)
    BY IdleInv DEF Init
  <2> QED BY <2>1 DEF EveryRequest
<1>3. SharedInv
  BY DEF Init, SharedInv, Stores, TradesExist, OneAuthority, NoHindsight
<1> QED BY <1>1, <1>2, <1>3, InvSplits

LEMMA ReqIsFunction == TypeOK => req = [s \in Requests |-> req[s]]
BY DEF TypeOK

LEMMA StepKeeps ==
  ASSUME Inv, NEW r \in Requests, Begin(r) \/ Step(r) \/ StoreFails(r)
  PROVE  (SharedInv /\ EveryRequest)'
<1>1. CASE Begin(r)
  BY <1>1, RequestAttributionKeeps, RequestUnplannedKeeps, ReadTradeKeeps DEF Begin
<1>2. CASE Step(r)
  BY <1>2, AcquireLockKeeps, ReserveKeeps, ReserveBusyKeeps, RecheckKeeps, ReadOtherKeeps,
     ReadOwnKeeps, OpenStoreKeeps, CreateTableKeeps, InsertResolutionKeeps, ReleaseGuardKeeps,
     ReadOriginKeeps, ReadAttributionKeeps
  DEF Step
<1>3. CASE StoreFails(r)
  BY <1>3, StoreFailsKeeps
<1> QED BY <1>1, <1>2, <1>3

LEMMA InvNext == ResolutionInv /\ [Next]_vars => ResolutionInv'
<1> SUFFICES ASSUME ResolutionInv, [Next]_vars PROVE ResolutionInv'
  OBVIOUS
<1>1. Inv
  BY ReqIsFunction, InvSplits DEF ResolutionInv, Inv
<1>2. (SharedInv /\ EveryRequest)'
  <2>1. ASSUME NEW r \in Requests, Begin(r) \/ Step(r) \/ StoreFails(r)
        PROVE  (SharedInv /\ EveryRequest)'
    BY <1>1, <2>1, StepKeeps
  <2>2. CASE Environment
    BY <1>1, <2>2, CreateTradeKeeps, VoidTradeKeeps, CommitDecisionKeeps, ProcessDiesKeeps
    DEF Environment
  <2>3. CASE UNCHANGED vars
    <3>1. UNCHANGED <<trade, decision, file, lock, writer, unplanned, attribution, req>>
      BY <2>3 DEF vars, ledgers, stores, guard
    <3> QED BY <1>1, <3>1 DEF Inv, SharedInv, EveryRequest, RequestInv, Typed, Witnessed, TradesExist,
        OneAuthority, NoHindsight, Standing, Present, Eligible, Concerns, Precedes
  <2> QED BY <2>1, <2>2, <2>3 DEF Next
<1>3. req' = [s \in Requests |-> req'[s]]
  <2>1. req \in [Requests -> RequestStates]
    BY DEF ResolutionInv, TypeOK
  <2>2. ASSUME NEW f, NEW r, NEW v, f = [req EXCEPT ![r] = v]
        PROVE  f = [s \in Requests |-> f[s]]
    BY <2>1, <2>2
  <2>3. ASSUME NEW r \in Requests, Begin(r) PROVE req' = [s \in Requests |-> req'[s]]
    BY <2>1, <2>2, <2>3 DEF Begin, RequestAttribution, RequestUnplanned, ReadTrade
  <2>4. ASSUME NEW r \in Requests, Step(r) PROVE req' = [s \in Requests |-> req'[s]]
    BY <2>1, <2>2, <2>4
    DEF Step, AcquireLock, Reserve, ReserveBusy, Recheck, ReadOther, ReadOwn, OpenStore, CreateTable,
        InsertResolution, ReleaseGuard, ReadOrigin, ReadAttribution, Finish, Goto, Answer
  <2>5. ASSUME NEW r \in Requests, StoreFails(r) PROVE req' = [s \in Requests |-> req'[s]]
    BY <2>1, <2>2, <2>5 DEF StoreFails, Finish, Answer
  <2>6. CASE Environment
    BY <2>1, <2>6 DEF Environment, CreateTrade, VoidTrade, CommitDecision, ProcessDies
  <2>7. CASE UNCHANGED vars
    BY <2>1, <2>7 DEF vars
  <2> QED BY <2>3, <2>4, <2>5, <2>6, <2>7 DEF Next
<1> QED
  <2>1. (req = [r \in Requests |-> req[r]])' => (ResolutionInv' <=> (SharedInv /\ EveryRequest)')
    BY InvSplits, PTL
  <2> QED BY <1>2, <1>3, <2>1

\* Every reachable state satisfies the invariant, whatever requests and
\* processes there are and in whatever order they run, fail and die.
THEOREM ResolutionInvariant == Spec => []ResolutionInv
BY InitInv, InvNext, PTL DEF Spec

\* Every reachable state of trade resolution has the declared types.
THEOREM ResolutionTypes == Spec => []TypeOK
<1>1. ResolutionInv => TypeOK
  BY DEF ResolutionInv
<1> QED BY <1>1, ResolutionInvariant, PTL

\* No trade is both UNPLANNED and attributed, although the two stores share no
\* transaction.
THEOREM OneAuthorityHolds == Spec => []OneAuthority
<1>1. ResolutionInv => OneAuthority
  BY DEF ResolutionInv
<1> QED BY <1>1, ResolutionInvariant, PTL

\* No trade is attributed to a decision made after it.
THEOREM NoDecisionAfterTrade == Spec => []NoHindsight
<1>1. ResolutionInv => NoHindsight
  BY DEF ResolutionInv
<1> QED BY <1>1, ResolutionInvariant, PTL

\* Every answer given by a request or by an unguarded reconciliation stays true.
THEOREM AnswersHold == Spec => []AnswersStand
<1>1. ResolutionInv => AnswersStand
  BY DEF ResolutionInv
<1> QED BY <1>1, ResolutionInvariant, PTL
(***************************************************************************)
(* Refinement: a row is written only for a standing trade without one.     *)
(***************************************************************************)
LEMMA AbstractInit == Init => Abstract!Init
BY NoneAssumption DEF Init, Abstract!Init, Resolution, Standing

\* The write is the resolution of the abstract specification.
LEMMA InsertResolves ==
  ASSUME Inv, NEW r \in Requests, InsertResolution(r)
  PROVE  Abstract!Next
<1> DEFINE t == req[r].trade
<1>1. /\ Standing(t) /\ t \in Trades /\ t \notin unplanned /\ attribution[t] = None
      /\ req[r].store \in Stores
      /\ req[r].store = "attribution" => req[r].decision \in Decisions
  BY DEF InsertResolution, Inv, EveryRequest, RequestInv, Witnessed, At, Typed, RequestStates,
     Stores, Present, Other
<1>2. PICK v \in Decisions \union {"UNPLANNED"} :
         \/ /\ v = "UNPLANNED"
            /\ unplanned' = unplanned \union {t} /\ UNCHANGED attribution
         \/ /\ v \in Decisions
            /\ attribution' = [attribution EXCEPT ![t] = v] /\ UNCHANGED unplanned
  <2>1. CASE req[r].store = "origin"
    BY <2>1 DEF InsertResolution
  <2>2. CASE req[r].store = "attribution"
    BY <1>1, <2>2 DEF InsertResolution
  <2> QED BY <1>1, <2>1, <2>2 DEF Stores
<1>3. \A u \in Trades : Resolution[u] = IF u \in unplanned THEN "UNPLANNED" ELSE attribution[u]
  BY DEF Resolution
<1>4. \A u \in Trades :
         Resolution'[u] = IF u \in unplanned' THEN "UNPLANNED" ELSE attribution'[u]
  BY DEF Resolution
<1>5. Resolution' = [Resolution EXCEPT ![t] = v]
  <2>1. attribution \in [Trades -> Decisions \union {None}]
    BY DEF Inv, SharedInv
  <2>2. \A u \in Trades : Resolution'[u] = IF u = t THEN v ELSE Resolution[u]
    BY <1>1, <1>2, <1>3, <1>4, <2>1
  <2>3. /\ Resolution = [u \in Trades |-> Resolution[u]]
        /\ Resolution' = [u \in Trades |-> Resolution'[u]]
    BY DEF Resolution
  <2> HIDE DEF t
  <2> QED BY <1>1, <2>2, <2>3
<1>6. Resolution[t] = None /\ t \in {u \in Trades : Standing(u)}
  BY <1>1, <1>3
<1>7. UNCHANGED {u \in Trades : Standing(u)}
  BY DEF InsertResolution, ledgers, Standing
<1> QED BY <1>1, <1>2, <1>5, <1>6, <1>7 DEF Abstract!Next, Abstract!Resolve

LEMMA CreateExecutes ==
  ASSUME Inv, NEW t \in Trades, NEW created, NEW executed, CreateTrade(t, created, executed)
  PROVE  Abstract!Next
<1>1. \A u \in Trades : Standing(u)' <=> u = t \/ Standing(u)
  BY DEF CreateTrade, Standing, Inv, SharedInv
<1>2. {u \in Trades : Standing(u)}' = {u \in Trades : Standing(u)} \union {t}
  BY <1>1
<1>3. UNCHANGED Resolution
  BY DEF CreateTrade, stores, Resolution
<1> QED BY <1>2, <1>3 DEF Abstract!Next, Abstract!Execute

LEMMA VoidVoids ==
  ASSUME Inv, NEW t \in Trades, VoidTrade(t)
  PROVE  Abstract!Next
<1>1. \A u \in Trades : Standing(u)' <=> u # t /\ Standing(u)
  BY DEF VoidTrade, Standing, Inv, SharedInv
<1>2. {u \in Trades : Standing(u)}' = {u \in Trades : Standing(u)} \ {t}
  BY <1>1
<1>3. UNCHANGED Resolution
  BY DEF VoidTrade, stores, Resolution
<1> QED BY <1>2, <1>3 DEF Abstract!Next, Abstract!Void

LEMMA AbstractStep == ResolutionInv /\ [Next]_vars => [Abstract!Next]_(Abstract!vars)
<1> SUFFICES ASSUME ResolutionInv, [Next]_vars PROVE [Abstract!Next]_(Abstract!vars)
  OBVIOUS
<1>1. Inv
  BY ReqIsFunction, InvSplits DEF ResolutionInv, Inv
<1>2. ASSUME UNCHANGED <<trade, unplanned, attribution>> PROVE UNCHANGED Abstract!vars
  BY <1>2 DEF Abstract!vars, Resolution, Standing
<1>3. ASSUME NEW r \in Requests, Begin(r) \/ StoreFails(r) \/ Step(r), ~InsertResolution(r)
      PROVE  UNCHANGED <<trade, unplanned, attribution>>
  BY <1>3 DEF Begin, StoreFails, Step, RequestAttribution, RequestUnplanned, ReadTrade, AcquireLock,
     Reserve, ReserveBusy, Recheck, ReadOther, ReadOwn, OpenStore, CreateTable, ReleaseGuard,
     ReadOrigin, ReadAttribution, ledgers, stores
<1>4. CASE \E r \in Requests : Begin(r) \/ Step(r) \/ StoreFails(r)
  BY <1>1, <1>2, <1>3, <1>4, InsertResolves
<1>5. CASE Environment
  <2>1. ASSUME NEW d \in Decisions, NEW at \in Instants, CommitDecision(d, at)
        PROVE  UNCHANGED <<trade, unplanned, attribution>>
    BY <2>1 DEF CommitDecision, stores
  <2>2. ASSUME NEW p \in Processes, ProcessDies(p)
        PROVE  UNCHANGED <<trade, unplanned, attribution>>
    BY <2>2 DEF ProcessDies, ledgers, stores
  <2> QED BY <1>1, <1>2, <1>5, <2>1, <2>2, CreateExecutes, VoidVoids DEF Environment
<1>6. CASE UNCHANGED vars
  BY <1>2, <1>6 DEF vars, ledgers, stores
<1> QED BY <1>4, <1>5, <1>6 DEF Next

\* The two stores and their guard implement one write-once register per trade,
\* written only while the trade stands.
THEOREM ResolutionImplements == Spec => ImplementsResolutions
BY AbstractInit, AbstractStep, ResolutionInvariant, PTL DEF Spec, ImplementsResolutions, Abstract!Spec

================================================================================
