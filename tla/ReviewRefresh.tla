----------------------------- MODULE ReviewRefresh -----------------------------
(***************************************************************************)
(* The daily review: one process serves fresh reads, explicit refreshes    *)
(* and a background refresh of one large package (daily_review.py).  A      *)
(* build takes minutes, so concurrent callers share one (_shared_build),    *)
(* and a caller that comes late with an old result must not overwrite a     *)
(* newer one in memory or in the file daily_review_latest.json.             *)
(*                                                                          *)
(* A Request is a server thread that serves one call after another, a       *)
(* Worker the thread of a background refresh.  A step is a region the code runs under a *)
(* lock, or one read it makes without; storing in memory and on disk is one *)
(* step, because every store holds _review_lock.                            *)
(***************************************************************************)
EXTENDS Integers, FiniteSets

CONSTANTS Requests,     \* threads that serve calls of the API
          Workers,      \* threads a background refresh runs in
          Outcomes,     \* bound: the grades builds may have
          MaxBuilds,    \* bound: builds started in the life of the process
          MaxRounds     \* bound: explicit refresh rounds started

Normals == {"normal", "verified"}
Partials == {"partial", "observed", "pool"}
Grades == Normals \cup Partials \cup {"unusable"}

ASSUME ReviewAssumption == /\ MaxBuilds \in Nat
                           /\ MaxRounds \in Nat
                           /\ Outcomes \subseteq Grades
                           /\ Requests \cap Workers = {}

Threads == Requests \cup Workers

VARIABLES memory,      \* _review_cache: the package kept in the process
          fresh,       \* whether its age and its session still allow its use
          disk,        \* daily_review_latest.json
          flight,      \* _build_flight: the generation in progress, 0 for None
          generation,  \* _build_generation
          committed,   \* _committed_generation
          builds,      \* the flight object of each generation: its result or error
          current,     \* _explicit_refresh_current: its round, 0 for None
          rounds,      \* the flight object of each explicit round
          failed,      \* _refresh_failed
          failedRound, \* history: the round whose failure the mark reports, 0 for a worker's
          refreshing,  \* _bg_refreshing
          attempt,     \* _latest_attempt: the generation and its state
          thread       \* each thread's program position and locals

stores == <<memory, fresh, disk, committed>>
flightVars == <<flight, generation, builds>>
roundVars == <<current, rounds>>
marks == <<failed, failedRound>>
refreshVars == <<stores, flightVars, roundVars, marks, refreshing, attempt, thread>>

(***************************************************************************)
(* Packages.  A review is known by the generation that built it and by its  *)
(* grade: normal (verified when its pool date is verified for the session), *)
(* partial (observed when it has pool provenance, pool when that makes it   *)
(* the one correction a normal gives way to), unusable when it is           *)
(* unavailable or misses a critical component.                              *)
(***************************************************************************)
Generations == 0..MaxBuilds
NoReview == [gen |-> 0, grade |-> "none"]
Reviews == [gen : Generations, grade : Normals \cup Partials]

\* qualified_pool_replaces_normal: the one partial that may replace a normal.
Qualified(new, old) == new.grade = "pool" /\ old.grade # "verified"

\* should_persist_review
Persistable(new, old) ==
  /\ new.grade # "unusable"
  /\ new.grade \in Partials /\ old.grade \in Normals => Qualified(new, old)

Cached == IF fresh THEN memory ELSE NoReview

\* _should_replace_memory: a partial is held against fresh memory, and against the
\* file too when it has pool provenance.
ReplacesMemory(new) == /\ Persistable(new, Cached)
                       /\ new.grade \in {"observed", "pool"} => Persistable(new, disk)

\* _refresh_accepts_result: an explicit refresh looks at expired memory too.
Accepted(new) == Persistable(new, memory) /\ Persistable(new, disk)

IdleThread == [pc |-> "idle", op |-> "none", gen |-> 0, round |-> 0, ok |-> FALSE, grade |-> "none"]

\* The file may hold a package an earlier process stored, older than every build of this one.
RefreshInit ==
  /\ memory = NoReview /\ fresh = FALSE
  /\ disk \in {NoReview} \cup [gen : {0}, grade : Outcomes \ {"unusable"}]
  /\ flight = 0 /\ generation = 0 /\ committed = 0
  /\ builds = [g \in 1..MaxBuilds |-> "none"]
  /\ current = 0
  /\ rounds = [r \in 1..MaxRounds |-> "none"]
  /\ failed = FALSE /\ failedRound = 0
  /\ refreshing = FALSE
  /\ attempt = [gen |-> 0, state |-> "none"]
  /\ thread = [t \in Threads |-> IdleThread]

At(t, pc) == thread[t].pc = pc
Goto(t, pc) == thread' = [thread EXCEPT ![t].pc = pc]
End(t) == thread' = [thread EXCEPT ![t] = IdleThread]

\* Bound: a call begins while there is a build left for it and for those that may still lead one.
Room == generation + Cardinality({t \in Threads : thread[t].pc \in {"begin", "join"}}) < MaxBuilds

\* _finish_refresh_attempt: only the attempt of this generation is finished.
Finish(g, state) ==
  attempt' = IF attempt.gen = g THEN [gen |-> g, state |-> state] ELSE attempt

ClearFailure == failed' = FALSE /\ failedRound' = 0
SetFailure(r) == failed' = TRUE /\ failedRound' = r

(***************************************************************************)
(* A fresh read: generate_daily_review after its cache check missed, by a   *)
(* request or by a worker.  A hit answers at once and changes nothing.      *)
(***************************************************************************)
Generate(t) ==
  /\ At(t, "idle") /\ t \in Requests
  /\ ~fresh /\ Room
  /\ thread' = [thread EXCEPT ![t] = [@ EXCEPT !.pc = "join", !.op = "generate"]]
  /\ UNCHANGED <<stores, flightVars, roundVars, marks, refreshing, attempt>>

(***************************************************************************)
(* get_daily_review_for_display answers from the file and kicks a worker:   *)
(* at most one, not while memory is fresh, not after a failure.             *)
(***************************************************************************)
KickBackgroundRefresh(w) ==
  /\ At(w, "idle") /\ w \in Workers
  /\ disk # NoReview
  /\ ~refreshing /\ ~fresh /\ ~failed
  /\ Room
  /\ refreshing' = TRUE
  /\ ClearFailure
  /\ thread' = [thread EXCEPT ![w] = [@ EXCEPT !.pc = "begin", !.op = "generate"]]
  /\ UNCHANGED <<stores, flightVars, roundVars, attempt>>

BeginWork(w) ==
  /\ At(w, "begin")
  /\ thread' = [thread EXCEPT ![w] =
       IF fresh THEN [@ EXCEPT !.pc = "judge", !.ok = TRUE, !.grade = memory.grade]
       ELSE [@ EXCEPT !.pc = "join"]]
  /\ UNCHANGED <<stores, flightVars, roundVars, marks, refreshing, attempt>>

(***************************************************************************)
(* refresh_daily_review_for_display: join the round in progress or lead a   *)
(* new one.                                                                 *)
(***************************************************************************)
Running(r) == r # 0 /\ rounds[r] = "running"

LastRound == Cardinality({r \in 1..MaxRounds : rounds[r] # "none"})

JoinRound(t) ==
  /\ At(t, "idle") /\ t \in Requests
  /\ Running(current)
  /\ thread' = [thread EXCEPT ![t] = [@ EXCEPT !.pc = "await", !.op = "explicit", !.round = current]]
  /\ UNCHANGED <<stores, flightVars, roundVars, marks, refreshing, attempt>>

LeadRound(t) ==
  LET r == LastRound + 1 IN
  /\ At(t, "idle") /\ t \in Requests
  /\ ~Running(current)
  /\ r <= MaxRounds /\ Room
  /\ rounds' = [rounds EXCEPT ![r] = "running"]
  /\ current' = r
  /\ thread' = [thread EXCEPT ![t] = [@ EXCEPT !.pc = "join", !.op = "explicit", !.round = r]]
  /\ UNCHANGED <<stores, flightVars, marks, refreshing, attempt>>

(***************************************************************************)
(* _shared_build                                                            *)
(***************************************************************************)
InProgress == flight # 0 /\ builds[flight] = "running"

LeadBuild(t) ==
  LET g == generation + 1 IN
  /\ At(t, "join")
  /\ ~InProgress
  /\ generation' = g /\ flight' = g
  /\ builds' = [builds EXCEPT ![g] = "running"]
  /\ attempt' = [gen |-> g, state |-> "running"]
  /\ thread' = [thread EXCEPT ![t] = [@ EXCEPT !.pc = "building", !.gen = g]]
  /\ UNCHANGED <<stores, roundVars, marks, refreshing>>

ShareBuild(t) ==
  /\ At(t, "join")
  /\ InProgress
  /\ thread' = [thread EXCEPT ![t] = [@ EXCEPT !.pc = "waiting", !.gen = flight]]
  /\ UNCHANGED <<stores, flightVars, roundVars, marks, refreshing, attempt>>

\* The build ends with a package of some grade or with an exception, and sets its event.
EndBuild(t, outcome) ==
  /\ At(t, "building")
  /\ outcome \in Outcomes \cup {"error"}
  /\ builds' = [builds EXCEPT ![thread[t].gen] = outcome]
  /\ IF outcome = "error" THEN Finish(thread[t].gen, "failed") ELSE UNCHANGED attempt
  /\ Goto(t, "built")
  /\ UNCHANGED <<stores, flight, generation, roundVars, marks, refreshing>>

\* Where a thread goes with an exception: to the end of its round, of its work or of its call.
Failed(t) ==
  CASE thread[t].op = "explicit" -> [thread[t] EXCEPT !.pc = "publish"]
    [] thread[t].op = "generate" /\ t \in Workers -> [thread[t] EXCEPT !.pc = "judge"]
    [] thread[t].op = "generate" /\ t \in Requests -> IdleThread

\* What a thread takes from the flight it led or waited for.
TakeResult(t) ==
  LET result == builds[thread[t].gen] IN
  thread' = [thread EXCEPT ![t] =
    IF result = "error" THEN Failed(t)
    ELSE [@ EXCEPT !.pc = "commit", !.grade = result]]

\* A later leader may have replaced the flight between the event and this lock.
MineAnyway(t) == TRUE                   \* Mutant: the flight is cleared unconditionally.
StillMine(t) == flight = thread[t].gen

LeaveFlight(t) ==
  /\ At(t, "built")
  /\ flight' = IF StillMine(t) THEN 0 ELSE flight
  /\ TakeResult(t)
  /\ UNCHANGED <<stores, generation, builds, roundVars, marks, refreshing, attempt>>

WakeFromBuild(t) ==
  /\ At(t, "waiting")
  /\ builds[thread[t].gen] # "running"
  /\ TakeResult(t)
  /\ UNCHANGED <<stores, flightVars, roundVars, marks, refreshing, attempt>>

TimeOutOnBuild(t) ==
  /\ At(t, "waiting")
  /\ builds[thread[t].gen] = "running"
  /\ thread' = [thread EXCEPT ![t] = Failed(t)]
  /\ UNCHANGED <<stores, flightVars, roundVars, marks, refreshing, attempt>>

(***************************************************************************)
(* Storing, under _review_lock and _build_flight_lock.  The session may     *)
(* have ended since the build began: a package just stored need not be      *)
(* fresh.                                                                   *)
(***************************************************************************)
Package(t) == [gen |-> thread[t].gen, grade |-> thread[t].grade]

\* _store_review: memory first; the write of the file may fail.
StoreOnRead(new) ==
  IF ReplacesMemory(new)
  THEN /\ memory' = new
       /\ fresh' \in BOOLEAN
       /\ disk' \in {disk} \cup {r \in {new} : Persistable(new, disk)}
  ELSE UNCHANGED <<memory, fresh, disk>>

\* generate_daily_review returns a package of this grade.
Returned(t, grade) ==
  IF t \in Workers THEN [thread[t] EXCEPT !.pc = "judge", !.ok = TRUE, !.grade = grade] ELSE IdleThread

\* Whether a fresh reader's result may still be stored: of the newest build, and not yet committed.
StillNewest(g) == g = generation /\ g > committed

\* _store_review reports the write of the file.
Stored(new) == disk' = new

CommitRead(t) ==
  LET new == Package(t) IN
  /\ At(t, "commit") /\ thread[t].op = "generate"
  /\ StillNewest(new.gen)
  /\ StoreOnRead(new)
  /\ Finish(new.gen, IF Stored(new) THEN "succeeded" ELSE "failed")
  /\ committed' = new.gen
  /\ thread' = [thread EXCEPT ![t] = Returned(t, new.grade)]
  /\ UNCHANGED <<flightVars, roundVars, marks, refreshing>>

\* Superseded: the caller gets the cached package if there is one, else its own, and stores nothing.
SkipCommit(t) ==
  /\ At(t, "commit") /\ thread[t].op = "generate"
  /\ ~StillNewest(thread[t].gen)
  /\ thread' = [thread EXCEPT ![t] = Returned(t, IF fresh THEN memory.grade ELSE thread[t].grade)]
  /\ UNCHANGED <<stores, flightVars, roundVars, marks, refreshing, attempt>>

\* Whether an explicit refresh was overtaken: a later build has begun.
NeverSuperseded(g) == FALSE             \* Mutant: the fence is dropped.
Superseded(g) == g # generation \/ g < committed

RefuseRefresh(t) ==
  LET new == Package(t) IN
  /\ At(t, "commit") /\ thread[t].op = "explicit"
  /\ Superseded(new.gen) \/ ~Accepted(new)
  /\ Finish(new.gen, "failed")
  /\ Goto(t, "publish")
  /\ UNCHANGED <<stores, flightVars, roundVars, marks, refreshing>>

\* save_latest_review fails: nothing is stored.
FailToPersist(t) ==
  LET new == Package(t) IN
  /\ At(t, "commit") /\ thread[t].op = "explicit"
  /\ ~Superseded(new.gen) /\ Accepted(new)
  /\ Finish(new.gen, "failed")
  /\ Goto(t, "publish")
  /\ UNCHANGED <<stores, flightVars, roundVars, marks, refreshing>>

\* _store_review_on_refresh: the file first, then memory.
StoreUnsaved(new) ==                    \* Mutant: a failed write is not noticed.
  memory' = new /\ disk' \in {disk, new}
StoreOnRefresh(new) == disk' = new /\ memory' = new

CommitRefresh(t) ==
  LET new == Package(t) IN
  /\ At(t, "commit") /\ thread[t].op = "explicit"
  /\ ~Superseded(new.gen) /\ Accepted(new)
  /\ StoreOnRefresh(new)
  /\ committed' = new.gen
  /\ fresh' \in BOOLEAN
  /\ IF fresh' THEN /\ ClearFailure
                    /\ Finish(new.gen, "succeeded")
                    /\ thread' = [thread EXCEPT ![t] = [@ EXCEPT !.pc = "publish", !.ok = TRUE]]
     ELSE \* store_rejected: what was stored cannot be read back
          /\ UNCHANGED marks
          /\ Finish(new.gen, "failed")
          /\ Goto(t, "publish")
  /\ UNCHANGED <<flightVars, roundVars, refreshing>>

(***************************************************************************)
(* The end of an explicit round, under _explicit_refresh_lock.              *)
(***************************************************************************)
PublishRound(t) ==
  LET r == thread[t].round IN
  /\ At(t, "publish")
  /\ IF thread[t].ok THEN ClearFailure ELSE SetFailure(r)
  /\ rounds' = [rounds EXCEPT ![r] = IF thread[t].ok THEN "ok" ELSE "error"]
  /\ Goto(t, "leave")
  /\ UNCHANGED <<stores, flightVars, current, refreshing, attempt>>

LeaveRound(t) ==
  /\ At(t, "leave")
  /\ current' = IF current = thread[t].round THEN 0 ELSE current
  /\ End(t)
  /\ UNCHANGED <<stores, flightVars, rounds, marks, refreshing, attempt>>

WakeFromRound(t) ==
  /\ At(t, "await")
  /\ ~Running(thread[t].round)
  /\ End(t)
  /\ UNCHANGED <<stores, flightVars, roundVars, marks, refreshing, attempt>>

TimeOutOnRound(t) ==
  /\ At(t, "await")
  /\ Running(thread[t].round)
  /\ Goto(t, "late")
  /\ UNCHANGED <<stores, flightVars, roundVars, marks, refreshing, attempt>>

\* A waiter that timed out marks the failure only while its round is still running.
MayAlwaysMark(r) == TRUE                \* Mutant: a late waiter marks whatever came since.
MayMark(r) == current = r /\ Running(r)

GiveUpOnRound(t) ==
  /\ At(t, "late")
  /\ IF MayMark(thread[t].round) THEN SetFailure(thread[t].round) ELSE UNCHANGED marks
  /\ End(t)
  /\ UNCHANGED <<stores, flightVars, roundVars, refreshing, attempt>>

(***************************************************************************)
(* The worker's verdict: read the caches, then set or clear the mark, then  *)
(* drop the flag, each under a lock of its own.                             *)
(***************************************************************************)
Verdict(w) ==
  LET got == Package(w) IN
  CASE ~thread[w].ok \/ got.grade = "unusable" -> IF disk # NoReview THEN "fail" ELSE "keep"
    [] fresh \/ Persistable(got, disk) -> "clear"
    [] OTHER -> IF disk # NoReview THEN "fail" ELSE "clear"

JudgeWork(w) ==
  /\ At(w, "judge")
  /\ Goto(w, Verdict(w))
  /\ UNCHANGED <<stores, flightVars, roundVars, marks, refreshing, attempt>>

MarkWork(w) ==
  /\ thread[w].pc \in {"fail", "keep", "clear"}
  /\ CASE At(w, "fail") -> SetFailure(0)
       [] At(w, "clear") -> ClearFailure
       [] At(w, "keep") -> UNCHANGED marks
  /\ Goto(w, "end")
  /\ UNCHANGED <<stores, flightVars, roundVars, refreshing, attempt>>

EndWork(w) ==
  /\ At(w, "end")
  /\ refreshing' = FALSE
  /\ End(w)
  /\ UNCHANGED <<stores, flightVars, roundVars, marks, attempt>>

\* 300 seconds pass, or the session changes.
ExpireReview ==
  /\ fresh
  /\ fresh' = FALSE
  /\ UNCHANGED <<memory, disk, committed, flightVars, roundVars, marks, refreshing, attempt, thread>>

\* The steps a thread takes by itself; the others need a caller or a clock.
Proceed(t) ==
  \/ BeginWork(t) \/ LeadBuild(t) \/ ShareBuild(t)
  \/ \E outcome \in Outcomes \cup {"error"} : EndBuild(t, outcome)
  \/ LeaveFlight(t) \/ WakeFromBuild(t)
  \/ CommitRead(t) \/ SkipCommit(t) \/ RefuseRefresh(t) \/ FailToPersist(t) \/ CommitRefresh(t)
  \/ PublishRound(t) \/ LeaveRound(t) \/ WakeFromRound(t) \/ GiveUpOnRound(t)
  \/ JudgeWork(t) \/ MarkWork(t) \/ EndWork(t)

RefreshNext ==
  \/ \E t \in Threads :
       \/ Generate(t) \/ KickBackgroundRefresh(t) \/ JoinRound(t) \/ LeadRound(t)
       \/ Proceed(t)
       \/ TimeOutOnBuild(t) \/ TimeOutOnRound(t)
  \/ ExpireReview

RefreshSpec == RefreshInit /\ [][RefreshNext]_refreshVars

--------------------------------------------------------------------------------
Positions == {"idle", "begin", "join", "building", "waiting", "built", "commit", "publish", "leave",
              "await", "late", "judge", "fail", "keep", "clear", "end"}

\* The thread that leads a round: its explicit call has not published yet.
Leads(t, r) == thread[t].op = "explicit" /\ thread[t].round = r /\ thread[t].pc \notin {"await", "late", "leave"}

\* Every variable has the shape the code gives it.
RefreshTypeOK ==
  /\ memory \in {NoReview} \cup Reviews /\ disk \in {NoReview} \cup Reviews
  /\ fresh \in BOOLEAN
  /\ flight \in Generations /\ generation \in Generations /\ committed \in Generations
  /\ builds \in [1..MaxBuilds -> {"none", "running", "error"} \cup Grades]
  /\ current \in 0..MaxRounds
  /\ rounds \in [1..MaxRounds -> {"none", "running", "ok", "error"}]
  /\ failed \in BOOLEAN /\ failedRound \in 0..MaxRounds
  /\ refreshing \in BOOLEAN
  /\ attempt \in [gen : Generations, state : {"none", "running", "succeeded", "failed"}]
  /\ thread \in [Threads -> [pc : Positions, op : {"none", "generate", "explicit"},
                             gen : Generations, round : 0..MaxRounds, ok : BOOLEAN,
                             grade : Grades \cup {"none"}]]

\* A package never gives way to one an older build made, in memory or on disk, however
\* late its caller comes to store it (the generation fence of daily_review.py:978 and 1052).
NewestWins == [][memory'.gen >= memory.gen /\ disk'.gen >= disk.gen]_refreshVars

\* When a round tells its callers it succeeded its package is stored, in memory and on disk
\* alike: the two never split after a success (_store_review_on_refresh).
SuccessIsStored ==
  \A t \in Threads : At(t, "publish") /\ thread[t].ok =>
    memory.gen >= thread[t].gen /\ disk.gen >= thread[t].gen

\* The failure mark a round left is gone once that round or a later one succeeded, whatever
\* its waiters' timeouts did (daily_review.py:1111 and 1120).
MarkIsCurrent ==
  failed /\ failedRound # 0 =>
    \A r \in 1..MaxRounds : rounds[r] = "ok" => r < failedRound

\* A build is the flight in progress for as long as it runs, a flight and a round in progress
\* have a leader at work, and the background flag a worker: one build runs at a time, nobody
\* waits on a thread that is gone, and the next refresh can start (daily_review.py:609 and 949).
NothingIsOrphaned ==
  /\ \A t \in Threads : At(t, "building") => flight = thread[t].gen
  /\ InProgress => \E t \in Threads : At(t, "building") /\ thread[t].gen = flight
  /\ Running(current) => \E t \in Threads : Leads(t, current)
  /\ refreshing <=> \E w \in Workers : ~At(w, "idle")
--------------------------------------------------------------------------------
(***************************************************************************)
(* The inductive invariant.                                                 *)
(***************************************************************************)
\* What a thread's position says of its locals, of its build and of its round.
Coherent(t) ==
  LET me == thread[t] IN
  /\ me.pc = "idle" <=> me.op = "none"
  /\ me.op \in {"none", "explicit"} => (me.ok => me.pc \in {"publish", "leave"})
  /\ me.op = "explicit" => t \in Requests /\ me.round \in 1..MaxRounds
  /\ me.pc \in {"publish", "leave", "await", "late"} => me.op = "explicit"
  /\ me.pc \in {"begin", "judge", "fail", "keep", "clear", "end"} => t \in Workers
  /\ me.gen <= generation
  /\ me.pc \in {"building", "waiting", "built", "commit"} => me.gen # 0
  /\ me.pc = "building" => builds[me.gen] = "running"
  /\ me.pc = "built" => builds[me.gen] # "running"
  /\ me.pc = "commit" => me.grade \in Grades

\* What is stored comes from no build later than the last commit.
Fence == /\ memory.gen <= committed /\ disk.gen <= committed
         /\ committed <= generation /\ flight <= generation

\* Builds are numbered as they start, and the calls that may still lead one find a number left.
BuildsInOrder ==
  LET coming == {t \in Threads : thread[t].pc \in {"begin", "join"}} IN
  /\ \A g \in 1..MaxBuilds : builds[g] = "none" <=> g > generation
  /\ IsFiniteSet(coming)
  /\ generation + Cardinality(coming) <= MaxBuilds

\* Rounds are numbered as they start, and only the last one may be running: the current one.
RoundsInOrder ==
  \E last \in 0..MaxRounds :
    /\ \A r \in 1..MaxRounds : rounds[r] = "none" <=> r > last
    /\ \A r \in 1..MaxRounds : rounds[r] = "running" => r = last /\ r = current

\* One thread builds, one leads the round that is running until it has published it, one
\* worker works.
Alone ==
  /\ \A t, u \in Threads : At(t, "building") /\ At(u, "building") => t = u
  /\ \A t \in Threads, r \in 1..MaxRounds : Leads(t, r) => rounds[r] = "running"
  /\ \A t, u \in Threads, r \in 1..MaxRounds : Leads(t, r) /\ Leads(u, r) => t = u
  /\ \A t \in Threads : At(t, "leave") => rounds[thread[t].round] \in {"ok", "error"}
  /\ \A w, x \in Workers : ~At(w, "idle") /\ ~At(x, "idle") => w = x

RefreshInv ==
  /\ RefreshTypeOK
  /\ \A t \in Threads : Coherent(t)
  /\ Fence /\ BuildsInOrder /\ RoundsInOrder /\ Alone
  /\ SuccessIsStored /\ MarkIsCurrent /\ NothingIsOrphaned
================================================================================
