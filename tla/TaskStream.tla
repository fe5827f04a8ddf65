------------------------------ MODULE TaskStream ------------------------------
(***************************************************************************)
(* Model tasks (chat.py).  All tasks of the process share a few slots.  A   *)
(* Stream is a call of _bounded_task_events: the caller's generator         *)
(* consumes, through a mailbox of one place, what a worker thread reads     *)
(* from the model.  A Coroutine is a call of stream_api_messages: the event *)
(* loop reads the model itself, after a preparation thread has resolved and *)
(* validated the endpoint.                                                  *)
(*                                                                          *)
(* Neither thread can be killed, so a slot must stay taken until the thread *)
(* that uses it is over, also when the caller has gone away.  A step is one *)
(* operation on an Event, the queue, the semaphore or the preparation lock. *)
(***************************************************************************)
EXTENDS Integers, FiniteSets

CONSTANTS Streams,      \* calls of _bounded_task_events
          Coroutines,   \* calls of stream_api_messages
          Slots,        \* _TASK_STREAM_SLOTS: 4 in the code
          MaxEvents     \* bound: events the model sends before its done

ASSUME StreamAssumption == /\ Slots \in Nat \ {0}
                           /\ MaxEvents \in Nat
                           /\ Streams \cap Coroutines = {}

Tasks == Streams \cup Coroutines
Letters == {"event", "done", "error"}

VARIABLES free,        \* the value of the semaphore
          expired,     \* budget: its deadline passed or its failure is latched
          cancelled,   \* _cancel_event of the caller: the client disconnected
          consumer,    \* position of the caller's generator
          taken,       \* the letter it took from the mailbox
          completed,   \* completed
          finished,    \* consumer_finished
          stop,        \* stop
          resume,      \* resume
          mailbox,     \* the queue of one place, "none" when empty
          worker,      \* position of the worker thread
          held,        \* the letter the worker wants to put
          answered,    \* answered: a delta that is not blank was read
          pending,     \* pending_done: the model said done
          produced,    \* events the worker took from the model for its caller
          delivered,   \* events the caller was given
          coroutine,   \* position of the API coroutine
          preparation, \* position of its preparation thread
          running,     \* preparation["running"]
          done,        \* preparation["consumer_done"]
          released     \* preparation["released"]

callerVars == <<consumer, taken, completed, delivered>>
signals == <<finished, stop, resume>>
workerVars == <<worker, held, answered, pending, produced>>
streamVars == <<callerVars, signals, mailbox, workerVars>>
apiVars == <<coroutine, preparation, running, done, released>>
clocks == <<expired, cancelled>>
vars == <<free, clocks, streamVars, apiVars>>

Init ==
  /\ free = Slots
  /\ expired = [t \in Tasks |-> FALSE]
  /\ cancelled = [t \in Tasks |-> FALSE]
  /\ consumer = [t \in Streams |-> "new"]
  /\ taken = [t \in Streams |-> "none"]
  /\ completed = [t \in Streams |-> FALSE]
  /\ finished = [t \in Streams |-> FALSE]
  /\ stop = [t \in Streams |-> FALSE]
  /\ resume = [t \in Streams |-> FALSE]
  /\ mailbox = [t \in Streams |-> "none"]
  /\ worker = [t \in Streams |-> "none"]
  /\ held = [t \in Streams |-> "none"]
  /\ answered = [t \in Streams |-> FALSE]
  /\ pending = [t \in Streams |-> FALSE]
  /\ produced = [t \in Streams |-> 0]
  /\ delivered = [t \in Streams |-> 0]
  /\ coroutine = [t \in Coroutines |-> "new"]
  /\ preparation = [t \in Coroutines |-> "none"]
  /\ running = [t \in Coroutines |-> FALSE]
  /\ done = [t \in Coroutines |-> FALSE]
  /\ released = [t \in Coroutines |-> FALSE]

(***************************************************************************)
(* _check_active, as the caller sees it and as the worker does: the         *)
(* worker's configuration carries stop in place of the caller's event.      *)
(***************************************************************************)
Inactive(t) == expired[t] \/ cancelled[t]
Halted(t) == expired[t] \/ stop[t]

(***************************************************************************)
(* Admission: a semaphore that is never waited for.                         *)
(***************************************************************************)
Consume(t, pc) == consumer' = [consumer EXCEPT ![t] = pc]
Work(t, pc) == worker' = [worker EXCEPT ![t] = pc]

Admit(t) ==
  /\ consumer[t] = "new"
  /\ ~Inactive(t) /\ free > 0
  /\ free' = free - 1
  /\ Consume(t, "admitted")
  /\ UNCHANGED <<clocks, taken, completed, delivered, signals, mailbox, workerVars, apiVars>>

Refuse(t) ==
  /\ consumer[t] = "new"
  /\ Inactive(t) \/ free = 0
  /\ Consume(t, "left")
  /\ UNCHANGED <<free, clocks, taken, completed, delivered, signals, mailbox, workerVars, apiVars>>

StartWorker(t) ==
  /\ consumer[t] = "admitted"
  /\ Consume(t, "poll")
  /\ Work(t, "read")
  /\ UNCHANGED <<free, clocks, taken, completed, delivered, signals, mailbox,
                 held, answered, pending, produced, apiVars>>

\* The thread cannot be started: the slot is given back at once.
FailToStart(t) ==
  /\ consumer[t] = "admitted"
  /\ free' = free + 1
  /\ Consume(t, "left")
  /\ UNCHANGED <<clocks, taken, completed, delivered, signals, mailbox, workerVars, apiVars>>

(***************************************************************************)
(* The caller's side.                                                       *)
(***************************************************************************)
Poll(t) ==
  /\ consumer[t] = "poll" /\ ~Inactive(t)
  /\ Consume(t, "get")
  /\ UNCHANGED <<free, clocks, taken, completed, delivered, signals, mailbox, workerVars, apiVars>>

\* mailbox.get(timeout=0.05) finds nothing.
PollAgain(t) ==
  /\ consumer[t] = "get" /\ mailbox[t] = "none"
  /\ Consume(t, "poll")
  /\ UNCHANGED <<free, clocks, taken, completed, delivered, signals, mailbox, workerVars, apiVars>>

Take(t) ==
  /\ consumer[t] = "get"
  /\ mailbox[t] # "none"
  /\ taken' = [taken EXCEPT ![t] = mailbox[t]]
  /\ mailbox' = [mailbox EXCEPT ![t] = "none"]
  /\ Consume(t, "taken")
  /\ UNCHANGED <<free, clocks, completed, delivered, signals, workerVars, apiVars>>

\* The first statement of the generator's finally block.
Leave(t) ==
  /\ finished' = [finished EXCEPT ![t] = TRUE]
  /\ Consume(t, "leaving")

YieldEvent(t) ==
  /\ consumer[t] = "taken" /\ ~Inactive(t) /\ taken[t] = "event"
  /\ delivered' = [delivered EXCEPT ![t] = @ + 1]
  /\ Consume(t, "yielded")
  /\ UNCHANGED <<free, clocks, taken, completed, signals, mailbox, workerVars, apiVars>>

YieldDone(t) ==
  /\ consumer[t] = "taken" /\ ~Inactive(t) /\ taken[t] = "done"
  /\ completed' = [completed EXCEPT ![t] = TRUE]
  /\ Consume(t, "concluded")
  /\ UNCHANGED <<free, clocks, taken, delivered, signals, mailbox, workerVars, apiVars>>

\* next() on the suspended generator.
Resume(t) ==
  /\ consumer[t] = "yielded" /\ ~Inactive(t)
  /\ resume' = [resume EXCEPT ![t] = TRUE]
  /\ Consume(t, "poll")
  /\ UNCHANGED <<free, clocks, taken, completed, delivered, finished, stop, mailbox, workerVars, apiVars>>

\* A check fails while the generator runs, or the worker's error is raised.
FailCaller(t) ==
  /\ \/ consumer[t] \in {"poll", "taken"} /\ Inactive(t)
     \/ consumer[t] = "taken" /\ taken[t] = "error"
  /\ Leave(t)
  /\ UNCHANGED <<free, clocks, taken, completed, delivered, stop, resume, mailbox, workerVars, apiVars>>

\* The suspended generator is closed, dropped, or resumed to find that it must stop.
CloseCaller(t) ==
  /\ consumer[t] \in {"yielded", "concluded"}
  /\ Leave(t)
  /\ UNCHANGED <<free, clocks, taken, completed, delivered, stop, resume, mailbox, workerVars, apiVars>>

StopWorker(t) ==
  /\ consumer[t] = "leaving"
  /\ stop' = [stop EXCEPT ![t] = ~completed[t]]
  /\ Consume(t, "waking")
  /\ UNCHANGED <<free, clocks, taken, completed, delivered, finished, resume, mailbox, workerVars, apiVars>>

WakeWorker(t) ==
  /\ consumer[t] = "waking"
  /\ resume' = [resume EXCEPT ![t] = TRUE]
  /\ Consume(t, "left")
  /\ UNCHANGED <<free, clocks, taken, completed, delivered, finished, stop, mailbox, workerVars, apiVars>>

(***************************************************************************)
(* The worker.  The model may send any event at any time, end at any time,  *)
(* fail, or exhaust the budget; a call of it ends because its transport has *)
(* finite timeouts.                                                         *)
(***************************************************************************)
Hold(t, letter) ==
  /\ held' = [held EXCEPT ![t] = letter]
  /\ Work(t, "offer")

\* An event other than done: for the caller, unless the task has ended or done was said.
ReadEvent(t) ==
  /\ worker[t] = "read"
  /\ produced[t] < MaxEvents
  /\ \/ /\ ~Halted(t) /\ ~pending[t]
        /\ \E text \in BOOLEAN : answered' = [answered EXCEPT ![t] = @ \/ text]
        /\ produced' = [produced EXCEPT ![t] = @ + 1]
        /\ Hold(t, "event")
     \/ /\ Halted(t) \/ pending[t]
        /\ Hold(t, "error")
        /\ UNCHANGED <<answered, produced>>
  /\ UNCHANGED <<free, clocks, callerVars, signals, mailbox, pending, apiVars>>

\* done is kept until the model's stream ends cleanly.
ReadDoneAtOnce(t) ==           \* Mutant: done is passed on when it is read.
  /\ worker[t] = "read" /\ ~Halted(t) /\ ~pending[t]
  /\ pending' = [pending EXCEPT ![t] = TRUE]
  /\ Hold(t, "done")
  /\ UNCHANGED <<free, clocks, callerVars, signals, mailbox, answered, produced, apiVars>>
ReadDone(t) ==
  /\ worker[t] = "read" /\ ~Halted(t) /\ ~pending[t]
  /\ pending' = [pending EXCEPT ![t] = TRUE]
  /\ UNCHANGED <<free, clocks, callerVars, signals, mailbox, worker, held, answered, produced, apiVars>>

ReadEnd(t) ==
  /\ worker[t] = "read"
  /\ Hold(t, IF ~Halted(t) /\ pending[t] /\ answered[t] THEN "done" ELSE "error")
  /\ UNCHANGED <<free, clocks, callerVars, signals, mailbox, answered, pending, produced, apiVars>>

\* An error event, an exception of the transport, a second done, or a latched budget failure.
ReadError(t) ==
  /\ worker[t] = "read"
  /\ expired' \in {expired, [expired EXCEPT ![t] = TRUE]}
  /\ Hold(t, "error")
  /\ UNCHANGED <<free, cancelled, callerVars, signals, mailbox, answered, pending, produced, apiVars>>

\* put: the loop gives up once the caller has left ...
DropLetter(t) ==
  /\ worker[t] = "offer" /\ finished[t]
  /\ Work(t, "close")
  /\ UNCHANGED <<free, clocks, callerVars, signals, mailbox, held, answered, pending, produced, apiVars>>

Offer(t) ==
  /\ worker[t] = "offer" /\ ~finished[t]
  /\ Work(t, "put")
  /\ UNCHANGED <<free, clocks, callerVars, signals, mailbox, held, answered, pending, produced, apiVars>>

\* ... and otherwise waits a moment for the place; the caller may leave meanwhile.
PutLetter(t) ==
  /\ worker[t] = "put" /\ mailbox[t] = "none"
  /\ mailbox' = [mailbox EXCEPT ![t] = held[t]]
  /\ Work(t, IF held[t] = "event" THEN "wait" ELSE "close")
  /\ UNCHANGED <<free, clocks, callerVars, signals, held, answered, pending, produced, apiVars>>

RetryPut(t) ==
  /\ worker[t] = "put" /\ mailbox[t] # "none"
  /\ Work(t, "offer")
  /\ UNCHANGED <<free, clocks, callerVars, signals, mailbox, held, answered, pending, produced, apiVars>>

\* resume.wait(0.05), then _check_active.
Nap(t) ==
  /\ worker[t] = "wait"
  /\ Work(t, IF resume[t] THEN "woken" ELSE "napped")
  /\ UNCHANGED <<free, clocks, callerVars, signals, mailbox, held, answered, pending, produced, apiVars>>

EndNapUnchecked(t) ==          \* Mutant: the wait does not look at the budget.
  /\ worker[t] = "napped"
  /\ Work(t, "wait")
  /\ UNCHANGED <<free, clocks, callerVars, signals, mailbox, held, answered, pending, produced, apiVars>>
EndNap(t) ==
  /\ worker[t] = "napped"
  /\ IF Halted(t) THEN Hold(t, "error") ELSE Work(t, "wait") /\ UNCHANGED held
  /\ UNCHANGED <<free, clocks, callerVars, signals, mailbox, answered, pending, produced, apiVars>>

ReadOnKeepingResume(t) ==      \* Mutant: resume is never cleared.
  /\ worker[t] = "woken"
  /\ Work(t, "read")
  /\ UNCHANGED <<free, clocks, callerVars, signals, mailbox, held, answered, pending, produced, apiVars>>
ReadOn(t) ==
  /\ worker[t] = "woken"
  /\ resume' = [resume EXCEPT ![t] = FALSE]
  /\ Work(t, "read")
  /\ UNCHANGED <<free, clocks, callerVars, finished, stop, mailbox, held, answered, pending, produced, apiVars>>

\* source.close(), which may block and may fail, and then slots.release().
CloseSource(t) ==
  /\ worker[t] = "close"
  /\ Work(t, "release")
  /\ UNCHANGED <<free, clocks, callerVars, signals, mailbox, held, answered, pending, produced, apiVars>>

ReleaseSlot(t) ==
  /\ worker[t] = "release"
  /\ free' = free + 1
  /\ Work(t, "ended")
  /\ UNCHANGED <<clocks, callerVars, signals, mailbox, held, answered, pending, produced, apiVars>>

(***************************************************************************)
(* The API coroutine and its preparation thread.                            *)
(***************************************************************************)
Await(t, pc) == coroutine' = [coroutine EXCEPT ![t] = pc]
Prepare(t, pc) == preparation' = [preparation EXCEPT ![t] = pc]

\* release_admission, under preparation_lock: the second of the two to finish gives the slot back.
ReleaseAdmissionAlways(t) ==       \* Mutant: the preparation thread is not waited for.
  IF done[t] /\ ~released[t]
  THEN released' = [released EXCEPT ![t] = TRUE] /\ free' = free + 1
  ELSE UNCHANGED <<released, free>>
ReleaseAdmission(t) ==
  IF done[t] /\ ~running[t] /\ ~released[t]
  THEN released' = [released EXCEPT ![t] = TRUE] /\ free' = free + 1
  ELSE UNCHANGED <<released, free>>

AdmitCoroutine(t) ==
  /\ coroutine[t] = "new"
  /\ ~Inactive(t) /\ free > 0
  /\ free' = free - 1
  /\ Await(t, "admitted")
  /\ UNCHANGED <<clocks, streamVars, preparation, running, done, released>>

RefuseCoroutine(t) ==
  /\ coroutine[t] = "new"
  /\ Inactive(t) \/ free = 0
  /\ Await(t, "left")
  /\ UNCHANGED <<free, clocks, streamVars, preparation, running, done, released>>

\* running is set before the thread is started, and taken back if the start fails.
Announce(t) ==
  /\ coroutine[t] = "admitted"
  /\ running' = [running EXCEPT ![t] = TRUE]
  /\ Await(t, "starting")
  /\ UNCHANGED <<free, clocks, streamVars, preparation, done, released>>

StartPreparation(t) ==
  /\ coroutine[t] = "starting"
  /\ Prepare(t, "working")
  /\ Await(t, "preparing")
  /\ UNCHANGED <<free, clocks, streamVars, running, done, released>>

FailToPrepare(t) ==
  /\ coroutine[t] = "starting"
  /\ running' = [running EXCEPT ![t] = FALSE]
  /\ Await(t, "cleanup")
  /\ UNCHANGED <<free, clocks, streamVars, preparation, done, released>>

EndPreparation(t) ==
  /\ preparation[t] = "working"
  /\ running' = [running EXCEPT ![t] = FALSE]
  /\ Prepare(t, "prepared")
  /\ UNCHANGED <<free, clocks, streamVars, coroutine, done, released>>

\* preparation_done.set()
AnnouncePrepared(t) ==
  /\ preparation[t] = "prepared"
  /\ Prepare(t, "announced")
  /\ UNCHANGED <<free, clocks, streamVars, coroutine, running, done, released>>

ReleaseFromPreparation(t) ==
  /\ preparation[t] = "announced"
  /\ ReleaseAdmission(t)
  /\ Prepare(t, "ended")
  /\ UNCHANGED <<clocks, streamVars, coroutine, running, done>>

\* The request was prepared: it is sent and its answer read.
Send(t) ==
  /\ coroutine[t] = "preparing" /\ preparation[t] \in {"announced", "ended"}
  /\ ~Inactive(t)
  /\ Await(t, "reading")
  /\ UNCHANGED <<free, clocks, streamVars, preparation, running, done, released>>

\* The end of the answer, an error, a refused configuration, a failed preparation, the
\* budget's deadline, or the cancellation of the coroutine at any of its awaits.
LeaveCoroutine(t) ==
  /\ coroutine[t] \in {"admitted", "preparing", "reading"}
  /\ Await(t, "cleanup")
  /\ UNCHANGED <<free, clocks, streamVars, preparation, running, done, released>>

\* The shielded close of the response and the client, then consumer_done.
Conclude(t) ==
  /\ coroutine[t] = "cleanup"
  /\ done' = [done EXCEPT ![t] = TRUE]
  /\ Await(t, "concluded")
  /\ UNCHANGED <<free, clocks, streamVars, preparation, running, released>>

ReleaseFromCoroutine(t) ==
  /\ coroutine[t] = "concluded"
  /\ ReleaseAdmission(t)
  /\ Await(t, "left")
  /\ UNCHANGED <<clocks, streamVars, preparation, running, done>>

(***************************************************************************)
(* Time and the client.  Once a task is over they change nothing.           *)
(***************************************************************************)
Live(t) == IF t \in Streams THEN consumer[t] # "left" \/ worker[t] \notin {"none", "ended"}
           ELSE coroutine[t] # "left"

Expire(t) ==
  /\ Live(t) /\ ~expired[t]
  /\ expired' = [expired EXCEPT ![t] = TRUE]
  /\ UNCHANGED <<free, cancelled, streamVars, apiVars>>

Disconnect(t) ==
  /\ Live(t) /\ ~cancelled[t]
  /\ cancelled' = [cancelled EXCEPT ![t] = TRUE]
  /\ UNCHANGED <<free, expired, streamVars, apiVars>>

CallerBegins(t) == Admit(t) \/ Refuse(t)
\* The generator runs: it is not suspended at a yield.
CallerRuns(t) == \/ StartWorker(t) \/ FailToStart(t)
                 \/ Poll(t) \/ PollAgain(t) \/ Take(t)
                 \/ YieldEvent(t) \/ YieldDone(t) \/ FailCaller(t)
                 \/ StopWorker(t) \/ WakeWorker(t)
CallerResumes(t) == Resume(t) \/ CloseCaller(t)
WorkerRuns(t) == \/ ReadEvent(t) \/ ReadDone(t) \/ ReadEnd(t) \/ ReadError(t)
                 \/ DropLetter(t) \/ Offer(t) \/ PutLetter(t) \/ RetryPut(t)
                 \/ Nap(t) \/ EndNap(t) \/ ReadOn(t)
                 \/ CloseSource(t) \/ ReleaseSlot(t)
CoroutineBegins(t) == AdmitCoroutine(t) \/ RefuseCoroutine(t)
CoroutineRuns(t) == \/ Announce(t) \/ StartPreparation(t) \/ FailToPrepare(t)
                    \/ Send(t) \/ LeaveCoroutine(t)
                    \/ Conclude(t) \/ ReleaseFromCoroutine(t)
PreparationRuns(t) == EndPreparation(t) \/ AnnouncePrepared(t) \/ ReleaseFromPreparation(t)

Next ==
  \/ \E t \in Streams : CallerBegins(t) \/ CallerRuns(t) \/ CallerResumes(t) \/ WorkerRuns(t)
  \/ \E t \in Coroutines : CoroutineBegins(t) \/ CoroutineRuns(t) \/ PreparationRuns(t)
  \/ \E t \in Tasks : Expire(t) \/ Disconnect(t)

Spec == Init /\ [][Next]_vars

\* Threads run on, the model's transport has finite timeouts, deadlines pass, and the event
\* loop resumes or closes a coroutine.  Nobody has to resume or to close a generator.
Fairness ==
  /\ \A t \in Streams : WF_vars(CallerRuns(t)) /\ WF_vars(WorkerRuns(t)) /\ WF_vars(Expire(t))
  /\ \A t \in Coroutines : WF_vars(CoroutineRuns(t)) /\ WF_vars(PreparationRuns(t))

FairSpec == Spec /\ Fairness

(***************************************************************************)
(* Properties.                                                              *)
(***************************************************************************)
\* Every variable is of its type; the semaphore never goes above its bound, which
\* BoundedSemaphore.release would refuse with an exception.
TypeOK ==
  /\ free \in 0..Slots
  /\ expired \in [Tasks -> BOOLEAN] /\ cancelled \in [Tasks -> BOOLEAN]
  /\ consumer \in [Streams -> {"new", "admitted", "poll", "get", "taken", "yielded", "concluded",
                               "leaving", "waking", "left"}]
  /\ taken \in [Streams -> Letters \cup {"none"}]
  /\ completed \in [Streams -> BOOLEAN]
  /\ finished \in [Streams -> BOOLEAN] /\ stop \in [Streams -> BOOLEAN] /\ resume \in [Streams -> BOOLEAN]
  /\ mailbox \in [Streams -> Letters \cup {"none"}]
  /\ worker \in [Streams -> {"none", "read", "offer", "put", "wait", "napped", "woken",
                             "close", "release", "ended"}]
  /\ held \in [Streams -> Letters \cup {"none"}]
  /\ answered \in [Streams -> BOOLEAN] /\ pending \in [Streams -> BOOLEAN]
  /\ produced \in [Streams -> 0..MaxEvents] /\ delivered \in [Streams -> 0..MaxEvents]
  /\ coroutine \in [Coroutines -> {"new", "admitted", "starting", "preparing", "reading",
                                   "cleanup", "concluded", "left"}]
  /\ preparation \in [Coroutines -> {"none", "working", "prepared", "announced", "ended"}]
  /\ running \in [Coroutines -> BOOLEAN] /\ done \in [Coroutines -> BOOLEAN]
  /\ released \in [Coroutines -> BOOLEAN]

\* A task whose thread, connection or cleanup is not over yet.
Occupied(t) ==
  IF t \in Streams
  THEN consumer[t] = "admitted" \/ worker[t] \notin {"none", "ended"}
  ELSE \/ coroutine[t] \in {"admitted", "starting", "preparing", "reading", "cleanup"}
       \/ preparation[t] = "working"

\* "A timed-out consumer never releases an occupied slot" (chat.py:125-127): the free slots
\* and the tasks that still run a thread or a cleanup are never more than there are slots.
SlotCoversWork == free + Cardinality({t \in Tasks : Occupied(t)}) <= Slots

\* "Success is valid only after clean iterator EOF" (chat.py:165): a caller is told done only
\* when the model's stream has ended, held an answer, and was handed over to its last event.
DoneIsComplete == \A t \in Streams :
  completed[t] => /\ worker[t] \in {"close", "release", "ended"}
                  /\ answered[t] /\ pending[t]
                  /\ delivered[t] = produced[t]

\* "The worker must not run ahead" (chat.py:170-171): while its caller has not left, the worker
\* reads on, and the model's tools run, only after the caller has taken every event so far
\* and asked for the next.
NoRunAhead == \A t \in Streams :
  worker[t] = "read" /\ ~finished[t] => /\ delivered[t] = produced[t]
                                         /\ consumer[t] # "yielded"

\* Every slot comes back, also from a caller that never resumes its generator: the worker's
\* wait ends at the deadline (chat.py:172-173), its put ends when the caller leaves.
SlotsComeBack == \A t \in Tasks : Occupied(t) ~> ~Occupied(t) /\ free > 0
(***************************************************************************)
(* The inductive invariant.                                                 *)
(***************************************************************************)
Closers == {"close", "release", "ended"}

\* The caller waits for the worker and has all its events.
Quiet(t) == mailbox[t] = "none" /\ consumer[t] \in {"poll", "get"} /\ delivered[t] = produced[t]

\* The event the worker waits for is in the mailbox, in the caller's hand, with whoever drives
\* the caller, or asked to be followed by the next.
EventTravels(t) ==
  \/ ~resume[t] /\ mailbox[t] = "event" /\ consumer[t] \in {"poll", "get"} /\ produced[t] = delivered[t] + 1
  \/ ~resume[t] /\ mailbox[t] = "none" /\ consumer[t] = "taken" /\ taken[t] = "event"
                /\ produced[t] = delivered[t] + 1
  \/ ~resume[t] /\ mailbox[t] = "none" /\ consumer[t] = "yielded" /\ delivered[t] = produced[t]
  \/ resume[t] /\ Quiet(t)

\* Until the caller leaves, the two sides hand one event at a time to each other.
Handshake(t) ==
  /\ worker[t] = "read" => Quiet(t) /\ ~resume[t]
  /\ worker[t] \in {"offer", "put"} /\ held[t] = "event" =>
       ~resume[t] /\ mailbox[t] = "none" /\ consumer[t] \in {"poll", "get"} /\ produced[t] = delivered[t] + 1
  /\ worker[t] \in {"offer", "put"} /\ held[t] = "done" => Quiet(t) /\ answered[t] /\ pending[t]
  /\ worker[t] \in {"wait", "napped"} => EventTravels(t)
  /\ worker[t] = "woken" => Quiet(t)
  /\ ~expired[t] /\ (mailbox[t] = "event" \/ (consumer[t] = "taken" /\ taken[t] = "event")) =>
       worker[t] \in {"wait", "napped"}
  /\ mailbox[t] = "done" \/ (consumer[t] = "taken" /\ taken[t] = "done") =>
       worker[t] \in Closers /\ answered[t] /\ pending[t] /\ delivered[t] = produced[t]

StreamIsTrue(t) ==
  /\ consumer[t] \in {"new", "admitted"} => worker[t] = "none"
  /\ worker[t] = "none" => /\ consumer[t] \in {"new", "admitted", "left"}
                            /\ mailbox[t] = "none" /\ ~resume[t] /\ ~completed[t]
                            /\ produced[t] = 0
  /\ consumer[t] \in {"leaving", "waking"} => finished[t]
  /\ consumer[t] = "left" /\ worker[t] # "none" => finished[t]
  /\ finished[t] => consumer[t] \in {"leaving", "waking", "left"}
  /\ stop[t] => finished[t]
  /\ delivered[t] <= produced[t]
  /\ ~finished[t] => Handshake(t)
  /\ completed[t] => /\ consumer[t] \in {"concluded", "leaving", "waking", "left"}
                      /\ worker[t] \in Closers /\ answered[t] /\ pending[t]
                      /\ delivered[t] = produced[t]

CoroutineIsTrue(t) ==
  /\ coroutine[t] \in {"new", "admitted", "starting"} => preparation[t] = "none"
  /\ coroutine[t] = "starting" => running[t]
  /\ preparation[t] = "working" => running[t] /\ ~released[t]
  /\ running[t] => coroutine[t] = "starting" \/ preparation[t] = "working"
  /\ coroutine[t] = "concluded" => done[t]
  /\ done[t] => coroutine[t] \in {"concluded", "left"}
  /\ coroutine[t] = "left" /\ preparation[t] # "none" => done[t]
  /\ released[t] => done[t]

\* The tasks that have a slot and have not given it back.
Holds(t) == IF t \in Streams
            THEN consumer[t] = "admitted" \/ worker[t] \notin {"none", "ended"}
            ELSE /\ ~released[t]
                 /\ coroutine[t] \notin {"new", "left"} \/ preparation[t] \notin {"none", "ended"}
Holders == {t \in Tasks : Holds(t)}
SlotsAdd == IsFiniteSet(Holders) /\ free + Cardinality(Holders) = Slots

StreamInv == /\ TypeOK /\ SlotsAdd
             /\ \A t \in Streams : StreamIsTrue(t)
             /\ \A t \in Coroutines : CoroutineIsTrue(t)

===============================================================================
