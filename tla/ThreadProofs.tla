------------------------------ MODULE ThreadProofs ------------------------------
(***************************************************************************)
(* Proofs about the two components whose threads share the API process: the *)
(* model tasks (TaskStream) and the daily review (ReviewRefresh).  The two do*)
(* not interact.  Each action moves one task or thread; what is said of the *)
(* others stays true because nothing of theirs changes.                     *)
(***************************************************************************)
EXTENDS TaskStream, ReviewRefresh, FiniteSetTheorems, TLAPS

(***************************************************************************)
(* The model tasks.                                                         *)
(***************************************************************************)
Bounds == /\ Slots \in Nat \ {0}
          /\ MaxEvents \in Nat
          /\ Streams \cap Coroutines = {}

LEMMA BoundsHold == Bounds
  BY StreamAssumption DEF Bounds, StreamAssumption

\* TypeOK without the semaphore, for the streams and for the coroutines.
ClockTypes == expired \in [Tasks -> BOOLEAN] /\ cancelled \in [Tasks -> BOOLEAN]
StreamTypes ==
  /\ consumer \in [Streams -> {"new", "admitted", "poll", "get", "taken", "yielded", "concluded",
                               "leaving", "waking", "left"}]
  /\ taken \in [Streams -> Letters \cup {"none"}]
  /\ completed \in [Streams -> BOOLEAN]
  /\ finished \in [Streams -> BOOLEAN] /\ stop \in [Streams -> BOOLEAN] /\ resume \in [Streams -> BOOLEAN]
  /\ mailbox \in [Streams -> Letters \cup {"none"}]
  /\ worker \in [Streams -> {"none", "read", "offer", "put", "wait", "napped", "woken",
                             "close", "release", "ended"}]
  /\ held \in [Streams -> Letters \cup {"none"}]
  /\ answered \in [Streams -> BOOLEAN] /\ pending \in [Streams -> BOOLEAN]
  /\ produced \in [Streams -> 0..MaxEvents] /\ delivered \in [Streams -> 0..MaxEvents]
ApiTypes ==
  /\ coroutine \in [Coroutines -> {"new", "admitted", "starting", "preparing", "reading",
                                   "cleanup", "concluded", "left"}]
  /\ preparation \in [Coroutines -> {"none", "working", "prepared", "announced", "ended"}]
  /\ running \in [Coroutines -> BOOLEAN] /\ done \in [Coroutines -> BOOLEAN]
  /\ released \in [Coroutines -> BOOLEAN]

LEMMA TypeParts == TypeOK <=> free \in 0..Slots /\ ClockTypes /\ StreamTypes /\ ApiTypes
  BY DEF TypeOK, ClockTypes, StreamTypes, ApiTypes

HoldsStream(t) == consumer[t] = "admitted" \/ worker[t] \notin {"none", "ended"}
HoldsApi(t) == /\ ~released[t]
               /\ coroutine[t] \notin {"new", "left"} \/ preparation[t] \notin {"none", "ended"}

\* Nothing the invariant says of a stream, of a coroutine, has changed.
SameStream(s) ==
  /\ consumer'[s] = consumer[s] /\ taken'[s] = taken[s] /\ completed'[s] = completed[s]
  /\ finished'[s] = finished[s] /\ stop'[s] = stop[s] /\ resume'[s] = resume[s]
  /\ mailbox'[s] = mailbox[s] /\ worker'[s] = worker[s] /\ held'[s] = held[s]
  /\ answered'[s] = answered[s] /\ pending'[s] = pending[s]
  /\ produced'[s] = produced[s] /\ delivered'[s] = delivered[s]
SameApi(s) ==
  /\ coroutine'[s] = coroutine[s] /\ preparation'[s] = preparation[s]
  /\ running'[s] = running[s] /\ done'[s] = done[s] /\ released'[s] = released[s]

LEMMA SameStreamKeeps ==
  ASSUME NEW s, SameStream(s), expired'[s] = expired[s]
  PROVE  /\ StreamIsTrue(s) => StreamIsTrue(s)'
         /\ HoldsStream(s)' <=> HoldsStream(s)
  BY DEF SameStream, StreamIsTrue, Handshake, EventTravels, Quiet, HoldsStream

LEMMA SameApiKeeps ==
  ASSUME NEW s, SameApi(s)
  PROVE  /\ CoroutineIsTrue(s) => CoroutineIsTrue(s)'
         /\ HoldsApi(s)' <=> HoldsApi(s)
  BY DEF SameApi, CoroutineIsTrue, HoldsApi

\* What a step does with the slots, when h says whether its task holds one.
SlotStep(h, h1) ==
  \/ free' = free /\ (h1 <=> h)
  \/ free > 0 /\ free' = free - 1 /\ ~h /\ h1
  \/ free' = free + 1 /\ h /\ ~h1

\* A step of stream t, of coroutine t.
StreamMoves(t) ==
  /\ ClockTypes' /\ StreamTypes' /\ StreamIsTrue(t)' /\ SlotStep(HoldsStream(t), HoldsStream(t)')
  /\ \A s \in Streams : s # t => SameStream(s) /\ expired'[s] = expired[s]
  /\ UNCHANGED apiVars
CoroutineMoves(t) ==
  /\ ApiTypes' /\ CoroutineIsTrue(t)' /\ SlotStep(HoldsApi(t), HoldsApi(t)')
  /\ \A s \in Coroutines : s # t => SameApi(s)
  /\ UNCHANGED <<clocks, streamVars>>

(***************************************************************************)
(* The steps of a stream.                                                   *)
(***************************************************************************)

LEMMA AdmitMoves ==
  ASSUME Bounds, ClockTypes, StreamTypes, NEW t \in Streams, StreamIsTrue(t), Admit(t)
  PROVE  StreamMoves(t)
  <1> USE DEF Admit, Consume, callerVars, signals, workerVars, clocks, streamVars, apiVars
  <1>1. ClockTypes' /\ StreamTypes' /\ UNCHANGED apiVars
    BY DEF Bounds, ClockTypes, StreamTypes, Tasks, Letters
  <1>2. \A s \in Streams : s # t => SameStream(s) /\ expired'[s] = expired[s]
    BY DEF SameStream, ClockTypes, StreamTypes, Tasks
  <1>3. StreamIsTrue(t)'
    BY DEF StreamIsTrue, Handshake, EventTravels, Quiet, Closers, Inactive, Halted,
           ClockTypes, StreamTypes, Tasks, Letters
  <1>4. SlotStep(HoldsStream(t), HoldsStream(t)')
    BY DEF SlotStep, HoldsStream, StreamIsTrue, StreamTypes
  <1> QED BY <1>1, <1>2, <1>3, <1>4 DEF StreamMoves

LEMMA RefuseMoves ==
  ASSUME Bounds, ClockTypes, StreamTypes, NEW t \in Streams, StreamIsTrue(t), Refuse(t)
  PROVE  StreamMoves(t)
  <1> USE DEF Refuse, Consume, callerVars, signals, workerVars, clocks, streamVars, apiVars
  <1>1. ClockTypes' /\ StreamTypes' /\ UNCHANGED apiVars
    BY DEF Bounds, ClockTypes, StreamTypes, Tasks, Letters
  <1>2. \A s \in Streams : s # t => SameStream(s) /\ expired'[s] = expired[s]
    BY DEF SameStream, ClockTypes, StreamTypes, Tasks
  <1>3. StreamIsTrue(t)'
    BY DEF StreamIsTrue, Handshake, EventTravels, Quiet, Closers, Inactive, Halted,
           ClockTypes, StreamTypes, Tasks, Letters
  <1>4. SlotStep(HoldsStream(t), HoldsStream(t)')
    BY DEF SlotStep, HoldsStream, StreamIsTrue, StreamTypes
  <1> QED BY <1>1, <1>2, <1>3, <1>4 DEF StreamMoves

LEMMA StartWorkerMoves ==
  ASSUME Bounds, ClockTypes, StreamTypes, NEW t \in Streams, StreamIsTrue(t), StartWorker(t)
  PROVE  StreamMoves(t)
  <1> USE DEF StartWorker, Consume, Work, callerVars, signals, workerVars, clocks, streamVars, apiVars
  <1>1. ClockTypes' /\ StreamTypes' /\ UNCHANGED apiVars
    BY DEF Bounds, ClockTypes, StreamTypes, Tasks, Letters
  <1>2. \A s \in Streams : s # t => SameStream(s) /\ expired'[s] = expired[s]
    BY DEF SameStream, ClockTypes, StreamTypes, Tasks
  <1>3. StreamIsTrue(t)'
    BY DEF StreamIsTrue, Handshake, EventTravels, Quiet, Closers, Inactive, Halted,
           ClockTypes, StreamTypes, Tasks, Letters
  <1>4. SlotStep(HoldsStream(t), HoldsStream(t)')
    BY DEF SlotStep, HoldsStream, StreamIsTrue, StreamTypes
  <1> QED BY <1>1, <1>2, <1>3, <1>4 DEF StreamMoves

LEMMA FailToStartMoves ==
  ASSUME Bounds, ClockTypes, StreamTypes, NEW t \in Streams, StreamIsTrue(t), FailToStart(t)
  PROVE  StreamMoves(t)
  <1> USE DEF FailToStart, Consume, callerVars, signals, workerVars, clocks, streamVars, apiVars
  <1>1. ClockTypes' /\ StreamTypes' /\ UNCHANGED apiVars
    BY DEF Bounds, ClockTypes, StreamTypes, Tasks, Letters
  <1>2. \A s \in Streams : s # t => SameStream(s) /\ expired'[s] = expired[s]
    BY DEF SameStream, ClockTypes, StreamTypes, Tasks
  <1>3. StreamIsTrue(t)'
    BY DEF StreamIsTrue, Handshake, EventTravels, Quiet, Closers, Inactive, Halted,
           ClockTypes, StreamTypes, Tasks, Letters
  <1>4. SlotStep(HoldsStream(t), HoldsStream(t)')
    BY DEF SlotStep, HoldsStream, StreamIsTrue, StreamTypes
  <1> QED BY <1>1, <1>2, <1>3, <1>4 DEF StreamMoves

LEMMA PollMoves ==
  ASSUME Bounds, ClockTypes, StreamTypes, NEW t \in Streams, StreamIsTrue(t), Poll(t)
  PROVE  StreamMoves(t)
  <1> USE DEF Poll, Consume, callerVars, signals, workerVars, clocks, streamVars, apiVars
  <1>1. ClockTypes' /\ StreamTypes' /\ UNCHANGED apiVars
    BY DEF Bounds, ClockTypes, StreamTypes, Tasks, Letters
  <1>2. \A s \in Streams : s # t => SameStream(s) /\ expired'[s] = expired[s]
    BY DEF SameStream, ClockTypes, StreamTypes, Tasks
  <1>3. StreamIsTrue(t)'
    BY DEF StreamIsTrue, Handshake, EventTravels, Quiet, Closers, Inactive, Halted,
           ClockTypes, StreamTypes, Tasks, Letters
  <1>4. SlotStep(HoldsStream(t), HoldsStream(t)')
    BY DEF SlotStep, HoldsStream, StreamIsTrue, StreamTypes
  <1> QED BY <1>1, <1>2, <1>3, <1>4 DEF StreamMoves

LEMMA PollAgainMoves ==
  ASSUME Bounds, ClockTypes, StreamTypes, NEW t \in Streams, StreamIsTrue(t), PollAgain(t)
  PROVE  StreamMoves(t)
  <1> USE DEF PollAgain, Consume, callerVars, signals, workerVars, clocks, streamVars, apiVars
  <1>1. ClockTypes' /\ StreamTypes' /\ UNCHANGED apiVars
    BY DEF Bounds, ClockTypes, StreamTypes, Tasks, Letters
  <1>2. \A s \in Streams : s # t => SameStream(s) /\ expired'[s] = expired[s]
    BY DEF SameStream, ClockTypes, StreamTypes, Tasks
  <1>3. StreamIsTrue(t)'
    BY DEF StreamIsTrue, Handshake, EventTravels, Quiet, Closers, Inactive, Halted,
           ClockTypes, StreamTypes, Tasks, Letters
  <1>4. SlotStep(HoldsStream(t), HoldsStream(t)')
    BY DEF SlotStep, HoldsStream, StreamIsTrue, StreamTypes
  <1> QED BY <1>1, <1>2, <1>3, <1>4 DEF StreamMoves

LEMMA TakeMoves ==
  ASSUME Bounds, ClockTypes, StreamTypes, NEW t \in Streams, StreamIsTrue(t), Take(t)
  PROVE  StreamMoves(t)
  <1> USE DEF Take, Consume, callerVars, signals, workerVars, clocks, streamVars, apiVars
  <1>1. ClockTypes' /\ StreamTypes' /\ UNCHANGED apiVars
    BY DEF Bounds, ClockTypes, StreamTypes, Tasks, Letters
  <1>2. \A s \in Streams : s # t => SameStream(s) /\ expired'[s] = expired[s]
    BY DEF SameStream, ClockTypes, StreamTypes, Tasks
  <1>3. StreamIsTrue(t)'
    BY DEF StreamIsTrue, Handshake, EventTravels, Quiet, Closers, Inactive, Halted,
           ClockTypes, StreamTypes, Tasks, Letters
  <1>4. SlotStep(HoldsStream(t), HoldsStream(t)')
    BY DEF SlotStep, HoldsStream, StreamIsTrue, StreamTypes
  <1> QED BY <1>1, <1>2, <1>3, <1>4 DEF StreamMoves

LEMMA YieldEventMoves ==
  ASSUME Bounds, ClockTypes, StreamTypes, NEW t \in Streams, StreamIsTrue(t), YieldEvent(t)
  PROVE  StreamMoves(t)
  <1> USE DEF YieldEvent, Consume, callerVars, signals, workerVars, clocks, streamVars, apiVars
  <1>0. produced[t] = delivered[t] + 1
    BY DEF StreamIsTrue, Handshake, EventTravels, Quiet, Inactive
  <1>1. ClockTypes' /\ StreamTypes' /\ UNCHANGED apiVars
    <2>1. delivered[t] + 1 \in 0..MaxEvents
      BY <1>0 DEF Bounds, StreamTypes
    <2> QED BY <2>1 DEF Bounds, ClockTypes, StreamTypes, Tasks, Letters
  <1>2. \A s \in Streams : s # t => SameStream(s) /\ expired'[s] = expired[s]
    BY DEF SameStream, ClockTypes, StreamTypes, Tasks
  <1>3. StreamIsTrue(t)'
    BY DEF StreamIsTrue, Handshake, EventTravels, Quiet, Closers, Inactive, Halted,
           ClockTypes, StreamTypes, Tasks, Letters
  <1>4. SlotStep(HoldsStream(t), HoldsStream(t)')
    BY DEF SlotStep, HoldsStream, StreamIsTrue, StreamTypes
  <1> QED BY <1>1, <1>2, <1>3, <1>4 DEF StreamMoves

LEMMA YieldDoneMoves ==
  ASSUME Bounds, ClockTypes, StreamTypes, NEW t \in Streams, StreamIsTrue(t), YieldDone(t)
  PROVE  StreamMoves(t)
  <1> USE DEF YieldDone, Consume, callerVars, signals, workerVars, clocks, streamVars, apiVars
  <1>1. ClockTypes' /\ StreamTypes' /\ UNCHANGED apiVars
    BY DEF Bounds, ClockTypes, StreamTypes, Tasks, Letters
  <1>2. \A s \in Streams : s # t => SameStream(s) /\ expired'[s] = expired[s]
    BY DEF SameStream, ClockTypes, StreamTypes, Tasks
  <1>3. StreamIsTrue(t)'
    BY DEF StreamIsTrue, Handshake, EventTravels, Quiet, Closers, Inactive, Halted,
           ClockTypes, StreamTypes, Tasks, Letters
  <1>4. SlotStep(HoldsStream(t), HoldsStream(t)')
    BY DEF SlotStep, HoldsStream, StreamIsTrue, StreamTypes
  <1> QED BY <1>1, <1>2, <1>3, <1>4 DEF StreamMoves

LEMMA ResumeMoves ==
  ASSUME Bounds, ClockTypes, StreamTypes, NEW t \in Streams, StreamIsTrue(t), Resume(t)
  PROVE  StreamMoves(t)
  <1> USE DEF Resume, Consume, callerVars, signals, workerVars, clocks, streamVars, apiVars
  <1>1. ClockTypes' /\ StreamTypes' /\ UNCHANGED apiVars
    BY DEF Bounds, ClockTypes, StreamTypes, Tasks, Letters
  <1>2. \A s \in Streams : s # t => SameStream(s) /\ expired'[s] = expired[s]
    BY DEF SameStream, ClockTypes, StreamTypes, Tasks
  <1>3. StreamIsTrue(t)'
    BY DEF StreamIsTrue, Handshake, EventTravels, Quiet, Closers, Inactive, Halted,
           ClockTypes, StreamTypes, Tasks, Letters
  <1>4. SlotStep(HoldsStream(t), HoldsStream(t)')
    BY DEF SlotStep, HoldsStream, StreamIsTrue, StreamTypes
  <1> QED BY <1>1, <1>2, <1>3, <1>4 DEF StreamMoves

LEMMA FailCallerMoves ==
  ASSUME Bounds, ClockTypes, StreamTypes, NEW t \in Streams, StreamIsTrue(t), FailCaller(t)
  PROVE  StreamMoves(t)
  <1> USE DEF FailCaller, Consume, Leave, callerVars, signals, workerVars, clocks, streamVars, apiVars
  <1>1. ClockTypes' /\ StreamTypes' /\ UNCHANGED apiVars
    BY DEF Bounds, ClockTypes, StreamTypes, Tasks, Letters
  <1>2. \A s \in Streams : s # t => SameStream(s) /\ expired'[s] = expired[s]
    BY DEF SameStream, ClockTypes, StreamTypes, Tasks
  <1>3. StreamIsTrue(t)'
    BY DEF StreamIsTrue, Handshake, EventTravels, Quiet, Closers, Inactive, Halted,
           ClockTypes, StreamTypes, Tasks, Letters
  <1>4. SlotStep(HoldsStream(t), HoldsStream(t)')
    BY DEF SlotStep, HoldsStream, StreamIsTrue, StreamTypes
  <1> QED BY <1>1, <1>2, <1>3, <1>4 DEF StreamMoves

LEMMA CloseCallerMoves ==
  ASSUME Bounds, ClockTypes, StreamTypes, NEW t \in Streams, StreamIsTrue(t), CloseCaller(t)
  PROVE  StreamMoves(t)
  <1> USE DEF CloseCaller, Consume, Leave, callerVars, signals, workerVars, clocks, streamVars, apiVars
  <1>1. ClockTypes' /\ StreamTypes' /\ UNCHANGED apiVars
    BY DEF Bounds, ClockTypes, StreamTypes, Tasks, Letters
  <1>2. \A s \in Streams : s # t => SameStream(s) /\ expired'[s] = expired[s]
    BY DEF SameStream, ClockTypes, StreamTypes, Tasks
  <1>3. StreamIsTrue(t)'
    BY DEF StreamIsTrue, Handshake, EventTravels, Quiet, Closers, Inactive, Halted,
           ClockTypes, StreamTypes, Tasks, Letters
  <1>4. SlotStep(HoldsStream(t), HoldsStream(t)')
    BY DEF SlotStep, HoldsStream, StreamIsTrue, StreamTypes
  <1> QED BY <1>1, <1>2, <1>3, <1>4 DEF StreamMoves

LEMMA StopWorkerMoves ==
  ASSUME Bounds, ClockTypes, StreamTypes, NEW t \in Streams, StreamIsTrue(t), StopWorker(t)
  PROVE  StreamMoves(t)
  <1> USE DEF StopWorker, Consume, callerVars, signals, workerVars, clocks, streamVars, apiVars
  <1>1. ClockTypes' /\ StreamTypes' /\ UNCHANGED apiVars
    BY DEF Bounds, ClockTypes, StreamTypes, Tasks, Letters
  <1>2. \A s \in Streams : s # t => SameStream(s) /\ expired'[s] = expired[s]
    BY DEF SameStream, ClockTypes, StreamTypes, Tasks
  <1>3. StreamIsTrue(t)'
    BY DEF StreamIsTrue, Handshake, EventTravels, Quiet, Closers, Inactive, Halted,
           ClockTypes, StreamTypes, Tasks, Letters
  <1>4. SlotStep(HoldsStream(t), HoldsStream(t)')
    BY DEF SlotStep, HoldsStream, StreamIsTrue, StreamTypes
  <1> QED BY <1>1, <1>2, <1>3, <1>4 DEF StreamMoves

LEMMA WakeWorkerMoves ==
  ASSUME Bounds, ClockTypes, StreamTypes, NEW t \in Streams, StreamIsTrue(t), WakeWorker(t)
  PROVE  StreamMoves(t)
  <1> USE DEF WakeWorker, Consume, callerVars, signals, workerVars, clocks, streamVars, apiVars
  <1>1. ClockTypes' /\ StreamTypes' /\ UNCHANGED apiVars
    BY DEF Bounds, ClockTypes, StreamTypes, Tasks, Letters
  <1>2. \A s \in Streams : s # t => SameStream(s) /\ expired'[s] = expired[s]
    BY DEF SameStream, ClockTypes, StreamTypes, Tasks
  <1>3. StreamIsTrue(t)'
    BY DEF StreamIsTrue, Handshake, EventTravels, Quiet, Closers, Inactive, Halted,
           ClockTypes, StreamTypes, Tasks, Letters
  <1>4. SlotStep(HoldsStream(t), HoldsStream(t)')
    BY DEF SlotStep, HoldsStream, StreamIsTrue, StreamTypes
  <1> QED BY <1>1, <1>2, <1>3, <1>4 DEF StreamMoves

LEMMA ReadEventMoves ==
  ASSUME Bounds, ClockTypes, StreamTypes, NEW t \in Streams, StreamIsTrue(t), ReadEvent(t)
  PROVE  StreamMoves(t)
  <1> USE DEF ReadEvent, Hold, Work, callerVars, signals, workerVars, clocks, streamVars, apiVars
  <1>1. ClockTypes' /\ StreamTypes' /\ UNCHANGED apiVars
    <2>1. answered' \in [Streams -> BOOLEAN]
      <3>1. CASE \E text \in BOOLEAN : answered' = [answered EXCEPT ![t] = @ \/ text]
        <4>1. PICK text \in BOOLEAN : answered' = [answered EXCEPT ![t] = @ \/ text]
          BY <3>1
        <4>2. (answered[t] \/ text) \in BOOLEAN
          OBVIOUS
        <4> QED BY <4>1, <4>2 DEF StreamTypes
      <3>2. CASE UNCHANGED answered
        BY <3>2 DEF StreamTypes
      <3> QED BY <3>1, <3>2
    <2>2. produced' \in [Streams -> 0..MaxEvents]
      BY DEF Bounds, StreamTypes
    <2>3. held' \in [Streams -> Letters \cup {"none"}]
      BY DEF StreamTypes, Letters
    <2> QED BY <2>1, <2>2, <2>3 DEF ClockTypes, StreamTypes
  <1>2. \A s \in Streams : s # t => SameStream(s) /\ expired'[s] = expired[s]
    BY DEF SameStream, ClockTypes, StreamTypes, Tasks
  <1>3. StreamIsTrue(t)'
    <2>1. CASE ~Halted(t) /\ ~pending[t]
      BY <2>1 DEF StreamIsTrue, Handshake, EventTravels, Quiet, Closers, Halted,
                  ClockTypes, StreamTypes, Tasks, Letters
    <2>2. CASE Halted(t) \/ pending[t]
      BY <2>2 DEF StreamIsTrue, Handshake, EventTravels, Quiet, Closers, Halted,
                  ClockTypes, StreamTypes, Tasks, Letters
    <2> QED BY <2>1, <2>2
  <1>4. SlotStep(HoldsStream(t), HoldsStream(t)')
    BY DEF SlotStep, HoldsStream, StreamIsTrue, StreamTypes
  <1> QED BY <1>1, <1>2, <1>3, <1>4 DEF StreamMoves

LEMMA ReadDoneMoves ==
  ASSUME Bounds, ClockTypes, StreamTypes, NEW t \in Streams, StreamIsTrue(t), ReadDone(t)
  PROVE  StreamMoves(t)
  <1> USE DEF ReadDone, callerVars, signals, workerVars, clocks, streamVars, apiVars
  <1>1. ClockTypes' /\ StreamTypes' /\ UNCHANGED apiVars
    BY DEF Bounds, ClockTypes, StreamTypes, Tasks, Letters
  <1>2. \A s \in Streams : s # t => SameStream(s) /\ expired'[s] = expired[s]
    BY DEF SameStream, ClockTypes, StreamTypes, Tasks
  <1>3. StreamIsTrue(t)'
    BY DEF StreamIsTrue, Handshake, EventTravels, Quiet, Closers, Inactive, Halted,
           ClockTypes, StreamTypes, Tasks, Letters
  <1>4. SlotStep(HoldsStream(t), HoldsStream(t)')
    BY DEF SlotStep, HoldsStream, StreamIsTrue, StreamTypes
  <1> QED BY <1>1, <1>2, <1>3, <1>4 DEF StreamMoves

LEMMA ReadEndMoves ==
  ASSUME Bounds, ClockTypes, StreamTypes, NEW t \in Streams, StreamIsTrue(t), ReadEnd(t)
  PROVE  StreamMoves(t)
  <1> USE DEF ReadEnd, Hold, Work, callerVars, signals, workerVars, clocks, streamVars, apiVars
  <1>1. ClockTypes' /\ StreamTypes' /\ UNCHANGED apiVars
    BY DEF Bounds, ClockTypes, StreamTypes, Tasks, Letters
  <1>2. \A s \in Streams : s # t => SameStream(s) /\ expired'[s] = expired[s]
    BY DEF SameStream, ClockTypes, StreamTypes, Tasks
  <1>3. StreamIsTrue(t)'
    BY DEF StreamIsTrue, Handshake, EventTravels, Quiet, Closers, Inactive, Halted,
           ClockTypes, StreamTypes, Tasks, Letters
  <1>4. SlotStep(HoldsStream(t), HoldsStream(t)')
    BY DEF SlotStep, HoldsStream, StreamIsTrue, StreamTypes
  <1> QED BY <1>1, <1>2, <1>3, <1>4 DEF StreamMoves

LEMMA ReadErrorMoves ==
  ASSUME Bounds, ClockTypes, StreamTypes, NEW t \in Streams, StreamIsTrue(t), ReadError(t)
  PROVE  StreamMoves(t)
  <1> USE DEF ReadError, Hold, Work, callerVars, signals, workerVars, clocks, streamVars, apiVars
  <1>1. ClockTypes' /\ StreamTypes' /\ UNCHANGED apiVars
    BY DEF Bounds, ClockTypes, StreamTypes, Tasks, Letters
  <1>2. \A s \in Streams : s # t => SameStream(s) /\ expired'[s] = expired[s]
    BY DEF SameStream, ClockTypes, StreamTypes, Tasks
  <1>3. StreamIsTrue(t)'
    BY DEF StreamIsTrue, Handshake, EventTravels, Quiet, Closers, Inactive, Halted,
           ClockTypes, StreamTypes, Tasks, Letters
  <1>4. SlotStep(HoldsStream(t), HoldsStream(t)')
    BY DEF SlotStep, HoldsStream, StreamIsTrue, StreamTypes
  <1> QED BY <1>1, <1>2, <1>3, <1>4 DEF StreamMoves

LEMMA DropLetterMoves ==
  ASSUME Bounds, ClockTypes, StreamTypes, NEW t \in Streams, StreamIsTrue(t), DropLetter(t)
  PROVE  StreamMoves(t)
  <1> USE DEF DropLetter, Work, callerVars, signals, workerVars, clocks, streamVars, apiVars
  <1>1. ClockTypes' /\ StreamTypes' /\ UNCHANGED apiVars
    BY DEF Bounds, ClockTypes, StreamTypes, Tasks, Letters
  <1>2. \A s \in Streams : s # t => SameStream(s) /\ expired'[s] = expired[s]
    BY DEF SameStream, ClockTypes, StreamTypes, Tasks
  <1>3. StreamIsTrue(t)'
    BY DEF StreamIsTrue, Handshake, EventTravels, Quiet, Closers, Inactive, Halted,
           ClockTypes, StreamTypes, Tasks, Letters
  <1>4. SlotStep(HoldsStream(t), HoldsStream(t)')
    BY DEF SlotStep, HoldsStream, StreamIsTrue, StreamTypes
  <1> QED BY <1>1, <1>2, <1>3, <1>4 DEF StreamMoves

LEMMA OfferMoves ==
  ASSUME Bounds, ClockTypes, StreamTypes, NEW t \in Streams, StreamIsTrue(t), Offer(t)
  PROVE  StreamMoves(t)
  <1> USE DEF Offer, Work, callerVars, signals, workerVars, clocks, streamVars, apiVars
  <1>1. ClockTypes' /\ StreamTypes' /\ UNCHANGED apiVars
    BY DEF Bounds, ClockTypes, StreamTypes, Tasks, Letters
  <1>2. \A s \in Streams : s # t => SameStream(s) /\ expired'[s] = expired[s]
    BY DEF SameStream, ClockTypes, StreamTypes, Tasks
  <1>3. StreamIsTrue(t)'
    BY DEF StreamIsTrue, Handshake, EventTravels, Quiet, Closers, Inactive, Halted,
           ClockTypes, StreamTypes, Tasks, Letters
  <1>4. SlotStep(HoldsStream(t), HoldsStream(t)')
    BY DEF SlotStep, HoldsStream, StreamIsTrue, StreamTypes
  <1> QED BY <1>1, <1>2, <1>3, <1>4 DEF StreamMoves

LEMMA PutLetterMoves ==
  ASSUME Bounds, ClockTypes, StreamTypes, NEW t \in Streams, StreamIsTrue(t), PutLetter(t)
  PROVE  StreamMoves(t)
  <1> USE DEF PutLetter, Work, callerVars, signals, workerVars, clocks, streamVars, apiVars
  <1>1. ClockTypes' /\ StreamTypes' /\ UNCHANGED apiVars
    BY DEF Bounds, ClockTypes, StreamTypes, Tasks, Letters
  <1>2. \A s \in Streams : s # t => SameStream(s) /\ expired'[s] = expired[s]
    BY DEF SameStream, ClockTypes, StreamTypes, Tasks
  <1>3. StreamIsTrue(t)'
    BY DEF StreamIsTrue, Handshake, EventTravels, Quiet, Closers, Inactive, Halted,
           ClockTypes, StreamTypes, Tasks, Letters
  <1>4. SlotStep(HoldsStream(t), HoldsStream(t)')
    BY DEF SlotStep, HoldsStream, StreamIsTrue, StreamTypes
  <1> QED BY <1>1, <1>2, <1>3, <1>4 DEF StreamMoves

LEMMA RetryPutMoves ==
  ASSUME Bounds, ClockTypes, StreamTypes, NEW t \in Streams, StreamIsTrue(t), RetryPut(t)
  PROVE  StreamMoves(t)
  <1> USE DEF RetryPut, Work, callerVars, signals, workerVars, clocks, streamVars, apiVars
  <1>1. ClockTypes' /\ StreamTypes' /\ UNCHANGED apiVars
    BY DEF Bounds, ClockTypes, StreamTypes, Tasks, Letters
  <1>2. \A s \in Streams : s # t => SameStream(s) /\ expired'[s] = expired[s]
    BY DEF SameStream, ClockTypes, StreamTypes, Tasks
  <1>3. StreamIsTrue(t)'
    BY DEF StreamIsTrue, Handshake, EventTravels, Quiet, Closers, Inactive, Halted,
           ClockTypes, StreamTypes, Tasks, Letters
  <1>4. SlotStep(HoldsStream(t), HoldsStream(t)')
    BY DEF SlotStep, HoldsStream, StreamIsTrue, StreamTypes
  <1> QED BY <1>1, <1>2, <1>3, <1>4 DEF StreamMoves

LEMMA NapMoves ==
  ASSUME Bounds, ClockTypes, StreamTypes, NEW t \in Streams, StreamIsTrue(t), Nap(t)
  PROVE  StreamMoves(t)
  <1> USE DEF Nap, Work, callerVars, signals, workerVars, clocks, streamVars, apiVars
  <1>1. ClockTypes' /\ StreamTypes' /\ UNCHANGED apiVars
    BY DEF Bounds, ClockTypes, StreamTypes, Tasks, Letters
  <1>2. \A s \in Streams : s # t => SameStream(s) /\ expired'[s] = expired[s]
    BY DEF SameStream, ClockTypes, StreamTypes, Tasks
  <1>3. StreamIsTrue(t)'
    BY DEF StreamIsTrue, Handshake, EventTravels, Quiet, Closers, Inactive, Halted,
           ClockTypes, StreamTypes, Tasks, Letters
  <1>4. SlotStep(HoldsStream(t), HoldsStream(t)')
    BY DEF SlotStep, HoldsStream, StreamIsTrue, StreamTypes
  <1> QED BY <1>1, <1>2, <1>3, <1>4 DEF StreamMoves

LEMMA EndNapMoves ==
  ASSUME Bounds, ClockTypes, StreamTypes, NEW t \in Streams, StreamIsTrue(t), EndNap(t)
  PROVE  StreamMoves(t)
  <1> USE DEF EndNap, Hold, Work, callerVars, signals, workerVars, clocks, streamVars, apiVars
  <1>1. ClockTypes' /\ StreamTypes' /\ UNCHANGED apiVars
    BY DEF Bounds, ClockTypes, StreamTypes, Tasks, Letters
  <1>2. \A s \in Streams : s # t => SameStream(s) /\ expired'[s] = expired[s]
    BY DEF SameStream, ClockTypes, StreamTypes, Tasks
  <1>3. StreamIsTrue(t)'
    BY DEF StreamIsTrue, Handshake, EventTravels, Quiet, Closers, Inactive, Halted,
           ClockTypes, StreamTypes, Tasks, Letters
  <1>4. SlotStep(HoldsStream(t), HoldsStream(t)')
    BY DEF SlotStep, HoldsStream, StreamIsTrue, StreamTypes
  <1> QED BY <1>1, <1>2, <1>3, <1>4 DEF StreamMoves

LEMMA ReadOnMoves ==
  ASSUME Bounds, ClockTypes, StreamTypes, NEW t \in Streams, StreamIsTrue(t), ReadOn(t)
  PROVE  StreamMoves(t)
  <1> USE DEF ReadOn, Work, callerVars, signals, workerVars, clocks, streamVars, apiVars
  <1>1. ClockTypes' /\ StreamTypes' /\ UNCHANGED apiVars
    BY DEF Bounds, ClockTypes, StreamTypes, Tasks, Letters
  <1>2. \A s \in Streams : s # t => SameStream(s) /\ expired'[s] = expired[s]
    BY DEF SameStream, ClockTypes, StreamTypes, Tasks
  <1>3. StreamIsTrue(t)'
    BY DEF StreamIsTrue, Handshake, EventTravels, Quiet, Closers, Inactive, Halted,
           ClockTypes, StreamTypes, Tasks, Letters
  <1>4. SlotStep(HoldsStream(t), HoldsStream(t)')
    BY DEF SlotStep, HoldsStream, StreamIsTrue, StreamTypes
  <1> QED BY <1>1, <1>2, <1>3, <1>4 DEF StreamMoves

LEMMA CloseSourceMoves ==
  ASSUME Bounds, ClockTypes, StreamTypes, NEW t \in Streams, StreamIsTrue(t), CloseSource(t)
  PROVE  StreamMoves(t)
  <1> USE DEF CloseSource, Work, callerVars, signals, workerVars, clocks, streamVars, apiVars
  <1>1. ClockTypes' /\ StreamTypes' /\ UNCHANGED apiVars
    BY DEF Bounds, ClockTypes, StreamTypes, Tasks, Letters
  <1>2. \A s \in Streams : s # t => SameStream(s) /\ expired'[s] = expired[s]
    BY DEF SameStream, ClockTypes, StreamTypes, Tasks
  <1>3. StreamIsTrue(t)'
    BY DEF StreamIsTrue, Handshake, EventTravels, Quiet, Closers, Inactive, Halted,
           ClockTypes, StreamTypes, Tasks, Letters
  <1>4. SlotStep(HoldsStream(t), HoldsStream(t)')
    BY DEF SlotStep, HoldsStream, StreamIsTrue, StreamTypes
  <1> QED BY <1>1, <1>2, <1>3, <1>4 DEF StreamMoves

LEMMA ReleaseSlotMoves ==
  ASSUME Bounds, ClockTypes, StreamTypes, NEW t \in Streams, StreamIsTrue(t), ReleaseSlot(t)
  PROVE  StreamMoves(t)
  <1> USE DEF ReleaseSlot, Work, callerVars, signals, workerVars, clocks, streamVars, apiVars
  <1>1. ClockTypes' /\ StreamTypes' /\ UNCHANGED apiVars
    BY DEF Bounds, ClockTypes, StreamTypes, Tasks, Letters
  <1>2. \A s \in Streams : s # t => SameStream(s) /\ expired'[s] = expired[s]
    BY DEF SameStream, ClockTypes, StreamTypes, Tasks
  <1>3. StreamIsTrue(t)'
    BY DEF StreamIsTrue, Handshake, EventTravels, Quiet, Closers, Inactive, Halted,
           ClockTypes, StreamTypes, Tasks, Letters
  <1>4. SlotStep(HoldsStream(t), HoldsStream(t)')
    BY DEF SlotStep, HoldsStream, StreamIsTrue, StreamTypes
  <1> QED BY <1>1, <1>2, <1>3, <1>4 DEF StreamMoves

(***************************************************************************)
(* The steps of a coroutine and of its preparation thread.                  *)
(***************************************************************************)

LEMMA AdmitCoroutineMoves ==
  ASSUME ApiTypes, NEW t \in Coroutines, CoroutineIsTrue(t), AdmitCoroutine(t)
  PROVE  CoroutineMoves(t)
  <1> USE DEF AdmitCoroutine, Await, clocks, streamVars
  <1>1. ApiTypes' /\ UNCHANGED <<clocks, streamVars>>
    BY DEF ApiTypes
  <1>2. \A s \in Coroutines : s # t => SameApi(s)
    BY DEF SameApi, ApiTypes
  <1>3. CoroutineIsTrue(t)'
    BY DEF CoroutineIsTrue, ApiTypes
  <1>4. SlotStep(HoldsApi(t), HoldsApi(t)')
    BY DEF SlotStep, HoldsApi, CoroutineIsTrue, ApiTypes
  <1> QED BY <1>1, <1>2, <1>3, <1>4 DEF CoroutineMoves

LEMMA RefuseCoroutineMoves ==
  ASSUME ApiTypes, NEW t \in Coroutines, CoroutineIsTrue(t), RefuseCoroutine(t)
  PROVE  CoroutineMoves(t)
  <1> USE DEF RefuseCoroutine, Await, clocks, streamVars
  <1>1. ApiTypes' /\ UNCHANGED <<clocks, streamVars>>
    BY DEF ApiTypes
  <1>2. \A s \in Coroutines : s # t => SameApi(s)
    BY DEF SameApi, ApiTypes
  <1>3. CoroutineIsTrue(t)'
    BY DEF CoroutineIsTrue, ApiTypes
  <1>4. SlotStep(HoldsApi(t), HoldsApi(t)')
    BY DEF SlotStep, HoldsApi, CoroutineIsTrue, ApiTypes
  <1> QED BY <1>1, <1>2, <1>3, <1>4 DEF CoroutineMoves

LEMMA AnnounceMoves ==
  ASSUME ApiTypes, NEW t \in Coroutines, CoroutineIsTrue(t), Announce(t)
  PROVE  CoroutineMoves(t)
  <1> USE DEF Announce, Await, clocks, streamVars
  <1>1. ApiTypes' /\ UNCHANGED <<clocks, streamVars>>
    BY DEF ApiTypes
  <1>2. \A s \in Coroutines : s # t => SameApi(s)
    BY DEF SameApi, ApiTypes
  <1>3. CoroutineIsTrue(t)'
    BY DEF CoroutineIsTrue, ApiTypes
  <1>4. SlotStep(HoldsApi(t), HoldsApi(t)')
    BY DEF SlotStep, HoldsApi, CoroutineIsTrue, ApiTypes
  <1> QED BY <1>1, <1>2, <1>3, <1>4 DEF CoroutineMoves

LEMMA StartPreparationMoves ==
  ASSUME ApiTypes, NEW t \in Coroutines, CoroutineIsTrue(t), StartPreparation(t)
  PROVE  CoroutineMoves(t)
  <1> USE DEF StartPreparation, Await, Prepare, clocks, streamVars
  <1>1. ApiTypes' /\ UNCHANGED <<clocks, streamVars>>
    BY DEF ApiTypes
  <1>2. \A s \in Coroutines : s # t => SameApi(s)
    BY DEF SameApi, ApiTypes
  <1>3. CoroutineIsTrue(t)'
    BY DEF CoroutineIsTrue, ApiTypes
  <1>4. SlotStep(HoldsApi(t), HoldsApi(t)')
    BY DEF SlotStep, HoldsApi, CoroutineIsTrue, ApiTypes
  <1> QED BY <1>1, <1>2, <1>3, <1>4 DEF CoroutineMoves

LEMMA FailToPrepareMoves ==
  ASSUME ApiTypes, NEW t \in Coroutines, CoroutineIsTrue(t), FailToPrepare(t)
  PROVE  CoroutineMoves(t)
  <1> USE DEF FailToPrepare, Await, clocks, streamVars
  <1>1. ApiTypes' /\ UNCHANGED <<clocks, streamVars>>
    BY DEF ApiTypes
  <1>2. \A s \in Coroutines : s # t => SameApi(s)
    BY DEF SameApi, ApiTypes
  <1>3. CoroutineIsTrue(t)'
    BY DEF CoroutineIsTrue, ApiTypes
  <1>4. SlotStep(HoldsApi(t), HoldsApi(t)')
    BY DEF SlotStep, HoldsApi, CoroutineIsTrue, ApiTypes
  <1> QED BY <1>1, <1>2, <1>3, <1>4 DEF CoroutineMoves

LEMMA EndPreparationMoves ==
  ASSUME ApiTypes, NEW t \in Coroutines, CoroutineIsTrue(t), EndPreparation(t)
  PROVE  CoroutineMoves(t)
  <1> USE DEF EndPreparation, Prepare, clocks, streamVars
  <1>1. ApiTypes' /\ UNCHANGED <<clocks, streamVars>>
    BY DEF ApiTypes
  <1>2. \A s \in Coroutines : s # t => SameApi(s)
    BY DEF SameApi, ApiTypes
  <1>3. CoroutineIsTrue(t)'
    BY DEF CoroutineIsTrue, ApiTypes
  <1>4. SlotStep(HoldsApi(t), HoldsApi(t)')
    BY DEF SlotStep, HoldsApi, CoroutineIsTrue, ApiTypes
  <1> QED BY <1>1, <1>2, <1>3, <1>4 DEF CoroutineMoves

LEMMA AnnouncePreparedMoves ==
  ASSUME ApiTypes, NEW t \in Coroutines, CoroutineIsTrue(t), AnnouncePrepared(t)
  PROVE  CoroutineMoves(t)
  <1> USE DEF AnnouncePrepared, Prepare, clocks, streamVars
  <1>1. ApiTypes' /\ UNCHANGED <<clocks, streamVars>>
    BY DEF ApiTypes
  <1>2. \A s \in Coroutines : s # t => SameApi(s)
    BY DEF SameApi, ApiTypes
  <1>3. CoroutineIsTrue(t)'
    BY DEF CoroutineIsTrue, ApiTypes
  <1>4. SlotStep(HoldsApi(t), HoldsApi(t)')
    BY DEF SlotStep, HoldsApi, CoroutineIsTrue, ApiTypes
  <1> QED BY <1>1, <1>2, <1>3, <1>4 DEF CoroutineMoves

LEMMA ReleaseFromPreparationMoves ==
  ASSUME ApiTypes, NEW t \in Coroutines, CoroutineIsTrue(t), ReleaseFromPreparation(t)
  PROVE  CoroutineMoves(t)
  <1> USE DEF ReleaseFromPreparation, Prepare, ReleaseAdmission, clocks, streamVars
  <1>1. ApiTypes' /\ UNCHANGED <<clocks, streamVars>>
    BY DEF ApiTypes
  <1>2. \A s \in Coroutines : s # t => SameApi(s)
    BY DEF SameApi, ApiTypes
  <1>3. CoroutineIsTrue(t)'
    BY DEF CoroutineIsTrue, ApiTypes
  <1>4. SlotStep(HoldsApi(t), HoldsApi(t)')
    BY DEF SlotStep, HoldsApi, CoroutineIsTrue, ApiTypes
  <1> QED BY <1>1, <1>2, <1>3, <1>4 DEF CoroutineMoves

LEMMA SendMoves ==
  ASSUME ApiTypes, NEW t \in Coroutines, CoroutineIsTrue(t), Send(t)
  PROVE  CoroutineMoves(t)
  <1> USE DEF Send, Await, clocks, streamVars
  <1>1. ApiTypes' /\ UNCHANGED <<clocks, streamVars>>
    BY DEF ApiTypes
  <1>2. \A s \in Coroutines : s # t => SameApi(s)
    BY DEF SameApi, ApiTypes
  <1>3. CoroutineIsTrue(t)'
    BY DEF CoroutineIsTrue, ApiTypes
  <1>4. SlotStep(HoldsApi(t), HoldsApi(t)')
    BY DEF SlotStep, HoldsApi, CoroutineIsTrue, ApiTypes
  <1> QED BY <1>1, <1>2, <1>3, <1>4 DEF CoroutineMoves

LEMMA LeaveCoroutineMoves ==
  ASSUME ApiTypes, NEW t \in Coroutines, CoroutineIsTrue(t), LeaveCoroutine(t)
  PROVE  CoroutineMoves(t)
  <1> USE DEF LeaveCoroutine, Await, clocks, streamVars
  <1>1. ApiTypes' /\ UNCHANGED <<clocks, streamVars>>
    BY DEF ApiTypes
  <1>2. \A s \in Coroutines : s # t => SameApi(s)
    BY DEF SameApi, ApiTypes
  <1>3. CoroutineIsTrue(t)'
    BY DEF CoroutineIsTrue, ApiTypes
  <1>4. SlotStep(HoldsApi(t), HoldsApi(t)')
    BY DEF SlotStep, HoldsApi, CoroutineIsTrue, ApiTypes
  <1> QED BY <1>1, <1>2, <1>3, <1>4 DEF CoroutineMoves

LEMMA ConcludeMoves ==
  ASSUME ApiTypes, NEW t \in Coroutines, CoroutineIsTrue(t), Conclude(t)
  PROVE  CoroutineMoves(t)
  <1> USE DEF Conclude, Await, clocks, streamVars
  <1>1. ApiTypes' /\ UNCHANGED <<clocks, streamVars>>
    BY DEF ApiTypes
  <1>2. \A s \in Coroutines : s # t => SameApi(s)
    BY DEF SameApi, ApiTypes
  <1>3. CoroutineIsTrue(t)'
    BY DEF CoroutineIsTrue, ApiTypes
  <1>4. SlotStep(HoldsApi(t), HoldsApi(t)')
    BY DEF SlotStep, HoldsApi, CoroutineIsTrue, ApiTypes
  <1> QED BY <1>1, <1>2, <1>3, <1>4 DEF CoroutineMoves

LEMMA ReleaseFromCoroutineMoves ==
  ASSUME ApiTypes, NEW t \in Coroutines, CoroutineIsTrue(t), ReleaseFromCoroutine(t)
  PROVE  CoroutineMoves(t)
  <1> USE DEF ReleaseFromCoroutine, Await, ReleaseAdmission, clocks, streamVars
  <1>1. ApiTypes' /\ UNCHANGED <<clocks, streamVars>>
    BY DEF ApiTypes
  <1>2. \A s \in Coroutines : s # t => SameApi(s)
    BY DEF SameApi, ApiTypes
  <1>3. CoroutineIsTrue(t)'
    BY DEF CoroutineIsTrue, ApiTypes
  <1>4. SlotStep(HoldsApi(t), HoldsApi(t)')
    BY DEF SlotStep, HoldsApi, CoroutineIsTrue, ApiTypes
  <1> QED BY <1>1, <1>2, <1>3, <1>4 DEF CoroutineMoves

(***************************************************************************)
(* The coroutines, the streams and the slots together.                      *)
(***************************************************************************)
LEMMA HoldsParts ==
  ASSUME Bounds
  PROVE  /\ \A t \in Streams : Holds(t) <=> HoldsStream(t)
         /\ \A t \in Coroutines : Holds(t) <=> HoldsApi(t)
  BY DEF Bounds, Holds, HoldsStream, HoldsApi

\* A slot is taken and given back with the task that holds it.
LEMMA SlotsStayCovered ==
  ASSUME Bounds, SlotsAdd, free \in 0..Slots, NEW t \in Tasks,
         SlotStep(Holds(t), Holds(t)'),
         \A s \in Tasks : s # t => (Holds(s)' <=> Holds(s))
  PROVE  SlotsAdd' /\ free' \in 0..Slots
  <1>1. IsFiniteSet(Holders) /\ Cardinality(Holders) \in Nat /\ free + Cardinality(Holders) = Slots
    BY FS_CardinalityType DEF SlotsAdd
  <1>2. CASE free' = free /\ (Holds(t)' <=> Holds(t))
    <2>1. Holders' = Holders
      BY <1>2 DEF Holders
    <2> QED BY <1>1, <1>2, <2>1 DEF SlotsAdd
  <1>3. CASE free > 0 /\ free' = free - 1 /\ ~Holds(t) /\ Holds(t)'
    <2>1. Holders' = Holders \cup {t} /\ t \notin Holders
      BY <1>3 DEF Holders
    <2>2. IsFiniteSet(Holders') /\ Cardinality(Holders') = Cardinality(Holders) + 1
      BY <1>1, <2>1, FS_AddElement
    <2> QED BY <1>1, <1>3, <2>2 DEF SlotsAdd, Bounds
  <1>4. CASE free' = free + 1 /\ Holds(t) /\ ~Holds(t)'
    <2>1. Holders' = Holders \ {t} /\ t \in Holders
      BY <1>4 DEF Holders
    <2>2. IsFiniteSet(Holders') /\ Cardinality(Holders') = Cardinality(Holders) - 1
      BY <1>1, <2>1, FS_RemoveElement
    <2>3. Cardinality(Holders') \in Nat
      BY <2>2, FS_CardinalityType
    <2> QED BY <1>1, <1>4, <2>2, <2>3 DEF SlotsAdd, Bounds
  <1> QED BY <1>2, <1>3, <1>4 DEF SlotStep

LEMMA StreamMoveKeeps ==
  ASSUME Bounds, StreamInv, NEW t \in Streams, StreamMoves(t)
  PROVE  StreamInv'
  <1>1. /\ free \in 0..Slots /\ SlotsAdd /\ ApiTypes
        /\ \A s \in Streams : StreamIsTrue(s)
        /\ \A s \in Coroutines : CoroutineIsTrue(s)
    BY TypeParts DEF StreamInv
  <1>2. /\ ClockTypes' /\ StreamTypes' /\ StreamIsTrue(t)' /\ UNCHANGED apiVars
        /\ SlotStep(HoldsStream(t), HoldsStream(t)')
        /\ \A s \in Streams : s # t => SameStream(s) /\ expired'[s] = expired[s]
    BY DEF StreamMoves
  <1>3. ApiTypes' /\ \A s \in Coroutines : SameApi(s)
    BY <1>1, <1>2 DEF apiVars, ApiTypes, SameApi
  <1>4. \A s \in Streams : s # t => StreamIsTrue(s)' /\ (HoldsStream(s)' <=> HoldsStream(s))
    BY <1>1, <1>2, SameStreamKeeps
  <1>5. \A s \in Coroutines : CoroutineIsTrue(s)' /\ (HoldsApi(s)' <=> HoldsApi(s))
    BY <1>1, <1>3, SameApiKeeps
  <1>6. /\ \A s \in Streams : Holds(s) <=> HoldsStream(s)
        /\ \A s \in Coroutines : Holds(s) <=> HoldsApi(s)
        /\ \A s \in Streams : Holds(s)' <=> HoldsStream(s)'
        /\ \A s \in Coroutines : Holds(s)' <=> HoldsApi(s)'
    BY HoldsParts DEF Bounds, Holds, HoldsStream, HoldsApi
  <1>7. /\ t \in Tasks /\ SlotStep(Holds(t), Holds(t)')
        /\ \A s \in Tasks : s # t => (Holds(s)' <=> Holds(s))
    BY <1>2, <1>4, <1>5, <1>6 DEF Tasks, SlotStep
  <1>8. SlotsAdd' /\ free' \in 0..Slots
    BY <1>1, <1>7, SlotsStayCovered
  <1>9. TypeOK'
    BY <1>2, <1>3, <1>8 DEF TypeOK, ClockTypes, StreamTypes, ApiTypes
  <1> QED BY <1>2, <1>4, <1>5, <1>8, <1>9 DEF StreamInv

LEMMA CoroutineMoveKeeps ==
  ASSUME Bounds, StreamInv, NEW t \in Coroutines, CoroutineMoves(t)
  PROVE  StreamInv'
  <1>1. /\ free \in 0..Slots /\ SlotsAdd /\ ClockTypes /\ StreamTypes
        /\ \A s \in Streams : StreamIsTrue(s)
        /\ \A s \in Coroutines : CoroutineIsTrue(s)
    BY TypeParts DEF StreamInv
  <1>2. /\ ApiTypes' /\ CoroutineIsTrue(t)' /\ UNCHANGED <<clocks, streamVars>>
        /\ SlotStep(HoldsApi(t), HoldsApi(t)')
        /\ \A s \in Coroutines : s # t => SameApi(s)
    BY DEF CoroutineMoves
  <1>3. /\ ClockTypes' /\ StreamTypes'
        /\ \A s \in Streams : SameStream(s) /\ expired'[s] = expired[s]
    BY <1>1, <1>2 DEF clocks, streamVars, callerVars, signals, workerVars,
                      ClockTypes, StreamTypes, SameStream
  <1>4. \A s \in Streams : StreamIsTrue(s)' /\ (HoldsStream(s)' <=> HoldsStream(s))
    BY <1>1, <1>3, SameStreamKeeps
  <1>5. \A s \in Coroutines : s # t => CoroutineIsTrue(s)' /\ (HoldsApi(s)' <=> HoldsApi(s))
    <2>1. ASSUME NEW s \in Coroutines, s # t PROVE SameApi(s) /\ CoroutineIsTrue(s)
      BY <1>1, <1>2, <2>1
    <2>2. ASSUME NEW s \in Coroutines, s # t
          PROVE  CoroutineIsTrue(s)' /\ (HoldsApi(s)' <=> HoldsApi(s))
      BY <2>1, <2>2, SameApiKeeps
    <2> QED BY <2>2
  <1>6. /\ \A s \in Streams : Holds(s) <=> HoldsStream(s)
        /\ \A s \in Coroutines : Holds(s) <=> HoldsApi(s)
        /\ \A s \in Streams : Holds(s)' <=> HoldsStream(s)'
        /\ \A s \in Coroutines : Holds(s)' <=> HoldsApi(s)'
    BY HoldsParts DEF Bounds, Holds, HoldsStream, HoldsApi
  <1>7. /\ t \in Tasks /\ SlotStep(Holds(t), Holds(t)')
        /\ \A s \in Tasks : s # t => (Holds(s)' <=> Holds(s))
    BY <1>2, <1>4, <1>5, <1>6 DEF Tasks, SlotStep
  <1>8. SlotsAdd' /\ free' \in 0..Slots
    BY <1>1, <1>7, SlotsStayCovered
  <1>9. TypeOK'
    BY <1>2, <1>3, <1>8 DEF TypeOK, ClockTypes, StreamTypes, ApiTypes
  <1> QED BY <1>2, <1>4, <1>5, <1>8, <1>9 DEF StreamInv

\* The end of a budget weakens what the invariant says of a stream; a disconnection changes
\* nothing it speaks of.
LEMMA ClocksKeep ==
  ASSUME StreamInv, NEW t \in Tasks, Expire(t) \/ Disconnect(t)
  PROVE  StreamInv'
  <1>1. UNCHANGED <<free, streamVars, apiVars>> /\ \A s \in Tasks : expired[s] => expired'[s]
    BY DEF Expire, Disconnect, StreamInv, TypeOK
  <1>2. TypeOK'
    <2>1. expired \in [Tasks -> BOOLEAN] /\ cancelled \in [Tasks -> BOOLEAN]
      BY DEF StreamInv, TypeOK
    <2>2. ClockTypes'
      <3>1. CASE Expire(t)
        <4>1. expired' = [expired EXCEPT ![t] = TRUE] /\ cancelled' = cancelled
          BY <3>1 DEF Expire
        <4> QED BY <2>1, <4>1 DEF ClockTypes
      <3>2. CASE Disconnect(t)
        <4>1. cancelled' = [cancelled EXCEPT ![t] = TRUE] /\ expired' = expired
          BY <3>2 DEF Disconnect
        <4> QED BY <2>1, <4>1 DEF ClockTypes
      <3> QED BY <3>1, <3>2
    <2>3. StreamTypes' /\ ApiTypes' /\ free' \in 0..Slots
      BY <1>1, TypeParts DEF StreamInv, StreamTypes, ApiTypes,
                             streamVars, callerVars, signals, workerVars, apiVars
    <2> QED BY <2>2, <2>3 DEF TypeOK, ClockTypes, StreamTypes, ApiTypes
  <1>3. Holders' = Holders
    BY <1>1 DEF Holders, Holds, streamVars, callerVars, workerVars, apiVars
  <1>4. SlotsAdd'
    BY <1>1, <1>3 DEF StreamInv, SlotsAdd
  <1>5. ASSUME NEW s \in Streams PROVE StreamIsTrue(s)'
    <2>1. StreamIsTrue(s) /\ s \in Tasks
      BY DEF StreamInv, Tasks
    <2> QED BY <1>1, <2>1 DEF StreamIsTrue, Handshake, EventTravels, Quiet,
                              streamVars, callerVars, signals, workerVars
  <1>6. \A s \in Coroutines : CoroutineIsTrue(s)'
    BY <1>1 DEF StreamInv, CoroutineIsTrue, apiVars
  <1> QED BY <1>2, <1>4, <1>5, <1>6 DEF StreamInv

LEMMA StreamInit == Init => StreamInv
  <1> SUFFICES ASSUME Init PROVE StreamInv
    OBVIOUS
  <1>1. TypeOK
    BY BoundsHold DEF Bounds, Init, TypeOK
  <1>2. Holders = {}
    BY BoundsHold DEF Bounds, Init, Holders, Holds, Tasks
  <1>3. SlotsAdd
    BY <1>2, FS_EmptySet, BoundsHold DEF SlotsAdd, Init, Bounds
  <1>4. \A t \in Streams : StreamIsTrue(t)
    BY DEF Init, StreamIsTrue, Handshake, EventTravels, Quiet
  <1>5. \A t \in Coroutines : CoroutineIsTrue(t)
    BY DEF Init, CoroutineIsTrue
  <1> QED BY <1>1, <1>3, <1>4, <1>5 DEF StreamInv

LEMMA StreamNext == StreamInv /\ [Next]_vars => StreamInv'
  <1> SUFFICES ASSUME StreamInv, [Next]_vars PROVE StreamInv'
    OBVIOUS
  <1>1. /\ Bounds /\ ClockTypes /\ StreamTypes /\ ApiTypes
        /\ \A s \in Streams : StreamIsTrue(s)
        /\ \A s \in Coroutines : CoroutineIsTrue(s)
    BY BoundsHold, TypeParts DEF StreamInv
  <1>2. ASSUME NEW t \in Streams, CallerBegins(t) \/ CallerRuns(t) \/ CallerResumes(t)
        PROVE  StreamMoves(t)
    BY <1>1, <1>2, AdmitMoves, RefuseMoves, StartWorkerMoves, FailToStartMoves, PollMoves,
       PollAgainMoves, TakeMoves, YieldEventMoves, YieldDoneMoves, FailCallerMoves,
       StopWorkerMoves, WakeWorkerMoves, ResumeMoves, CloseCallerMoves
       DEF CallerBegins, CallerRuns, CallerResumes
  <1>3. ASSUME NEW t \in Streams, WorkerRuns(t) PROVE StreamMoves(t)
    BY <1>1, <1>3, ReadEventMoves, ReadDoneMoves, ReadEndMoves, ReadErrorMoves, DropLetterMoves,
       OfferMoves, PutLetterMoves, RetryPutMoves, NapMoves, EndNapMoves, ReadOnMoves,
       CloseSourceMoves, ReleaseSlotMoves DEF WorkerRuns
  <1>4. ASSUME NEW t \in Coroutines, CoroutineBegins(t) \/ CoroutineRuns(t) \/ PreparationRuns(t)
        PROVE  CoroutineMoves(t)
    <2>1. ApiTypes /\ CoroutineIsTrue(t)
      BY <1>1
    <2>2. CASE CoroutineBegins(t)
      BY <2>1, <2>2, AdmitCoroutineMoves, RefuseCoroutineMoves DEF CoroutineBegins
    <2>3. CASE CoroutineRuns(t)
      BY <2>1, <2>3, AnnounceMoves, StartPreparationMoves, FailToPrepareMoves, SendMoves,
         LeaveCoroutineMoves, ConcludeMoves, ReleaseFromCoroutineMoves DEF CoroutineRuns
    <2>4. CASE PreparationRuns(t)
      BY <2>1, <2>4, EndPreparationMoves, AnnouncePreparedMoves, ReleaseFromPreparationMoves
         DEF PreparationRuns
    <2> QED BY <1>4, <2>2, <2>3, <2>4
  <1>5. CASE UNCHANGED vars
    BY <1>5 DEF vars, clocks, streamVars, callerVars, signals, workerVars, apiVars, StreamInv,
                TypeOK, SlotsAdd, Holders, Holds, StreamIsTrue, Handshake, EventTravels, Quiet,
                CoroutineIsTrue
  <1>6. ASSUME NEW t \in Streams,
               CallerBegins(t) \/ CallerRuns(t) \/ CallerResumes(t) \/ WorkerRuns(t)
        PROVE  StreamInv'
    BY <1>1, <1>2, <1>3, <1>6, StreamMoveKeeps
  <1>7. ASSUME NEW t \in Coroutines, CoroutineBegins(t) \/ CoroutineRuns(t) \/ PreparationRuns(t)
        PROVE  StreamInv'
    BY <1>1, <1>4, <1>7, CoroutineMoveKeeps
  <1> QED BY <1>5, <1>6, <1>7, ClocksKeep DEF Next

\* The inductive invariant holds in every reachable state.
THEOREM StreamInvariant == Spec => []StreamInv
  BY StreamInit, StreamNext, PTL DEF Spec

\* Every variable keeps its type; the semaphore never goes above its bound, which
\* BoundedSemaphore.release would refuse.
THEOREM TypeCorrect == Spec => []TypeOK
  <1>1. StreamInv => TypeOK
    BY DEF StreamInv
  <1> QED BY <1>1, StreamInvariant, PTL

LEMMA OccupiedIsHeld == StreamInv => SlotCoversWork
  <1> SUFFICES ASSUME StreamInv PROVE SlotCoversWork
    OBVIOUS
  <1> DEFINE Busy == {t \in Tasks : Occupied(t)}
  <1>1. \A t \in Tasks : Occupied(t) => Holds(t)
    BY BoundsHold DEF Bounds, StreamInv, Tasks, Occupied, Holds, CoroutineIsTrue
  <1>2. Busy \subseteq Holders
    BY <1>1 DEF Holders
  <1>3. IsFiniteSet(Holders) /\ free + Cardinality(Holders) = Slots /\ free \in 0..Slots
    BY DEF StreamInv, SlotsAdd, TypeOK
  <1>4. Cardinality(Busy) <= Cardinality(Holders) /\ Cardinality(Busy) \in Nat
        /\ Cardinality(Holders) \in Nat
    BY <1>2, <1>3, FS_Subset, FS_CardinalityType
  <1> QED BY <1>3, <1>4, BoundsHold DEF SlotCoversWork, Bounds

\* A slot is free only while no thread and no cleanup uses it (chat.py:125-127), for any
\* number of tasks and slots.
THEOREM SlotsCoverTheirWork == Spec => []SlotCoversWork
  BY OccupiedIsHeld, StreamInvariant, PTL

\* A caller is told done only after the model's stream has ended with an answer and every
\* event was handed over (chat.py:165).
THEOREM SuccessIsComplete == Spec => []DoneIsComplete
  <1>1. StreamInv => DoneIsComplete
    BY DEF StreamInv, StreamIsTrue, DoneIsComplete, Closers
  <1> QED BY <1>1, StreamInvariant, PTL

\* The worker reads on, and the model's tools run, only after the caller asked for the next
\* event (chat.py:170-171).
THEOREM WorkerKeepsStep == Spec => []NoRunAhead
  <1>1. StreamInv => NoRunAhead
    BY DEF StreamInv, StreamIsTrue, Handshake, Quiet, NoRunAhead
  <1> QED BY <1>1, StreamInvariant, PTL

--------------------------------------------------------------------------------
(***************************************************************************)
(* The daily review.  Most actions move a thread and no more (Quietly); the *)
(* others keep the builds, the rounds, the work, the stores or the marks, so*)
(* each is measured against a lemma per part of RefreshInv.                 *)
(***************************************************************************)
Calls == {"none", "generate", "explicit"}
Records == [pc : Positions, op : Calls, gen : Generations, round : 0..MaxRounds,
            ok : BOOLEAN, grade : Grades \cup {"none"}]
Attempts == [gen : Generations, state : {"none", "running", "succeeded", "failed"}]

\* Coherent of a record q, a last generation g and the results b of the builds.
Coheres(t, q, g, b) ==
  /\ q.pc = "idle" <=> q.op = "none"
  /\ q.op \in {"none", "explicit"} => (q.ok => q.pc \in {"publish", "leave"})
  /\ q.op = "explicit" => t \in Requests /\ q.round \in 1..MaxRounds
  /\ q.pc \in {"publish", "leave", "await", "late"} => q.op = "explicit"
  /\ q.pc \in {"begin", "judge", "fail", "keep", "clear", "end"} => t \in Workers
  /\ q.gen <= g
  /\ q.pc \in {"building", "waiting", "built", "commit"} => q.gen # 0
  /\ q.pc = "building" => b[q.gen] = "running"
  /\ q.pc = "built" => b[q.gen] # "running"
  /\ q.pc = "commit" => q.grade \in Grades

\* Leads of a record q.
Leading(q, r) == q.op = "explicit" /\ q.round = r /\ q.pc \notin {"await", "late", "leave"}

Known == ReviewAssumption /\ RefreshInv

LEMMA CoherentIsCoheres == \A t : Coherent(t) <=> Coheres(t, thread[t], generation, builds)
  BY DEF Coherent, Coheres

LEMMA LeadsIsLeading == \A t, r : Leads(t, r) <=> Leading(thread[t], r)
  BY DEF Leads, Leading

\* One thread moves, to a record that fits what it does.
Moves(t, q) ==
  /\ t \in Threads /\ q \in Records
  /\ thread' = [thread EXCEPT ![t] = q]

LEMMA Moved ==
  ASSUME RefreshTypeOK, NEW t, NEW q, Moves(t, q)
  PROVE  /\ thread' \in [Threads -> Records]
         /\ thread'[t] = q
         /\ \A u \in Threads : u # t => thread'[u] = thread[u]
         /\ \A u \in Threads : thread[u] \in Records
  <1>1. thread \in [Threads -> Records]
    BY DEF RefreshTypeOK, Records, Calls
  <1> QED BY <1>1 DEF Moves

\* The calls that may still lead a build.
Coming == {t \in Threads : thread[t].pc \in {"begin", "join"}}

\* A thread that is not coming does not make the calls too many.
LEMMA ComingShrinks ==
  ASSUME Known, NEW t, NEW q, Moves(t, q),
         q.pc \in {"begin", "join"} => thread[t].pc \in {"begin", "join"}
  PROVE  /\ IsFiniteSet(Coming')
         /\ Cardinality(Coming') <= Cardinality(Coming)
         /\ Cardinality(Coming) \in Nat /\ Cardinality(Coming') \in Nat
  <1>1. IsFiniteSet(Coming)
    BY DEF Known, RefreshInv, BuildsInOrder, Coming
  <1>2. Coming' \subseteq Coming
    BY Moved DEF Known, RefreshInv, Moves, Coming
  <1> QED BY <1>1, <1>2, FS_Subset, FS_CardinalityType

\* A thread that stops coming makes room for the build it starts.
LEMMA ComingLeaves ==
  ASSUME Known, NEW t, NEW q, Moves(t, q),
         thread[t].pc \in {"begin", "join"}, q.pc \notin {"begin", "join"}
  PROVE  /\ IsFiniteSet(Coming')
         /\ Cardinality(Coming') = Cardinality(Coming) - 1
         /\ Cardinality(Coming) \in Nat /\ Cardinality(Coming') \in Nat
  <1>1. IsFiniteSet(Coming)
    BY DEF Known, RefreshInv, BuildsInOrder, Coming
  <1>2. Coming' = Coming \ {t} /\ t \in Coming
    BY Moved DEF Known, RefreshInv, Moves, Coming
  <1>3. Cardinality(Coming') = Cardinality(Coming) - 1
    BY <1>1, <1>2, FS_RemoveElement
  <1> QED BY <1>1, <1>2, <1>3, FS_Subset, FS_CardinalityType

\* A call that begins while there is room leaves no call without a build.
LEMMA ComingJoins ==
  ASSUME Known, NEW t, NEW q, Moves(t, q), Room,
         thread[t].pc \notin {"begin", "join"}
  PROVE  IsFiniteSet(Coming') /\ generation + Cardinality(Coming') <= MaxBuilds
  <1>1. IsFiniteSet(Coming)
    BY DEF Known, RefreshInv, BuildsInOrder, Coming
  <1>2. Coming' \subseteq Coming \cup {t}
    BY Moved DEF Known, RefreshInv, Moves, Coming
  <1>3. t \notin Coming
    BY DEF Coming
  <1>4. /\ IsFiniteSet(Coming \cup {t})
        /\ Cardinality(Coming \cup {t}) = Cardinality(Coming) + 1
    BY <1>1, <1>3, FS_AddElement
  <1>5. /\ IsFiniteSet(Coming')
        /\ Cardinality(Coming') <= Cardinality(Coming) + 1
        /\ Cardinality(Coming) \in Nat /\ Cardinality(Coming') \in Nat
    BY <1>1, <1>2, <1>4, FS_Subset, FS_CardinalityType
  <1>6. generation \in Nat /\ MaxBuilds \in Nat
    BY DEF Known, RefreshInv, RefreshTypeOK, Generations, ReviewAssumption
  <1>7. generation + Cardinality(Coming) < MaxBuilds
    BY DEF Room, Coming
  <1> QED BY <1>5, <1>6, <1>7

\* Every variable but the threads is of its type.
SharedTyped ==
  /\ memory \in {NoReview} \cup Reviews /\ disk \in {NoReview} \cup Reviews
  /\ fresh \in BOOLEAN
  /\ flight \in Generations /\ generation \in Generations /\ committed \in Generations
  /\ builds \in [1..MaxBuilds -> {"none", "running", "error"} \cup Grades]
  /\ current \in 0..MaxRounds
  /\ rounds \in [1..MaxRounds -> {"none", "running", "ok", "error"}]
  /\ failed \in BOOLEAN /\ failedRound \in 0..MaxRounds
  /\ refreshing \in BOOLEAN
  /\ attempt \in Attempts

LEMMA TypeSplit == RefreshTypeOK <=> SharedTyped /\ thread \in [Threads -> Records]
  BY DEF RefreshTypeOK, SharedTyped, Records, Calls, Attempts

\* What is true of the other threads stays true of them, whatever one of them does.
LEMMA CoherentKeeps ==
  ASSUME Known, NEW t, NEW q, Moves(t, q),
         generation' \in Nat, generation <= generation',
         Coheres(t, q, generation', builds'),
         \A u \in Threads : u # t /\ At(u, "building") => builds'[thread[u].gen] = "running",
         \A u \in Threads : u # t /\ At(u, "built") => builds'[thread[u].gen] # "running"
  PROVE  \A u \in Threads : Coheres(u, thread'[u], generation', builds')
  <1> SUFFICES ASSUME NEW u \in Threads PROVE Coheres(u, thread'[u], generation', builds')
    OBVIOUS
  <1>1. CASE u = t
    BY <1>1, Moved DEF Known, RefreshInv
  <1>2. CASE u # t
    <2>1. thread'[u] = thread[u] /\ thread[u] \in Records
      BY <1>2, Moved DEF Known, RefreshInv
    <2>2. Coheres(u, thread[u], generation, builds)
      BY CoherentIsCoheres DEF Known, RefreshInv
    <2>3. generation \in Nat /\ thread[u].gen \in Nat
      BY <2>1 DEF Known, RefreshInv, RefreshTypeOK, Generations, Records, ReviewAssumption
    <2> QED BY <1>2, <2>1, <2>2, <2>3 DEF Coheres, At
  <1> QED BY <1>1, <1>2

\* The three protocols apart: who builds, who leads a round, who works in the background.
OneBuilder ==
  /\ \A t, u \in Threads : At(t, "building") /\ At(u, "building") => t = u
  /\ \A t \in Threads : At(t, "building") => flight = thread[t].gen
  /\ InProgress => \E t \in Threads : At(t, "building") /\ thread[t].gen = flight

OneLeader ==
  /\ \A t \in Threads, r \in 1..MaxRounds : Leads(t, r) => rounds[r] = "running"
  /\ \A t, u \in Threads, r \in 1..MaxRounds : Leads(t, r) /\ Leads(u, r) => t = u
  /\ \A t \in Threads : At(t, "leave") => rounds[thread[t].round] \in {"ok", "error"}
  /\ Running(current) => \E t \in Threads : Leads(t, current)

OneWorker ==
  /\ \A w, x \in Workers : ~At(w, "idle") /\ ~At(x, "idle") => w = x
  /\ refreshing <=> \E w \in Workers : ~At(w, "idle")

LEMMA Protocols == Alone /\ NothingIsOrphaned <=> OneBuilder /\ OneLeader /\ OneWorker
  BY DEF Alone, NothingIsOrphaned, OneBuilder, OneLeader, OneWorker

\* A move of a thread that begins and ends no build; it may clear a flight that has ended.
LEMMA BuildsUntouched ==
  ASSUME Known, NEW t, NEW q, Moves(t, q), SharedTyped',
         UNCHANGED <<generation, builds>>,
         flight' = flight \/ (flight' = 0 /\ ~InProgress),
         Coheres(t, q, generation, builds),
         IsFiniteSet(Coming'), generation + Cardinality(Coming') <= MaxBuilds,
         ~At(t, "building"), q.pc # "building"
  PROVE  RefreshTypeOK' /\ (\A u \in Threads : Coherent(u)') /\ BuildsInOrder' /\ OneBuilder'
  <1>1. RefreshTypeOK'
    BY Moved, TypeSplit DEF Known, RefreshInv, RefreshTypeOK, SharedTyped, Attempts, Records, Calls
  <1>2. \A u \in Threads : Coheres(u, thread'[u], generation', builds')
    <2>1. Coheres(t, q, generation', builds') /\ generation' \in Nat /\ generation <= generation'
      BY DEF Known, RefreshInv, RefreshTypeOK, Generations
    <2>2. \A u \in Threads : u # t /\ At(u, "building") => builds'[thread[u].gen] = "running"
      BY DEF Known, RefreshInv, Coherent, At
    <2>3. \A u \in Threads : u # t /\ At(u, "built") => builds'[thread[u].gen] # "running"
      BY DEF Known, RefreshInv, Coherent, At
    <2> QED BY <2>1, <2>2, <2>3, CoherentKeeps
  <1>3. \A u \in Threads : Coherent(u)'
    BY <1>2 DEF Coherent, Coheres
  <1>4. BuildsInOrder'
    BY DEF Known, RefreshInv, BuildsInOrder, Coming
  <1>5. \A u \in Threads : /\ thread[u].pc = "building" <=> thread'[u].pc = "building"
                           /\ thread[u].pc = "building" => thread'[u] = thread[u]
    BY Moved DEF Known, RefreshInv, Moves, At
  <1>6. OneBuilder
    BY Protocols DEF Known, RefreshInv
  <1>7. /\ \A u, v \in Threads : thread[u].pc = "building" /\ thread[v].pc = "building" => u = v
        /\ \A u \in Threads : thread[u].pc = "building" => flight = thread[u].gen
        /\ InProgress => \E u \in Threads : thread[u].pc = "building" /\ thread[u].gen = flight
    BY <1>6 DEF OneBuilder, At
  <1>8. \A u \in Threads : thread[u].pc = "building" => InProgress /\ flight' = flight
    <2>1. \A u \in Threads : thread[u].pc = "building" => thread[u].gen # 0 /\ builds[thread[u].gen] = "running"
      BY DEF Known, RefreshInv, Coherent
    <2> QED BY <1>7, <2>1 DEF InProgress
  <1>9. /\ \A u, v \in Threads : thread'[u].pc = "building" /\ thread'[v].pc = "building" => u = v
        /\ \A u \in Threads : thread'[u].pc = "building" => flight' = thread'[u].gen
    BY <1>5, <1>7, <1>8
  <1>10. InProgress' => \E u \in Threads : thread'[u].pc = "building" /\ thread'[u].gen = flight'
    BY <1>5, <1>7, <1>8 DEF InProgress
  <1>11. OneBuilder'
    BY <1>9, <1>10 DEF OneBuilder, At, Threads
  <1> QED BY <1>1, <1>3, <1>4, <1>11

\* A move that leaves the rounds, and those who lead them, as they are.
LEMMA RoundsUntouched ==
  ASSUME Known, NEW t, NEW q, Moves(t, q),
         UNCHANGED <<rounds, current>>,
         \A r \in 1..MaxRounds : Leading(q, r) <=> Leading(thread[t], r),
         q.pc # "leave"
  PROVE  RoundsInOrder' /\ OneLeader'
  <1>1. RoundsInOrder'
    BY DEF Known, RefreshInv, RoundsInOrder
  <1>2. \A u \in Threads, r \in 1..MaxRounds : Leads(u, r) <=> Leads(u, r)'
    BY Moved DEF Known, RefreshInv, Moves, Leads, Leading
  <1>3. OneLeader /\ current \in 0..MaxRounds
    BY Protocols DEF Known, RefreshInv, RefreshTypeOK
  <1>4. \A u \in Threads : At(u, "leave")' => At(u, "leave") /\ thread'[u] = thread[u]
    BY Moved DEF Known, RefreshInv, Moves, At
  <1>5. (Running(current) => \E u \in Threads : Leads(u, current))'
    <2>1. HAVE Running(current)'
    <2>2. Running(current) /\ current \in 1..MaxRounds
      BY <1>3, <2>1 DEF Running, Known, ReviewAssumption
    <2>3. PICK u \in Threads : Leads(u, current)
      BY <1>3, <2>2 DEF OneLeader
    <2>4. Leads(u, current)'
      BY <1>2, <2>2, <2>3 DEF Leads
    <2> QED BY <2>4
  <1>6. OneLeader'
    BY <1>2, <1>3, <1>4, <1>5 DEF OneLeader
  <1> QED BY <1>1, <1>6

\* A move that leaves the flag, and the workers at work, as they are.
LEMMA WorkUntouched ==
  ASSUME Known, NEW t, NEW q, Moves(t, q), UNCHANGED refreshing,
         t \in Workers => (q.pc = "idle" <=> At(t, "idle"))
  PROVE  OneWorker'
  <1>1. \A w \in Workers : At(w, "idle") <=> At(w, "idle")'
    BY Moved DEF Known, RefreshInv, Moves, At, Threads
  <1> QED BY <1>1, Protocols DEF Known, RefreshInv, OneWorker

\* A move that stores nothing.
LEMMA StoresUntouched ==
  ASSUME Known, NEW t, NEW q, Moves(t, q),
         UNCHANGED <<memory, disk, committed>>,
         generation' \in Nat, generation <= generation', flight' <= generation',
         ~(q.pc = "publish" /\ q.ok)
  PROVE  Fence' /\ SuccessIsStored'
  <1>1. Fence'
    BY DEF Known, RefreshInv, Fence, RefreshTypeOK, Generations
  <1>2. SuccessIsStored'
    BY Moved DEF Known, RefreshInv, Moves, SuccessIsStored, At
  <1> QED BY <1>1, <1>2

LEMMA MarksUntouched ==
  ASSUME Known, UNCHANGED <<failed, failedRound, rounds>>
  PROVE  MarkIsCurrent'
  BY DEF Known, RefreshInv, MarkIsCurrent

LEMMA Together ==
  ASSUME RefreshTypeOK', \A u \in Threads : Coherent(u)', Fence', BuildsInOrder', RoundsInOrder',
         OneBuilder', OneLeader', OneWorker', SuccessIsStored', MarkIsCurrent'
  PROVE  RefreshInv'
  <1>1. (Alone /\ NothingIsOrphaned)'
    BY DEF OneBuilder, OneLeader, OneWorker, Alone, NothingIsOrphaned
  <1> QED BY <1>1 DEF RefreshInv

\* A move that touches no shared variable but the attempt, begins and ends no build, and
\* changes neither who leads a round nor whether a worker works.
LEMMA QuietMove ==
  ASSUME Known, NEW t, NEW q, Moves(t, q),
         UNCHANGED <<stores, flightVars, roundVars, marks, refreshing>>,
         attempt' \in Attempts,
         Coheres(t, q, generation, builds),
         IsFiniteSet(Coming'), generation + Cardinality(Coming') <= MaxBuilds,
         ~At(t, "building"), q.pc # "building", q.pc # "leave",
         \A r \in 1..MaxRounds : Leading(q, r) <=> Leading(thread[t], r),
         t \in Workers => (q.pc = "idle" <=> At(t, "idle")),
         ~(q.pc = "publish" /\ q.ok)
  PROVE  RefreshInv'
  <1>1. /\ UNCHANGED <<memory, fresh, disk, committed, flight, generation, builds, current,
                      rounds, failed, failedRound, refreshing>>
        /\ generation \in Nat /\ flight <= generation
    BY DEF stores, flightVars, roundVars, marks, Known, RefreshInv, RefreshTypeOK, Generations,
       Fence
  <1>2. SharedTyped'
    BY <1>1, TypeSplit DEF Known, RefreshInv, SharedTyped
  <1>3. RefreshTypeOK' /\ (\A u \in Threads : Coherent(u)') /\ BuildsInOrder' /\ OneBuilder'
    BY <1>1, <1>2, BuildsUntouched
  <1>4. RoundsInOrder' /\ OneLeader'
    BY <1>1, RoundsUntouched
  <1>5. OneWorker'
    BY <1>1, WorkUntouched
  <1>6. Fence' /\ SuccessIsStored'
    BY <1>1, StoresUntouched
  <1>7. MarkIsCurrent'
    BY <1>1, MarksUntouched
  <1> QED BY <1>3, <1>4, <1>5, <1>6, <1>7, Together

\* The types of what a step reads, and what is true of the thread that takes it.
LEMMA Reading ==
  ASSUME Known, NEW t \in Threads
  PROVE  /\ thread[t] \in Records /\ Coheres(t, thread[t], generation, builds)
         /\ thread \in [Threads -> Records]
         /\ SharedTyped
         /\ MaxBuilds \in Nat /\ MaxRounds \in Nat
         /\ generation \in Nat /\ generation <= MaxBuilds
         /\ \A g \in 1..MaxBuilds : builds[g] = "none" <=> g > generation
         /\ t \in Requests <=> t \notin Workers
         /\ memory.grade \in Grades \cup {"none"}
         /\ current # 0 => current \in 1..MaxRounds
         /\ thread[t].pc \in {"building", "waiting", "built", "commit"} => thread[t].gen \in 1..MaxBuilds
  <1>1. thread \in [Threads -> Records] /\ SharedTyped
    BY TypeSplit DEF Known, RefreshInv
  <1>2. /\ Coheres(t, thread[t], generation, builds)
        /\ \A g \in 1..MaxBuilds : builds[g] = "none" <=> g > generation
    BY CoherentIsCoheres DEF Known, RefreshInv, BuildsInOrder
  <1>3. memory.grade \in Grades \cup {"none"}
    BY <1>1 DEF SharedTyped, Reviews, NoReview, Grades
  <1>4. MaxBuilds \in Nat /\ MaxRounds \in Nat
    BY DEF Known, ReviewAssumption
  <1>5. current # 0 => current \in 1..MaxRounds
    BY <1>1, <1>4 DEF SharedTyped
  <1>6. generation \in Nat /\ generation <= MaxBuilds
    BY <1>1, <1>4 DEF SharedTyped, Generations
  <1>7. thread[t] \in Records
    BY <1>1
  <1>8. thread[t].gen \in 0..MaxBuilds
    BY <1>7 DEF Records, Generations
  <1>9. thread[t].pc \in {"building", "waiting", "built", "commit"} => thread[t].gen \in 1..MaxBuilds
    BY <1>2, <1>4, <1>8 DEF Coheres
  <1>10. t \in Requests <=> t \notin Workers
    BY DEF Known, ReviewAssumption, Threads
  <1> QED BY <1>1, <1>2, <1>3, <1>4, <1>5, <1>6, <1>7, <1>9, <1>10

\* What a step reads of the thread that takes it.
LEMMA Reads ==
  ASSUME Known, NEW t \in Threads
  PROVE  /\ thread[t] \in Records /\ Coheres(t, thread[t], generation, builds)
         /\ attempt \in Attempts
         /\ t \in Requests <=> t \notin Workers
  BY Reading DEF SharedTyped

LEMMA ReadsRecord ==
  ASSUME Known, NEW t \in Threads
  PROVE  thread[t] \in Records
  BY Reads

LEMMA IdleIsARecord ==
  ASSUME ReviewAssumption
  PROVE  /\ IdleThread \in Records /\ IdleThread.pc = "idle" /\ IdleThread.op = "none"
         /\ IdleThread.gen = 0 /\ IdleThread.ok = FALSE
  BY DEF ReviewAssumption, IdleThread, Records, Calls, Positions, Generations


\* What a thread's next record q is when it begins and ends no build, changes neither who leads
\* a round nor whether a worker works.
Quietly(t, q) ==
  /\ Moves(t, q)
  /\ Coheres(t, q, generation, builds)
  /\ q.pc \notin {"building", "leave"}
  /\ q.pc \in {"begin", "join"} => thread[t].pc \in {"begin", "join"}
  /\ \A r \in 1..MaxRounds : Leading(q, r) <=> Leading(thread[t], r)
  /\ t \in Workers => (q.pc = "idle" <=> At(t, "idle"))

\* A thread at work on a call goes on with it, with the build and the round it has.
LEMMA GoesOn ==
  ASSUME Known, NEW t \in Threads, NEW q \in Records,
         thread' = [thread EXCEPT ![t] = q],
         q.op = thread[t].op, q.round = thread[t].round, q.gen = thread[t].gen,
         thread[t].pc \notin {"idle", "leave", "await", "late"},
         q.pc \in {"commit", "publish", "judge", "fail", "keep", "clear"},
         q.pc = "commit" => thread[t].pc \in {"waiting", "built"} /\ q.grade \in Grades,
         q.pc = "publish" => q.op = "explicit",
         q.ok /\ q.op = "explicit" => q.pc = "publish",
         q.pc \in {"judge", "fail", "keep", "clear"} => t \in Workers
  PROVE  Quietly(t, q)
  <1>1. thread[t] \in Records /\ Coheres(t, thread[t], generation, builds)
    BY Reads
  <1>2. Coheres(t, q, generation, builds)
    BY <1>1 DEF Coheres
  <1>3. \A r \in 1..MaxRounds : Leading(q, r) <=> Leading(thread[t], r)
    BY DEF Leading
  <1> QED BY <1>2, <1>3 DEF Quietly, Moves, At

\* A request that leads no round ends its call.
LEMMA EndsCall ==
  ASSUME Known, NEW t \in Threads,
         thread' = [thread EXCEPT ![t] = IdleThread],
         t \notin Workers,
         thread[t].op = "generate" \/ thread[t].pc \in {"await", "late"}
  PROVE  Quietly(t, IdleThread)
  <1>1. /\ IdleThread \in Records /\ IdleThread.pc = "idle" /\ IdleThread.op = "none"
        /\ IdleThread.gen = 0 /\ IdleThread.ok = FALSE
    BY IdleIsARecord DEF Known
  <1>2. generation \in Nat
    BY Reading
  <1>3. Coheres(t, IdleThread, generation, builds)
    BY <1>1, <1>2 DEF Coheres
  <1>4. \A r \in 1..MaxRounds : Leading(IdleThread, r) <=> Leading(thread[t], r)
    BY <1>1 DEF Leading
  <1> QED BY <1>1, <1>3, <1>4 DEF Quietly, Moves

LEMMA QuietKeeps ==
  ASSUME Known, NEW t \in Threads, NEW q, Quietly(t, q),
         UNCHANGED <<stores, flightVars, roundVars, marks, refreshing>>,
         attempt' \in Attempts,
         thread[t].pc # "building",
         ~(q.pc = "publish" /\ q.ok)
  PROVE  RefreshInv'
  <1>1. /\ Moves(t, q)
        /\ q.pc \in {"begin", "join"} => thread[t].pc \in {"begin", "join"}
        /\ Coheres(t, q, generation, builds)
        /\ q.pc # "building" /\ q.pc # "leave"
        /\ \A r \in 1..MaxRounds : Leading(q, r) <=> Leading(thread[t], r)
        /\ t \in Workers => (q.pc = "idle" <=> At(t, "idle"))
    BY DEF Quietly
  <1>2. /\ IsFiniteSet(Coming') /\ Cardinality(Coming') <= Cardinality(Coming)
        /\ Cardinality(Coming) \in Nat /\ Cardinality(Coming') \in Nat
    BY <1>1, ComingShrinks
  <1>3. generation + Cardinality(Coming) <= MaxBuilds
    BY DEF Known, RefreshInv, BuildsInOrder, Coming
  <1>4. generation + Cardinality(Coming') <= MaxBuilds
    BY <1>2, <1>3, Reading
  <1> QED BY <1>1, <1>2, <1>4, QuietMove DEF At

LEMMA GenerateKeeps ==
  ASSUME Known, NEW t \in Threads, Generate(t)
  PROVE  RefreshInv'
  <1>1. PICK q : q = [thread[t] EXCEPT !.pc = "join", !.op = "generate"]
    OBVIOUS
  <1>2. /\ thread[t].pc = "idle" /\ t \in Requests /\ Room
        /\ thread' = [thread EXCEPT ![t] = q]
        /\ UNCHANGED <<stores, flightVars, roundVars, marks, refreshing, attempt>>
    BY <1>1 DEF Generate, At
  <1>3. "join" \in Positions /\ "generate" \in Calls
    BY DEF Positions, Calls
  <1>4. /\ q \in Records /\ q.pc = "join" /\ q.op = "generate"
        /\ q.gen = thread[t].gen /\ q.ok = thread[t].ok
    BY <1>1, <1>3, ReadsRecord DEF Records
  <1>5. Moves(t, q)
    BY <1>2, <1>4 DEF Moves
  <1>6. Coheres(t, q, generation, builds) /\ t \notin Workers /\ attempt' \in Attempts
    BY <1>2, <1>4, Reads DEF Coheres
  <1>7. \A r \in 1..MaxRounds : Leading(q, r) <=> Leading(thread[t], r)
    BY <1>2, <1>4, Reads DEF Leading, Coheres
  <1>8. IsFiniteSet(Coming') /\ generation + Cardinality(Coming') <= MaxBuilds
    BY <1>2, <1>5, ComingJoins
  <1> QED BY <1>2, <1>4, <1>5, <1>6, <1>7, <1>8, QuietMove DEF At

LEMMA BeginWorkKeeps ==
  ASSUME Known, NEW t \in Threads, BeginWork(t)
  PROVE  RefreshInv'
  <1>1. /\ thread[t].pc = "begin" /\ t \in Workers /\ thread[t].op = "generate"
        /\ UNCHANGED <<stores, flightVars, roundVars, marks, refreshing, attempt>>
        /\ attempt' \in Attempts
    <2>1. thread[t].op \in {"none", "generate", "explicit"}
      BY Reads DEF Records, Calls
    <2>2. thread[t].pc = "begin"
          /\ UNCHANGED <<stores, flightVars, roundVars, marks, refreshing, attempt>>
      BY DEF BeginWork, At
    <2> QED BY <2>1, <2>2, Reads DEF Coheres
  <1>2. CASE fresh
    <2>1. PICK q : q = [thread[t] EXCEPT !.pc = "judge", !.ok = TRUE, !.grade = memory.grade]
      OBVIOUS
    <2>2. "judge" \in Positions /\ memory.grade \in Grades \cup {"none"}
      BY Reading DEF Positions
    <2>3. /\ q \in Records /\ q.pc = "judge"
          /\ q.op = thread[t].op /\ q.gen = thread[t].gen /\ q.round = thread[t].round
      BY <2>1, <2>2, ReadsRecord DEF Records
    <2>4. thread' = [thread EXCEPT ![t] = q]
      BY <1>2, <2>1 DEF BeginWork
    <2>5. Quietly(t, q)
      BY <1>1, <2>3, <2>4, GoesOn
    <2> QED BY <1>1, <2>3, <2>5, QuietKeeps
  <1>3. CASE ~fresh
    <2>1. PICK q : q = [thread[t] EXCEPT !.pc = "join"]
      OBVIOUS
    <2>2. "join" \in Positions
      BY DEF Positions
    <2>3. /\ q \in Records /\ q.pc = "join" /\ q.ok = thread[t].ok
          /\ q.op = thread[t].op /\ q.gen = thread[t].gen /\ q.round = thread[t].round
      BY <2>1, <2>2, ReadsRecord DEF Records
    <2>4. thread' = [thread EXCEPT ![t] = q]
      BY <1>3, <2>1 DEF BeginWork
    <2>5. Coheres(t, q, generation, builds)
      BY <1>1, <2>3, Reads DEF Coheres
    <2>6. \A r \in 1..MaxRounds : Leading(q, r) <=> Leading(thread[t], r)
      BY <1>1, <2>3 DEF Leading
    <2>7. Quietly(t, q)
      BY <1>1, <2>3, <2>4, <2>5, <2>6 DEF Quietly, Moves, At
    <2> QED BY <1>1, <2>3, <2>7, QuietKeeps
  <1> QED BY <1>2, <1>3

LEMMA JoinRoundKeeps ==
  ASSUME Known, NEW t \in Threads, JoinRound(t)
  PROVE  RefreshInv'
  <1>1. PICK q : q = [thread[t] EXCEPT !.pc = "await", !.op = "explicit", !.round = current]
    OBVIOUS
  <1>2. "await" \in Positions /\ "explicit" \in Calls
    BY DEF Positions, Calls
  <1>3. current \in 1..MaxRounds /\ current \in 0..MaxRounds
    BY Reading DEF JoinRound, Running, SharedTyped
  <1>4. /\ q \in Records /\ q.pc = "await" /\ q.op = "explicit" /\ q.round = current
        /\ q.gen = thread[t].gen /\ q.ok = thread[t].ok
    BY <1>1, <1>2, <1>3, ReadsRecord DEF Records
  <1>5. /\ thread[t].pc = "idle" /\ t \in Requests
        /\ thread' = [thread EXCEPT ![t] = q]
        /\ UNCHANGED <<stores, flightVars, roundVars, marks, refreshing, attempt>>
    BY <1>1 DEF JoinRound, At
  <1>6. Coheres(t, q, generation, builds)
    BY <1>3, <1>4, <1>5, Reads DEF Coheres
  <1>7. \A r \in 1..MaxRounds : Leading(q, r) <=> Leading(thread[t], r)
    BY <1>4, <1>5, Reads DEF Leading, Coheres
  <1>8. Quietly(t, q) /\ attempt' \in Attempts
    BY <1>4, <1>5, <1>6, <1>7, Reads DEF Quietly, Moves, At
  <1> QED BY <1>4, <1>5, <1>8, QuietKeeps

LEMMA ShareBuildKeeps ==
  ASSUME Known, NEW t \in Threads, ShareBuild(t)
  PROVE  RefreshInv'
  <1>1. PICK q : q = [thread[t] EXCEPT !.pc = "waiting", !.gen = flight]
    OBVIOUS
  <1>2. flight \in Generations /\ flight # 0 /\ flight <= generation
    BY DEF ShareBuild, InProgress, Known, RefreshInv, RefreshTypeOK, Fence
  <1>3. "waiting" \in Positions
    BY DEF Positions
  <1>4. /\ q \in Records /\ q.pc = "waiting" /\ q.gen = flight
        /\ q.op = thread[t].op /\ q.round = thread[t].round /\ q.ok = thread[t].ok
    BY <1>1, <1>2, <1>3, ReadsRecord DEF Records
  <1>5. /\ thread[t].pc = "join"
        /\ thread' = [thread EXCEPT ![t] = q]
        /\ UNCHANGED <<stores, flightVars, roundVars, marks, refreshing, attempt>>
    BY <1>1 DEF ShareBuild, At
  <1>6. Coheres(t, q, generation, builds)
    BY <1>2, <1>4, <1>5, Reads DEF Coheres
  <1>7. \A r \in 1..MaxRounds : Leading(q, r) <=> Leading(thread[t], r)
    BY <1>4, <1>5 DEF Leading
  <1>8. Quietly(t, q) /\ attempt' \in Attempts
    BY <1>4, <1>5, <1>6, <1>7, Reads DEF Quietly, Moves, At
  <1> QED BY <1>4, <1>5, <1>8, QuietKeeps

\* What a thread that has a build, or waits for one, goes on with when the build is not to be
\* had: to the end of its round, of its work or of its call.
LEMMA FailedGoesOn ==
  ASSUME Known, NEW t \in Threads,
         thread[t].pc \in {"waiting", "built"},
         thread' = [thread EXCEPT ![t] = Failed(t)]
  PROVE  Quietly(t, Failed(t)) /\ ~(Failed(t).pc = "publish" /\ Failed(t).ok)
  <1>1. /\ thread[t].op \in {"generate", "explicit"}
        /\ thread[t].op = "explicit" => ~thread[t].ok
        /\ t \in Requests <=> t \notin Workers
    BY Reads DEF Coheres, Records, Calls
  <1>2. "publish" \in Positions /\ "judge" \in Positions
    BY DEF Positions
  <1>3. CASE thread[t].op = "explicit"
    <2>1. PICK q : q = [thread[t] EXCEPT !.pc = "publish"]
      OBVIOUS
    <2>2. /\ q \in Records /\ q.pc = "publish" /\ q.ok = thread[t].ok
          /\ q.op = thread[t].op /\ q.gen = thread[t].gen /\ q.round = thread[t].round
      BY <1>2, <2>1, ReadsRecord DEF Records
    <2>3. Failed(t) = q
      BY <1>3, <2>1 DEF Failed
    <2>4. Quietly(t, q)
      BY <1>3, <2>2, <2>3, GoesOn
    <2> QED BY <1>1, <1>3, <2>2, <2>3, <2>4
  <1>4. CASE thread[t].op = "generate" /\ t \in Workers
    <2>1. PICK q : q = [thread[t] EXCEPT !.pc = "judge"]
      OBVIOUS
    <2>2. /\ q \in Records /\ q.pc = "judge" /\ q.ok = thread[t].ok
          /\ q.op = thread[t].op /\ q.gen = thread[t].gen /\ q.round = thread[t].round
      BY <1>2, <2>1, ReadsRecord DEF Records
    <2>3. Failed(t) = q
      BY <1>1, <1>4, <2>1 DEF Failed
    <2>4. Quietly(t, q)
      BY <1>4, <2>2, <2>3, GoesOn
    <2> QED BY <2>2, <2>3, <2>4
  <1>5. CASE thread[t].op = "generate" /\ t \notin Workers
    <2>1. Failed(t) = IdleThread
      BY <1>1, <1>5 DEF Failed
    <2>2. Quietly(t, IdleThread)
      BY <1>5, <2>1, EndsCall
    <2>3. IdleThread.pc = "idle"
      BY DEF IdleThread
    <2> QED BY <2>1, <2>2, <2>3
  <1> QED BY <1>1, <1>3, <1>4, <1>5

\* What a thread goes on with from a build that has ended.
LEMMA TakenGoesOn ==
  ASSUME Known, NEW t \in Threads,
         thread[t].pc \in {"waiting", "built"},
         builds[thread[t].gen] # "running",
         TakeResult(t)
  PROVE  \E q : Quietly(t, q) /\ ~(q.pc = "publish" /\ q.ok)
  <1>1. CASE builds[thread[t].gen] = "error"
    <2>1. thread' = [thread EXCEPT ![t] = Failed(t)]
      BY <1>1 DEF TakeResult
    <2> QED BY <2>1, FailedGoesOn
  <1>2. CASE builds[thread[t].gen] # "error"
    <2>1. PICK q : q = [thread[t] EXCEPT !.pc = "commit", !.grade = builds[thread[t].gen]]
      OBVIOUS
    <2>2. builds[thread[t].gen] \in Grades
      <3>1. /\ thread[t].gen \in 1..MaxBuilds
            /\ builds[thread[t].gen] \in {"none", "running", "error"} \cup Grades
        BY Reading DEF SharedTyped
      <3>2. builds[thread[t].gen] # "none"
        BY <3>1, Reading DEF Coheres
      <3> QED BY <1>2, <3>1, <3>2
    <2>3. "commit" \in Positions
      BY DEF Positions
    <2>4. /\ q \in Records /\ q.pc = "commit" /\ q.grade \in Grades /\ q.ok = thread[t].ok
          /\ q.op = thread[t].op /\ q.gen = thread[t].gen /\ q.round = thread[t].round
      BY <2>1, <2>2, <2>3, ReadsRecord DEF Records
    <2>5. thread' = [thread EXCEPT ![t] = q]
      BY <1>2, <2>1 DEF TakeResult
    <2>6. ~(q.ok /\ q.op = "explicit")
      BY <2>4, Reads DEF Coheres
    <2>7. Quietly(t, q)
      BY <2>4, <2>5, <2>6, GoesOn
    <2> QED BY <2>4, <2>7
  <1> QED BY <1>1, <1>2

LEMMA TimeOutOnBuildKeeps ==
  ASSUME Known, NEW t \in Threads, TimeOutOnBuild(t)
  PROVE  RefreshInv'
  <1>1. /\ thread[t].pc = "waiting"
        /\ thread' = [thread EXCEPT ![t] = Failed(t)]
        /\ UNCHANGED <<stores, flightVars, roundVars, marks, refreshing, attempt>>
    BY DEF TimeOutOnBuild, At
  <1>2. Quietly(t, Failed(t)) /\ ~(Failed(t).pc = "publish" /\ Failed(t).ok)
    BY <1>1, FailedGoesOn
  <1> QED BY <1>1, <1>2, Reads, QuietKeeps

LEMMA WakeFromBuildKeeps ==
  ASSUME Known, NEW t \in Threads, WakeFromBuild(t)
  PROVE  RefreshInv'
  <1>1. /\ thread[t].pc = "waiting" /\ builds[thread[t].gen] # "running" /\ TakeResult(t)
        /\ UNCHANGED <<stores, flightVars, roundVars, marks, refreshing, attempt>>
    BY DEF WakeFromBuild, At
  <1>2. PICK q : Quietly(t, q) /\ ~(q.pc = "publish" /\ q.ok)
    BY <1>1, TakenGoesOn
  <1> QED BY <1>1, <1>2, Reads, QuietKeeps

\* What a fresh reader's thread goes on with when it returns a package.
LEMMA ReturnedGoesOn ==
  ASSUME Known, NEW t \in Threads, NEW grade \in Grades \cup {"none"},
         thread[t].pc = "commit", thread[t].op = "generate",
         thread' = [thread EXCEPT ![t] = Returned(t, grade)]
  PROVE  Quietly(t, Returned(t, grade)) /\ Returned(t, grade).pc \in {"judge", "idle"}
  <1>1. CASE t \in Workers
    <2>1. PICK q : q = [thread[t] EXCEPT !.pc = "judge", !.ok = TRUE, !.grade = grade]
      OBVIOUS
    <2>2. "judge" \in Positions
      BY DEF Positions
    <2>3. /\ q \in Records /\ q.pc = "judge"
          /\ q.op = thread[t].op /\ q.gen = thread[t].gen /\ q.round = thread[t].round
      BY <2>1, <2>2, ReadsRecord DEF Records
    <2>4. Returned(t, grade) = q
      BY <1>1, <2>1 DEF Returned
    <2>5. Quietly(t, q)
      BY <1>1, <2>3, <2>4, GoesOn
    <2> QED BY <2>3, <2>4, <2>5
  <1>2. CASE t \notin Workers
    <2>1. Returned(t, grade) = IdleThread
      BY <1>2 DEF Returned
    <2>2. Quietly(t, IdleThread)
      BY <1>2, <2>1, EndsCall
    <2>3. IdleThread.pc = "idle"
      BY DEF IdleThread
    <2> QED BY <2>1, <2>2, <2>3
  <1> QED BY <1>1, <1>2

LEMMA SkipCommitKeeps ==
  ASSUME Known, NEW t \in Threads, SkipCommit(t)
  PROVE  RefreshInv'
  <1>1. PICK grade : grade = IF fresh THEN memory.grade ELSE thread[t].grade
    OBVIOUS
  <1>2. grade \in Grades \cup {"none"}
    BY <1>1, Reading DEF Records
  <1>3. /\ thread[t].pc = "commit" /\ thread[t].op = "generate"
        /\ thread' = [thread EXCEPT ![t] = Returned(t, grade)]
        /\ UNCHANGED <<stores, flightVars, roundVars, marks, refreshing, attempt>>
    BY <1>1 DEF SkipCommit, At
  <1>4. Quietly(t, Returned(t, grade)) /\ Returned(t, grade).pc \in {"judge", "idle"}
    BY <1>2, <1>3, ReturnedGoesOn
  <1> QED BY <1>3, <1>4, Reads, QuietKeeps

\* What an explicit refresh goes on with when it stored nothing, or cannot say it did.
LEMMA PublishGoesOn ==
  ASSUME Known, NEW t \in Threads,
         thread[t].pc = "commit", thread[t].op = "explicit",
         Goto(t, "publish")
  PROVE  \E q : Quietly(t, q) /\ ~(q.pc = "publish" /\ q.ok)
  <1>1. PICK q : q = [thread[t] EXCEPT !.pc = "publish"]
    OBVIOUS
  <1>2. "publish" \in Positions
    BY DEF Positions
  <1>3. /\ q \in Records /\ q.pc = "publish" /\ q.ok = thread[t].ok
        /\ q.op = thread[t].op /\ q.gen = thread[t].gen /\ q.round = thread[t].round
    BY <1>1, <1>2, ReadsRecord DEF Records
  <1>4. thread' = [thread EXCEPT ![t] = q]
    BY <1>1 DEF Goto
  <1>5. ~q.ok
    BY <1>3, Reads DEF Coheres
  <1>6. Quietly(t, q)
    BY <1>3, <1>4, <1>5, GoesOn
  <1> QED BY <1>5, <1>6

LEMMA FinishedIsAnAttempt ==
  ASSUME Known, NEW t \in Threads, NEW state \in {"succeeded", "failed"},
         Finish(thread[t].gen, state)
  PROVE  attempt' \in Attempts
  <1>1. thread[t].gen \in Generations
    BY Reads DEF Records
  <1>2. [gen |-> thread[t].gen, state |-> state] \in Attempts
    BY <1>1 DEF Attempts
  <1> QED BY <1>2, Reads DEF Finish

LEMMA RefuseRefreshKeeps ==
  ASSUME Known, NEW t \in Threads, RefuseRefresh(t)
  PROVE  RefreshInv'
  <1>1. /\ thread[t].pc = "commit" /\ thread[t].op = "explicit" /\ Goto(t, "publish")
        /\ UNCHANGED <<stores, flightVars, roundVars, marks, refreshing>>
        /\ Finish(thread[t].gen, "failed")
    BY DEF RefuseRefresh, Package, At
  <1>2. PICK q : Quietly(t, q) /\ ~(q.pc = "publish" /\ q.ok)
    BY <1>1, PublishGoesOn
  <1> QED BY <1>1, <1>2, FinishedIsAnAttempt, QuietKeeps

LEMMA FailToPersistKeeps ==
  ASSUME Known, NEW t \in Threads, FailToPersist(t)
  PROVE  RefreshInv'
  <1>1. /\ thread[t].pc = "commit" /\ thread[t].op = "explicit" /\ Goto(t, "publish")
        /\ UNCHANGED <<stores, flightVars, roundVars, marks, refreshing>>
        /\ Finish(thread[t].gen, "failed")
    BY DEF FailToPersist, Package, At
  <1>2. PICK q : Quietly(t, q) /\ ~(q.pc = "publish" /\ q.ok)
    BY <1>1, PublishGoesOn
  <1> QED BY <1>1, <1>2, FinishedIsAnAttempt, QuietKeeps

LEMMA WakeFromRoundKeeps ==
  ASSUME Known, NEW t \in Threads, WakeFromRound(t)
  PROVE  RefreshInv'
  <1>1. /\ thread[t].pc = "await" /\ thread' = [thread EXCEPT ![t] = IdleThread]
        /\ UNCHANGED <<stores, flightVars, roundVars, marks, refreshing, attempt>>
    BY DEF WakeFromRound, End, At
  <1>2. t \notin Workers
    BY <1>1, Reads DEF Coheres
  <1>3. Quietly(t, IdleThread)
    BY <1>1, <1>2, EndsCall
  <1>4. IdleThread.pc = "idle"
    BY DEF IdleThread
  <1> QED BY <1>1, <1>3, <1>4, Reads, QuietKeeps

LEMMA TimeOutOnRoundKeeps ==
  ASSUME Known, NEW t \in Threads, TimeOutOnRound(t)
  PROVE  RefreshInv'
  <1>1. PICK q : q = [thread[t] EXCEPT !.pc = "late"]
    OBVIOUS
  <1>2. "late" \in Positions
    BY DEF Positions
  <1>3. /\ q \in Records /\ q.pc = "late" /\ q.ok = thread[t].ok
        /\ q.op = thread[t].op /\ q.gen = thread[t].gen /\ q.round = thread[t].round
    BY <1>1, <1>2, ReadsRecord DEF Records
  <1>4. /\ thread[t].pc = "await" /\ thread' = [thread EXCEPT ![t] = q]
        /\ UNCHANGED <<stores, flightVars, roundVars, marks, refreshing, attempt>>
    BY <1>1 DEF TimeOutOnRound, Goto, At
  <1>5. Coheres(t, q, generation, builds)
    BY <1>3, <1>4, Reads DEF Coheres
  <1>6. \A r \in 1..MaxRounds : Leading(q, r) <=> Leading(thread[t], r)
    BY <1>3, <1>4 DEF Leading
  <1>7. Quietly(t, q)
    BY <1>3, <1>4, <1>5, <1>6 DEF Quietly, Moves, At
  <1> QED BY <1>3, <1>4, <1>7, Reads, QuietKeeps

LEMMA JudgeWorkKeeps ==
  ASSUME Known, NEW t \in Threads, JudgeWork(t)
  PROVE  RefreshInv'
  <1>1. PICK q : q = [thread[t] EXCEPT !.pc = Verdict(t)]
    OBVIOUS
  <1>2. Verdict(t) \in {"fail", "keep", "clear"} /\ {"fail", "keep", "clear"} \subseteq Positions
    BY DEF Verdict, Positions
  <1>3. /\ q \in Records /\ q.pc = Verdict(t) /\ q.ok = thread[t].ok
        /\ q.op = thread[t].op /\ q.gen = thread[t].gen /\ q.round = thread[t].round
    BY <1>1, <1>2, ReadsRecord DEF Records
  <1>4. /\ thread[t].pc = "judge" /\ thread' = [thread EXCEPT ![t] = q]
        /\ UNCHANGED <<stores, flightVars, roundVars, marks, refreshing, attempt>>
    BY <1>1 DEF JudgeWork, Goto, At
  <1>5. t \in Workers /\ ~(q.ok /\ q.op = "explicit")
    BY <1>3, <1>4, Reads DEF Coheres
  <1>6. Quietly(t, q)
    BY <1>2, <1>3, <1>4, <1>5, GoesOn
  <1> QED BY <1>2, <1>3, <1>4, <1>6, Reads, QuietKeeps

\* A move that lets no call in leaves a build for each call that waits for one.
LEMMA ComingFits ==
  ASSUME Known, NEW t, NEW q, Moves(t, q), UNCHANGED generation,
         q.pc \in {"begin", "join"} => thread[t].pc \in {"begin", "join"}
  PROVE  IsFiniteSet(Coming') /\ generation + Cardinality(Coming') <= MaxBuilds
  <1>1. /\ IsFiniteSet(Coming') /\ Cardinality(Coming') <= Cardinality(Coming)
        /\ Cardinality(Coming) \in Nat /\ Cardinality(Coming') \in Nat
    BY ComingShrinks
  <1> QED BY <1>1 DEF Known, RefreshInv, BuildsInOrder, Coming, RefreshTypeOK, Generations,
     ReviewAssumption

LEMMA GiveUpOnRoundKeeps ==
  ASSUME Known, NEW t \in Threads, GiveUpOnRound(t)
  PROVE  RefreshInv'
  <1>1. PICK q : q = IdleThread
    OBVIOUS
  <1>2. /\ thread[t].pc = "late" /\ thread[t].op = "explicit" /\ thread[t].round \in 1..MaxRounds
        /\ t \in Requests /\ t \notin Workers
    BY Reading DEF GiveUpOnRound, At, Coheres
  <1>3. /\ UNCHANGED <<memory, fresh, disk, committed, flight, generation, builds, current,
                       rounds, refreshing, attempt>>
        /\ generation \in Nat /\ flight <= generation
    BY Reading DEF GiveUpOnRound, stores, flightVars, roundVars, Known, RefreshInv, Fence
  <1>4. Moves(t, q) /\ (q.pc \in {"begin", "join"} => thread[t].pc \in {"begin", "join"})
    BY <1>1, Reading DEF GiveUpOnRound, End, IdleThread, Moves, Records, Calls, Positions,
       Generations
  <1>5. SharedTyped'
    <2>1. SharedTyped /\ MaxRounds \in Nat
      BY Reading
    <2>2. failed \in BOOLEAN /\ failedRound \in 0..MaxRounds
      BY <2>1 DEF SharedTyped
    <2>3. failed' \in BOOLEAN
      BY <2>2 DEF GiveUpOnRound, SetFailure, marks
    <2>4. failedRound' \in 0..MaxRounds
      BY <1>2, <2>1, <2>2 DEF GiveUpOnRound, SetFailure, marks
    <2> QED BY <1>3, <2>1, <2>3, <2>4 DEF SharedTyped
  <1>6. Coheres(t, q, generation, builds)
    BY <1>1, Reading DEF IdleThread, Coheres
  <1>7. IsFiniteSet(Coming') /\ generation + Cardinality(Coming') <= MaxBuilds
    BY <1>3, <1>4, ComingFits
  <1>8. /\ ~At(t, "building") /\ q.pc # "building" /\ q.pc # "leave"
        /\ ~(q.pc = "publish" /\ q.ok)
        /\ \A r \in 1..MaxRounds : Leading(q, r) <=> Leading(thread[t], r)
        /\ t \in Workers => (q.pc = "idle" <=> At(t, "idle"))
    BY <1>1, <1>2 DEF IdleThread, At, Leading
  <1>9. RefreshTypeOK' /\ (\A u \in Threads : Coherent(u)') /\ BuildsInOrder' /\ OneBuilder'
    BY <1>3, <1>4, <1>5, <1>6, <1>7, <1>8, BuildsUntouched
  <1>10. RoundsInOrder' /\ OneLeader'
    BY <1>3, <1>4, <1>8, RoundsUntouched
  <1>11. OneWorker'
    BY <1>3, <1>4, <1>8, WorkUntouched
  <1>12. Fence' /\ SuccessIsStored'
    BY <1>3, <1>4, <1>8, StoresUntouched
  <1>13. MarkIsCurrent'
    <2>1. CASE MayMark(thread[t].round)
      <3>1. PICK last \in 0..MaxRounds :
              /\ \A r \in 1..MaxRounds : rounds[r] = "none" <=> r > last
              /\ \A r \in 1..MaxRounds : rounds[r] = "running" => r = last /\ r = current
        BY DEF Known, RefreshInv, RoundsInOrder
      <3>2. rounds[thread[t].round] = "running" /\ thread[t].round = last /\ failedRound' = last
        BY <1>2, <2>1, <3>1 DEF GiveUpOnRound, MayMark, Running, SetFailure
      <3>3. \A r \in 1..MaxRounds : rounds[r] = "ok" => r < last
        BY <3>1, <3>2, Reading
      <3> QED BY <1>3, <3>2, <3>3 DEF MarkIsCurrent
    <2>2. CASE ~MayMark(thread[t].round)
      <3>1. UNCHANGED <<failed, failedRound, rounds>>
        BY <1>3, <2>2 DEF GiveUpOnRound, marks
      <3> QED BY <3>1, MarksUntouched
    <2> QED BY <2>1, <2>2
  <1> QED BY <1>9, <1>10, <1>11, <1>12, <1>13, Together

LEMMA MarkWorkKeeps ==
  ASSUME Known, NEW t \in Threads, MarkWork(t)
  PROVE  RefreshInv'
  <1>1. PICK q : q = [thread[t] EXCEPT !.pc = "end"]
    OBVIOUS
  <1>2. thread[t].pc \in {"fail", "keep", "clear"} /\ t \in Workers /\ thread[t].op # "explicit"
    BY Reading DEF MarkWork, Coheres
  <1>3. /\ UNCHANGED <<memory, fresh, disk, committed, flight, generation, builds, current,
                       rounds, refreshing, attempt>>
        /\ generation \in Nat /\ flight <= generation
    BY Reading DEF MarkWork, stores, flightVars, roundVars, Known, RefreshInv, Fence
  <1>4. Moves(t, q) /\ (q.pc \in {"begin", "join"} => thread[t].pc \in {"begin", "join"})
    BY <1>1, Reading DEF MarkWork, Goto, Moves, Records, Positions
  <1>5. \/ failed' = TRUE /\ failedRound' = 0
        \/ failed' = FALSE /\ failedRound' = 0
        \/ UNCHANGED <<failed, failedRound>>
    BY <1>2 DEF MarkWork, At, SetFailure, ClearFailure, marks
  <1>6. SharedTyped'
    <2>1. SharedTyped /\ MaxRounds \in Nat
      BY Reading
    <2>2. failed \in BOOLEAN /\ failedRound \in 0..MaxRounds
      BY <2>1 DEF SharedTyped
    <2>3. failed' \in BOOLEAN
      BY <1>5, <2>2
    <2>4. failedRound' \in 0..MaxRounds
      BY <1>5, <2>1, <2>2
    <2> QED BY <1>3, <2>1, <2>3, <2>4 DEF SharedTyped
  <1>7. Coheres(t, q, generation, builds)
    BY <1>1, <1>2, Reading DEF Coheres, Records, Calls
  <1>8. IsFiniteSet(Coming') /\ generation + Cardinality(Coming') <= MaxBuilds
    BY <1>3, <1>4, ComingFits
  <1>9. /\ ~At(t, "building") /\ q.pc # "building" /\ q.pc # "leave"
        /\ ~(q.pc = "publish" /\ q.ok)
        /\ \A r \in 1..MaxRounds : Leading(q, r) <=> Leading(thread[t], r)
        /\ t \in Workers => (q.pc = "idle" <=> At(t, "idle"))
    BY <1>1, <1>2, Reading DEF At, Leading, Records
  <1>10. RefreshTypeOK' /\ (\A u \in Threads : Coherent(u)') /\ BuildsInOrder' /\ OneBuilder'
    BY <1>3, <1>4, <1>6, <1>7, <1>8, <1>9, BuildsUntouched
  <1>11. RoundsInOrder' /\ OneLeader'
    BY <1>3, <1>4, <1>9, RoundsUntouched
  <1>12. OneWorker'
    BY <1>3, <1>4, <1>9, WorkUntouched
  <1>13. Fence' /\ SuccessIsStored'
    BY <1>3, <1>4, <1>9, StoresUntouched
  <1>14. MarkIsCurrent'
    BY <1>3, <1>5 DEF Known, RefreshInv, MarkIsCurrent
  <1> QED BY <1>10, <1>11, <1>12, <1>13, <1>14, Together

LEMMA KickBackgroundRefreshKeeps ==
  ASSUME Known, NEW t \in Threads, KickBackgroundRefresh(t)
  PROVE  RefreshInv'
  <1>1. PICK q : q = [thread[t] EXCEPT !.pc = "begin", !.op = "generate"]
    OBVIOUS
  <1>2. /\ thread[t].pc = "idle" /\ t \in Workers /\ thread[t].op = "none" /\ thread[t].ok = FALSE
        /\ ~refreshing /\ refreshing' = TRUE /\ failed' = FALSE /\ failedRound' = 0
    BY Reading DEF KickBackgroundRefresh, ClearFailure, At, Coheres, Known, RefreshInv,
       RefreshTypeOK, Records
  <1>3. /\ UNCHANGED <<memory, fresh, disk, committed, flight, generation, builds, current,
                       rounds, attempt>>
        /\ generation \in Nat /\ flight <= generation
    BY Reading DEF KickBackgroundRefresh, stores, flightVars, roundVars, Known, RefreshInv, Fence
  <1>4. Moves(t, q)
    BY <1>1, Reading DEF KickBackgroundRefresh, Moves, Records, Calls, Positions
  <1>5. SharedTyped'
    <2>1. SharedTyped /\ MaxRounds \in Nat
      BY Reading
    <2>2. failed' \in BOOLEAN /\ refreshing' \in BOOLEAN
      BY <1>2
    <2>3. failedRound' \in 0..MaxRounds
      BY <1>2, <2>1
    <2> QED BY <1>3, <2>1, <2>2, <2>3 DEF SharedTyped
  <1>6. Coheres(t, q, generation, builds)
    BY <1>1, <1>2, Reading DEF Coheres, Records
  <1>7. IsFiniteSet(Coming') /\ generation + Cardinality(Coming') <= MaxBuilds
    BY <1>2, <1>4, ComingJoins DEF KickBackgroundRefresh
  <1>8. /\ ~At(t, "building") /\ q.pc # "building" /\ q.pc # "leave"
        /\ ~(q.pc = "publish" /\ q.ok)
        /\ \A r \in 1..MaxRounds : Leading(q, r) <=> Leading(thread[t], r)
    BY <1>1, <1>2, Reading DEF At, Leading, Records
  <1>9. RefreshTypeOK' /\ (\A u \in Threads : Coherent(u)') /\ BuildsInOrder' /\ OneBuilder'
    BY <1>3, <1>4, <1>5, <1>6, <1>7, <1>8, BuildsUntouched
  <1>10. RoundsInOrder' /\ OneLeader'
    BY <1>3, <1>4, <1>8, RoundsUntouched
  <1>11. OneWorker'
    <2>1. \A w \in Workers : thread[w].pc = "idle"
      BY <1>2, Protocols DEF Known, RefreshInv, OneWorker, At
    <2>2. q.pc # "idle" /\ RefreshTypeOK
      BY <1>1, Reading DEF Records, Known, RefreshInv
    <2>3. \A w \in Workers : thread'[w].pc # "idle" <=> w = t
      BY <1>2, <1>4, <2>1, <2>2, Moved DEF Threads
    <2> QED BY <1>2, <2>3 DEF OneWorker, At
  <1>12. Fence' /\ SuccessIsStored'
    BY <1>3, <1>4, <1>8, StoresUntouched
  <1>13. MarkIsCurrent'
    BY <1>2 DEF MarkIsCurrent
  <1> QED BY <1>9, <1>10, <1>11, <1>12, <1>13, Together

LEMMA EndWorkKeeps ==
  ASSUME Known, NEW t \in Threads, EndWork(t)
  PROVE  RefreshInv'
  <1>1. PICK q : q = IdleThread
    OBVIOUS
  <1>2. thread[t].pc = "end" /\ t \in Workers /\ thread[t].op # "explicit" /\ refreshing' = FALSE
    BY Reading DEF EndWork, At, Coheres
  <1>3. /\ UNCHANGED <<memory, fresh, disk, committed, flight, generation, builds, current,
                       rounds, failed, failedRound, attempt>>
        /\ generation \in Nat /\ flight <= generation
    BY Reading DEF EndWork, stores, flightVars, roundVars, marks, Known, RefreshInv, Fence
  <1>4. Moves(t, q) /\ (q.pc \in {"begin", "join"} => thread[t].pc \in {"begin", "join"})
    BY <1>1, Reading DEF EndWork, End, IdleThread, Moves, Records, Calls, Positions, Generations
  <1>5. SharedTyped'
    <2>1. SharedTyped
      BY Reading
    <2> QED BY <1>2, <1>3, <2>1 DEF SharedTyped
  <1>6. Coheres(t, q, generation, builds)
    BY <1>1, Reading DEF IdleThread, Coheres
  <1>7. IsFiniteSet(Coming') /\ generation + Cardinality(Coming') <= MaxBuilds
    BY <1>3, <1>4, ComingFits
  <1>8. /\ ~At(t, "building") /\ q.pc # "building" /\ q.pc # "leave"
        /\ ~(q.pc = "publish" /\ q.ok)
        /\ \A r \in 1..MaxRounds : Leading(q, r) <=> Leading(thread[t], r)
    BY <1>1, <1>2 DEF IdleThread, At, Leading
  <1>9. RefreshTypeOK' /\ (\A u \in Threads : Coherent(u)') /\ BuildsInOrder' /\ OneBuilder'
    BY <1>3, <1>4, <1>5, <1>6, <1>7, <1>8, BuildsUntouched
  <1>10. RoundsInOrder' /\ OneLeader'
    BY <1>3, <1>4, <1>8, RoundsUntouched
  <1>11. OneWorker'
    <2>1. \A w \in Workers : thread[w].pc # "idle" => w = t
      BY <1>2, Protocols DEF Known, RefreshInv, OneWorker, At
    <2>2. \A w \in Workers : thread'[w].pc = "idle"
      BY <1>1, <1>4, <2>1, Moved DEF Known, RefreshInv, Threads, IdleThread
    <2> QED BY <1>2, <2>2 DEF OneWorker, At
  <1>12. Fence' /\ SuccessIsStored'
    BY <1>3, <1>4, <1>8, StoresUntouched
  <1>13. MarkIsCurrent'
    BY <1>3, MarksUntouched
  <1> QED BY <1>9, <1>10, <1>11, <1>12, <1>13, Together
\* The thread that leads a round leads the last one, which is current and running.
LEMMA LeaderOfTheLast ==
  ASSUME Known, NEW last \in 0..MaxRounds,
         \A r \in 1..MaxRounds : rounds[r] = "none" <=> r > last,
         \A r \in 1..MaxRounds : rounds[r] = "running" => r = last /\ r = current,
         NEW t \in Threads, NEW s \in 1..MaxRounds, Leads(t, s)
  PROVE  rounds[s] = "running" /\ s = last /\ s = current
  <1>1. rounds[s] = "running"
    BY DEF Known, RefreshInv, Alone
  <1> QED BY <1>1

LEMMA PublishRoundKeeps ==
  ASSUME Known, NEW t \in Threads, PublishRound(t)
  PROVE  RefreshInv'
  <1>1. PICK q : q = [thread[t] EXCEPT !.pc = "leave"]
    OBVIOUS
  <1>2. PICK s : s = thread[t].round
    OBVIOUS
  <1>3. /\ thread[t].pc = "publish" /\ thread[t].op = "explicit" /\ s \in 1..MaxRounds
        /\ t \in Requests /\ t \notin Workers
    BY <1>2, Reading DEF PublishRound, At, Coheres
  <1>4. PICK last \in 0..MaxRounds :
          /\ \A r \in 1..MaxRounds : rounds[r] = "none" <=> r > last
          /\ \A r \in 1..MaxRounds : rounds[r] = "running" => r = last /\ r = current
    BY DEF Known, RefreshInv, RoundsInOrder
  <1>5. Leads(t, s)
    BY <1>2, <1>3 DEF Leads
  <1>6. rounds[s] = "running" /\ s = last /\ s = current
    BY <1>3, <1>4, <1>5, LeaderOfTheLast
  <1>7. /\ UNCHANGED <<memory, fresh, disk, committed, flight, generation, builds, current,
                       refreshing, attempt>>
        /\ generation \in Nat /\ flight <= generation
    BY Reading DEF PublishRound, stores, flightVars, Known, RefreshInv, Fence
  <1>8. Moves(t, q) /\ (q.pc \in {"begin", "join"} => thread[t].pc \in {"begin", "join"})
    BY <1>1, Reading DEF PublishRound, Goto, Moves, Records, Positions
  <1>9. PICK result \in {"ok", "error"} :
          /\ rounds' = [rounds EXCEPT ![s] = result]
          /\ result = "ok" => failed' = FALSE /\ failedRound' = 0
          /\ result = "error" => failed' = TRUE /\ failedRound' = s
    <2>1. CASE thread[t].ok
      <3>1. /\ rounds' = [rounds EXCEPT ![s] = "ok"]
            /\ failed' = FALSE /\ failedRound' = 0
        BY <1>2, <2>1 DEF PublishRound, ClearFailure
      <3> QED BY <3>1
    <2>2. CASE ~thread[t].ok
      <3>1. /\ rounds' = [rounds EXCEPT ![s] = "error"]
            /\ failed' = TRUE /\ failedRound' = s
        BY <1>2, <2>2 DEF PublishRound, SetFailure
      <3> QED BY <3>1
    <2> QED BY <2>1, <2>2
  <1>10. SharedTyped'
    <2>1. SharedTyped /\ MaxRounds \in Nat
      BY Reading
    <2>2. failed' \in BOOLEAN
      BY <1>9
    <2>3. failedRound' \in 0..MaxRounds
      BY <1>3, <1>9, <2>1
    <2>4. rounds' \in [1..MaxRounds -> {"none", "running", "ok", "error"}]
      BY <1>3, <1>9, <2>1 DEF SharedTyped
    <2> QED BY <1>7, <2>1, <2>2, <2>3, <2>4 DEF SharedTyped
  <1>11. Coheres(t, q, generation, builds)
    BY <1>1, <1>2, <1>3, Reading DEF Coheres, Records
  <1>12. IsFiniteSet(Coming') /\ generation + Cardinality(Coming') <= MaxBuilds
    BY <1>7, <1>8, ComingFits
  <1>13. /\ ~At(t, "building") /\ q.pc # "building"
         /\ ~(q.pc = "publish" /\ q.ok)
         /\ t \in Workers => (q.pc = "idle" <=> At(t, "idle"))
         /\ q.pc = "leave" /\ q.round = s
    BY <1>1, <1>2, <1>3, Reading DEF At, Records
  <1>14. RefreshTypeOK' /\ (\A u \in Threads : Coherent(u)') /\ BuildsInOrder' /\ OneBuilder'
    BY <1>7, <1>8, <1>10, <1>11, <1>12, <1>13, BuildsUntouched
  <1>15. \A r \in 1..MaxRounds : rounds'[r] = IF r = s THEN result ELSE rounds[r]
    BY <1>3, <1>9, Reading DEF SharedTyped
  <1>16. RoundsInOrder'
    <2>1. \A r \in 1..MaxRounds : rounds'[r] = "none" <=> r > last
      BY <1>4, <1>6, <1>9, <1>15
    <2>2. \A r \in 1..MaxRounds : rounds'[r] = "running" => r = last /\ r = current'
      BY <1>4, <1>6, <1>9, <1>15
    <2> QED BY <2>1, <2>2 DEF RoundsInOrder
  <1>17. OneLeader'
    <2>1. RefreshTypeOK
      BY DEF Known, RefreshInv
    <2>2. \A u \in Threads, r \in 1..MaxRounds : ~Leading(thread'[u], r)
      <3> SUFFICES ASSUME NEW u \in Threads, NEW r \in 1..MaxRounds, Leading(thread'[u], r)
                   PROVE  FALSE
        OBVIOUS
      <3>1. u # t /\ thread'[u] = thread[u]
        BY <1>8, <1>13, <2>1, Moved DEF Leading
      <3>2. Leads(u, r)
        BY <3>1 DEF Leads, Leading
      <3>3. r = s
        BY <1>4, <1>6, <3>2, LeaderOfTheLast
      <3> QED BY <1>3, <1>5, <3>1, <3>2, <3>3 DEF Known, RefreshInv, Alone
    <2>3. \A u \in Threads, r \in 1..MaxRounds : ~Leads(u, r)'
      BY <2>2 DEF Leads, Leading
    <2>4. \A u \in Threads : thread'[u].pc = "leave" => rounds'[thread'[u].round] \in {"ok", "error"}
      <3> SUFFICES ASSUME NEW u \in Threads, thread'[u].pc = "leave"
                   PROVE  rounds'[thread'[u].round] \in {"ok", "error"}
        OBVIOUS
      <3>1. CASE u = t
        BY <1>3, <1>8, <1>9, <1>13, <1>15, <2>1, <3>1, Moved
      <3>2. CASE u # t
        <4>1. thread'[u] = thread[u]
          BY <1>8, <2>1, <3>2, Moved
        <4>2. rounds[thread[u].round] \in {"ok", "error"} /\ thread[u].round \in 1..MaxRounds
          BY <4>1 DEF Known, RefreshInv, Alone, Coherent, At
        <4> QED BY <1>9, <1>15, <4>1, <4>2
      <3> QED BY <3>1, <3>2
    <2>5. ~Running(current)'
      BY <1>3, <1>6, <1>7, <1>9, <1>15 DEF Running
    <2> QED BY <2>3, <2>4, <2>5 DEF OneLeader, At
  <1>18. OneWorker'
    BY <1>7, <1>8, <1>13, WorkUntouched
  <1>19. Fence' /\ SuccessIsStored'
    BY <1>7, <1>8, <1>13, StoresUntouched
  <1>20. MarkIsCurrent'
    <2>1. \A r \in 1..MaxRounds : rounds'[r] # "none" => r <= s
      BY <1>3, <1>4, <1>6, <1>15
    <2>2. \A r \in 1..MaxRounds : result = "error" /\ rounds'[r] = "ok" => r < s
      BY <1>3, <1>15, <2>1
    <2> QED BY <1>9, <2>2 DEF MarkIsCurrent
  <1> QED BY <1>14, <1>16, <1>17, <1>18, <1>19, <1>20, Together

LEMMA LeaveRoundKeeps ==
  ASSUME Known, NEW t \in Threads, LeaveRound(t)
  PROVE  RefreshInv'
  <1>1. PICK q : q = IdleThread
    OBVIOUS
  <1>2. /\ thread[t].pc = "leave" /\ thread[t].op = "explicit" /\ thread[t].round \in 1..MaxRounds
        /\ t \in Requests /\ t \notin Workers
        /\ rounds[thread[t].round] \in {"ok", "error"}
    BY Reading DEF LeaveRound, At, Coheres, Known, RefreshInv, Alone
  <1>3. /\ UNCHANGED <<memory, fresh, disk, committed, flight, generation, builds, rounds,
                       failed, failedRound, refreshing, attempt>>
        /\ generation \in Nat /\ flight <= generation
    BY Reading DEF LeaveRound, stores, flightVars, marks, Known, RefreshInv, Fence
  <1>4. Moves(t, q) /\ (q.pc \in {"begin", "join"} => thread[t].pc \in {"begin", "join"})
    BY <1>1, Reading DEF LeaveRound, End, IdleThread, Moves, Records, Calls, Positions, Generations
  <1>5. \/ current' = current
        \/ current' = 0 /\ ~Running(current)
    BY <1>2 DEF LeaveRound, Running
  <1>6. SharedTyped'
    <2>1. SharedTyped /\ MaxRounds \in Nat
      BY Reading
    <2>2. current' \in 0..MaxRounds
      BY <1>5, <2>1 DEF SharedTyped
    <2> QED BY <1>3, <2>1, <2>2 DEF SharedTyped
  <1>7. Coheres(t, q, generation, builds)
    BY <1>1, Reading DEF IdleThread, Coheres
  <1>8. IsFiniteSet(Coming') /\ generation + Cardinality(Coming') <= MaxBuilds
    BY <1>3, <1>4, ComingFits
  <1>9. /\ ~At(t, "building") /\ q.pc # "building" /\ q.pc # "leave"
        /\ ~(q.pc = "publish" /\ q.ok)
        /\ \A r \in 1..MaxRounds : ~Leading(q, r) /\ ~Leading(thread[t], r)
        /\ t \in Workers => (q.pc = "idle" <=> At(t, "idle"))
    BY <1>1, <1>2 DEF IdleThread, At, Leading
  <1>10. RefreshTypeOK' /\ (\A u \in Threads : Coherent(u)') /\ BuildsInOrder' /\ OneBuilder'
    BY <1>3, <1>4, <1>6, <1>7, <1>8, <1>9, BuildsUntouched
  <1>11. RoundsInOrder'
    <2>1. PICK last \in 0..MaxRounds :
            /\ \A r \in 1..MaxRounds : rounds[r] = "none" <=> r > last
            /\ \A r \in 1..MaxRounds : rounds[r] = "running" => r = last /\ r = current
      BY DEF Known, RefreshInv, RoundsInOrder
    <2>2. \A r \in 1..MaxRounds : rounds[r] = "running" => r = current'
      BY <1>5, <2>1, Reading DEF Running
    <2> QED BY <1>3, <2>1, <2>2 DEF RoundsInOrder
  <1>12. OneLeader'
    <2>1. OneLeader /\ RefreshTypeOK
      BY Protocols DEF Known, RefreshInv
    <2>2. \A u \in Threads, r \in 1..MaxRounds : Leading(thread'[u], r) <=> Leads(u, r)
      BY <1>4, <1>9, <2>1, Moved, LeadsIsLeading
    <2>3. \A u \in Threads : thread'[u].pc = "leave" => thread[u].pc = "leave" /\ thread'[u] = thread[u]
      BY <1>4, <1>9, <2>1, Moved
    <2>4. /\ \A u \in Threads, r \in 1..MaxRounds : Leading(thread'[u], r) => rounds'[r] = "running"
          /\ \A u, v \in Threads, r \in 1..MaxRounds :
               Leading(thread'[u], r) /\ Leading(thread'[v], r) => u = v
      BY <1>3, <2>1, <2>2 DEF OneLeader
    <2>5. \A u \in Threads : thread'[u].pc = "leave" => rounds'[thread'[u].round] \in {"ok", "error"}
      BY <1>3, <2>1, <2>3 DEF OneLeader, At
    <2>6. Running(current)' => \E u \in Threads : Leading(thread'[u], current')
      <3> SUFFICES ASSUME Running(current)' PROVE \E u \in Threads : Leading(thread'[u], current')
        OBVIOUS
      <3>1. current' = current /\ Running(current) /\ current \in 1..MaxRounds
        BY <1>3, <1>5, Reading DEF Running
      <3> QED BY <2>1, <2>2, <3>1 DEF OneLeader
    <2> QED BY <2>4, <2>5, <2>6 DEF OneLeader, At, Leads, Leading
  <1>13. OneWorker'
    BY <1>3, <1>4, <1>9, WorkUntouched
  <1>14. Fence' /\ SuccessIsStored'
    BY <1>3, <1>4, <1>9, StoresUntouched
  <1>15. MarkIsCurrent'
    BY <1>3, MarksUntouched
  <1> QED BY <1>10, <1>11, <1>12, <1>13, <1>14, <1>15, Together
LEMMA LeadRoundKeeps ==
  ASSUME Known, NEW t \in Threads, LeadRound(t)
  PROVE  RefreshInv'
  <1>1. PICK s : s = LastRound + 1
    OBVIOUS
  <1>2. PICK q : q = [thread[t] EXCEPT !.pc = "join", !.op = "explicit", !.round = s]
    OBVIOUS
  <1>3. PICK last \in 0..MaxRounds :
          /\ \A r \in 1..MaxRounds : rounds[r] = "none" <=> r > last
          /\ \A r \in 1..MaxRounds : rounds[r] = "running" => r = last /\ r = current
    BY DEF Known, RefreshInv, RoundsInOrder
  <1>4. s = last + 1
    <2>1. MaxRounds \in Nat /\ last \in Nat /\ last <= MaxRounds
      BY Reading
    <2>2. {r \in 1..MaxRounds : rounds[r] # "none"} = 1..last
      BY <1>3, <2>1
    <2>3. Cardinality(1..last) = last
      BY <2>1, FS_Interval
    <2> QED BY <1>1, <2>2, <2>3 DEF LastRound
  <1>5. /\ thread[t].pc = "idle" /\ thread[t].op = "none" /\ thread[t].ok = FALSE
        /\ t \in Requests /\ t \notin Workers
        /\ s \in 1..MaxRounds /\ current' = s
    BY <1>1, <1>4, Reading DEF LeadRound, At, Coheres, Records
  <1>6. /\ UNCHANGED <<memory, fresh, disk, committed, flight, generation, builds,
                       failed, failedRound, refreshing, attempt>>
        /\ generation \in Nat /\ flight <= generation
    BY Reading DEF LeadRound, stores, flightVars, marks, Known, RefreshInv, Fence
  <1>7. Moves(t, q)
    <2>1. s \in 0..MaxRounds /\ thread[t] \in Records
      BY <1>5, Reading
    <2>2. q \in Records
      BY <1>2, <2>1 DEF Records, Calls, Positions
    <2> QED BY <1>1, <1>2, <2>2 DEF LeadRound, Moves
  <1>8. \A r \in 1..MaxRounds : rounds[r] # "running"
    <2> SUFFICES ASSUME NEW r \in 1..MaxRounds, rounds[r] = "running" PROVE FALSE
      OBVIOUS
    <2>1. r = current /\ current # 0
      BY <1>3, Reading
    <2> QED BY <2>1 DEF LeadRound, Running
  <1>9. SharedTyped'
    <2>1. SharedTyped /\ MaxRounds \in Nat
      BY Reading
    <2>2. current' \in 0..MaxRounds
      BY <1>5, <2>1
    <2>3. rounds' \in [1..MaxRounds -> {"none", "running", "ok", "error"}]
      BY <2>1 DEF LeadRound, SharedTyped
    <2> QED BY <1>6, <2>1, <2>2, <2>3 DEF SharedTyped
  <1>10. Coheres(t, q, generation, builds)
    BY <1>2, <1>5, Reading DEF Coheres, Records
  <1>11. IsFiniteSet(Coming') /\ generation + Cardinality(Coming') <= MaxBuilds
    BY <1>5, <1>7, ComingJoins DEF LeadRound
  <1>12. /\ ~At(t, "building") /\ q.pc # "building" /\ q.pc = "join"
         /\ ~(q.pc = "publish" /\ q.ok)
         /\ t \in Workers => (q.pc = "idle" <=> At(t, "idle"))
         /\ q.op = "explicit" /\ q.round = s
    BY <1>2, <1>5, Reading DEF At, Records
  <1>13. RefreshTypeOK' /\ (\A u \in Threads : Coherent(u)') /\ BuildsInOrder' /\ OneBuilder'
    BY <1>6, <1>7, <1>9, <1>10, <1>11, <1>12, BuildsUntouched
  <1>14. \A r \in 1..MaxRounds : rounds'[r] = IF r = s THEN "running" ELSE rounds[r]
    BY <1>1, <1>5, Reading DEF LeadRound, SharedTyped
  <1>15. RoundsInOrder'
    <2>1. \A r \in 1..MaxRounds : rounds'[r] = "none" <=> r > s
      BY <1>3, <1>4, <1>5, <1>14
    <2>2. \A r \in 1..MaxRounds : rounds'[r] = "running" => r = s /\ r = current'
      BY <1>5, <1>8, <1>14
    <2>3. s \in 0..MaxRounds
      BY <1>5, Reading
    <2> QED BY <2>1, <2>2, <2>3 DEF RoundsInOrder
  <1>16. OneLeader'
    <2>1. RefreshTypeOK
      BY DEF Known, RefreshInv
    <2>2. \A u \in Threads, r \in 1..MaxRounds : Leading(thread'[u], r) <=> u = t /\ r = s
      <3> SUFFICES ASSUME NEW u \in Threads, NEW r \in 1..MaxRounds
                   PROVE  Leading(thread'[u], r) <=> u = t /\ r = s
        OBVIOUS
      <3>1. CASE u = t
        BY <1>7, <1>12, <2>1, <3>1, Moved DEF Leading
      <3>2. CASE u # t
        <4>1. thread'[u] = thread[u]
          BY <1>7, <2>1, <3>2, Moved
        <4>2. ~Leads(u, r)
          BY <1>8 DEF Known, RefreshInv, Alone
        <4> QED BY <3>2, <4>1, <4>2, LeadsIsLeading
      <3> QED BY <3>1, <3>2
    <2>3. \A u \in Threads : thread'[u].pc = "leave" => rounds'[thread'[u].round] \in {"ok", "error"}
      <3> SUFFICES ASSUME NEW u \in Threads, thread'[u].pc = "leave"
                   PROVE  rounds'[thread'[u].round] \in {"ok", "error"}
        OBVIOUS
      <3>1. thread'[u] = thread[u]
        BY <1>7, <1>12, <2>1, Moved
      <3>2. rounds[thread[u].round] \in {"ok", "error"} /\ thread[u].round \in 1..MaxRounds
        BY <3>1 DEF Known, RefreshInv, Alone, Coherent, At
      <3>3. rounds[s] = "none"
        BY <1>3, <1>4, <1>5
      <3> QED BY <1>14, <3>1, <3>2, <3>3
    <2>4. /\ \A u \in Threads, r \in 1..MaxRounds : Leading(thread'[u], r) => rounds'[r] = "running"
          /\ \A u, v \in Threads, r \in 1..MaxRounds :
               Leading(thread'[u], r) /\ Leading(thread'[v], r) => u = v
          /\ \E u \in Threads : Leading(thread'[u], current')
      BY <1>5, <1>14, <2>2
    <2> QED BY <2>3, <2>4 DEF OneLeader, At, Leads, Leading
  <1>17. OneWorker'
    BY <1>6, <1>7, <1>12, WorkUntouched
  <1>18. Fence' /\ SuccessIsStored'
    BY <1>6, <1>7, <1>12, StoresUntouched
  <1>19. MarkIsCurrent'
    <2>1. \A r \in 1..MaxRounds : rounds'[r] = "ok" => rounds[r] = "ok"
      BY <1>14
    <2> QED BY <1>6, <2>1 DEF Known, RefreshInv, MarkIsCurrent
  <1> QED BY <1>13, <1>15, <1>16, <1>17, <1>18, <1>19, Together

\* What a step that starts, ends or leaves a build, and touches nothing else, leaves alone.
LEMMA BuildStep ==
  ASSUME Known, NEW t, NEW q, Moves(t, q),
         UNCHANGED <<stores, roundVars, marks, refreshing>>,
         generation' \in Nat, generation <= generation', flight' <= generation',
         \A r \in 1..MaxRounds : Leading(q, r) <=> Leading(thread[t], r),
         t \in Workers => (q.pc = "idle" <=> At(t, "idle")),
         q.pc # "leave", ~(q.pc = "publish" /\ q.ok)
  PROVE  RoundsInOrder' /\ OneLeader' /\ OneWorker' /\ Fence' /\ SuccessIsStored' /\ MarkIsCurrent'
  <1>1. UNCHANGED <<memory, fresh, disk, committed, current, rounds, failed, failedRound, refreshing>>
    BY DEF stores, roundVars, marks
  <1>2. RoundsInOrder' /\ OneLeader'
    BY <1>1, RoundsUntouched
  <1>3. OneWorker'
    BY <1>1, WorkUntouched
  <1>4. Fence' /\ SuccessIsStored'
    BY <1>1, StoresUntouched
  <1>5. MarkIsCurrent'
    BY <1>1, MarksUntouched
  <1> QED BY <1>2, <1>3, <1>4, <1>5

LEMMA LeadBuildKeeps ==
  ASSUME Known, NEW t \in Threads, LeadBuild(t)
  PROVE  RefreshInv'
  <1>1. PICK g : g = generation + 1
    OBVIOUS
  <1>2. PICK q : q = [thread[t] EXCEPT !.pc = "building", !.gen = g]
    OBVIOUS
  <1>3. /\ thread[t].pc = "join" /\ ~InProgress
        /\ generation' = g /\ flight' = g
        /\ builds' = [builds EXCEPT ![g] = "running"]
        /\ attempt' = [gen |-> g, state |-> "running"]
        /\ thread' = [thread EXCEPT ![t] = q]
        /\ UNCHANGED <<stores, roundVars, marks, refreshing>>
    BY <1>1, <1>2 DEF LeadBuild, At
  <1>4. generation \in Nat /\ MaxBuilds \in Nat /\ flight <= generation
    BY Reading DEF Known, RefreshInv, Fence
  <1>5. q.pc = "building" /\ q.gen = g /\ q.op = thread[t].op /\ q.round = thread[t].round /\ q.ok = thread[t].ok
    BY <1>2, Reading DEF Records
  <1>6. PICK left : left = Cardinality(Coming)
    OBVIOUS
  <1>7. IsFiniteSet(Coming') /\ g + Cardinality(Coming') <= MaxBuilds /\ g \in 1..MaxBuilds /\ Moves(t, q)
    <2>1. Cardinality({t}) = 1 /\ IsFiniteSet({t})
      BY FS_Singleton
    <2>2. /\ IsFiniteSet(Coming) /\ {t} \subseteq Coming
          /\ generation + Cardinality(Coming) <= MaxBuilds
      BY <1>3 DEF Known, RefreshInv, BuildsInOrder, Coming
    <2>3. 1 <= Cardinality(Coming) /\ Cardinality(Coming) \in Nat
      BY <2>1, <2>2, FS_Subset, FS_CardinalityType
    <2>4. g \in 1..MaxBuilds
      BY <1>1, <1>4, <2>2, <2>3
    <2>5. g \in Generations /\ thread[t] \in Records
      BY <1>4, <2>4, Reading DEF Generations
    <2>6. Moves(t, q)
      <3>1. q \in Records
        BY <1>2, <2>5 DEF Records, Positions
      <3> QED BY <1>3, <3>1 DEF Moves
    <2>7. thread[t].pc \in {"begin", "join"} /\ q.pc \notin {"begin", "join"}
      BY <1>3, <1>5
    <2>8. /\ IsFiniteSet(Coming') /\ Cardinality(Coming') = Cardinality(Coming) - 1
          /\ Cardinality(Coming') \in Nat
      BY <2>6, <2>7, ComingLeaves
    <2> QED BY <1>1, <1>4, <2>2, <2>3, <2>4, <2>6, <2>8
  <1>8. \A s \in 1..MaxBuilds : builds'[s] = IF s = g THEN "running" ELSE builds[s]
    BY <1>3, <1>7, Reading DEF SharedTyped
  <1>9. \A u \in Threads : thread[u].pc # "building"
    <2> SUFFICES ASSUME NEW u \in Threads, thread[u].pc = "building" PROVE FALSE
      OBVIOUS
    <2>1. thread[u].gen # 0 /\ builds[thread[u].gen] = "running"
      BY DEF Known, RefreshInv, Coherent
    <2>2. flight = thread[u].gen
      BY DEF Known, RefreshInv, NothingIsOrphaned, At
    <2> QED BY <1>3, <2>1, <2>2 DEF InProgress
  <1>10. RefreshTypeOK'
    <2>1. SharedTyped
      BY Reading
    <2>2. generation' \in Generations /\ flight' \in Generations /\ attempt' \in Attempts
      BY <1>3, <1>4, <1>7 DEF Generations, Attempts
    <2>3. builds' \in [1..MaxBuilds -> {"none", "running", "error"} \cup Grades]
      BY <1>3, <2>1 DEF SharedTyped
    <2>4. SharedTyped'
      BY <1>3, <2>1, <2>2, <2>3 DEF SharedTyped, stores, roundVars, marks
    <2>5. thread' \in [Threads -> Records]
      BY <1>7, Moved DEF Known, RefreshInv
    <2> QED BY <2>4, <2>5 DEF RefreshTypeOK, SharedTyped, Attempts, Records, Calls
  <1>11. Coheres(t, q, generation', builds')
    BY <1>1, <1>3, <1>4, <1>5, <1>7, <1>8, Reading DEF Coheres
  <1>12. \A u \in Threads : Coheres(u, thread'[u], generation', builds')
    <2>1. generation' \in Nat /\ generation <= generation'
      BY <1>1, <1>3, <1>4
    <2>2. \A u \in Threads : u # t /\ At(u, "building") => builds'[thread[u].gen] = "running"
      BY <1>9 DEF At
    <2>3. \A u \in Threads : u # t /\ At(u, "built") => builds'[thread[u].gen] # "running"
      <3> SUFFICES ASSUME NEW u \in Threads, thread[u].pc = "built"
                   PROVE  builds'[thread[u].gen] # "running"
        BY DEF At
      <3>1. /\ thread[u].gen \in 1..MaxBuilds /\ thread[u].gen <= generation
            /\ builds[thread[u].gen] # "running"
        BY Reading DEF Coheres
      <3> QED BY <1>1, <1>4, <1>8, <3>1
    <2> QED BY <1>7, <1>11, <2>1, <2>2, <2>3, CoherentKeeps
  <1>13. \A u \in Threads : Coherent(u)'
    BY <1>12 DEF Coherent, Coheres
  <1>14. BuildsInOrder'
    <2>1. \A s \in 1..MaxBuilds : builds'[s] = "none" <=> s > generation'
      BY <1>1, <1>3, <1>4, <1>8, Reading
    <2> QED BY <1>3, <1>7, <2>1 DEF BuildsInOrder, Coming
  <1>15. OneBuilder'
    <2>1. \A u \in Threads : thread'[u].pc = "building" <=> u = t
      BY <1>5, <1>7, <1>9, Moved DEF Known, RefreshInv
    <2>2. thread'[t].gen = g
      BY <1>5, <1>7, Moved DEF Known, RefreshInv
    <2> QED BY <1>3, <2>1, <2>2 DEF OneBuilder, At
  <1>16. RoundsInOrder' /\ OneLeader' /\ OneWorker' /\ Fence' /\ SuccessIsStored' /\ MarkIsCurrent'
    <2>1. generation' \in Nat /\ generation <= generation' /\ flight' <= generation'
      BY <1>1, <1>3, <1>4
    <2>2. /\ \A r \in 1..MaxRounds : Leading(q, r) <=> Leading(thread[t], r)
          /\ t \in Workers => (q.pc = "idle" <=> At(t, "idle"))
          /\ q.pc # "leave" /\ ~(q.pc = "publish" /\ q.ok)
      BY <1>3, <1>5 DEF Leading, At
    <2> QED BY <1>3, <1>7, <2>1, <2>2, BuildStep
  <1> QED BY <1>10, <1>13, <1>14, <1>15, <1>16, Together

LEMMA EndBuildKeeps ==
  ASSUME Known, NEW t \in Threads, NEW outcome, EndBuild(t, outcome)
  PROVE  RefreshInv'
  <1>1. PICK g : g = thread[t].gen
    OBVIOUS
  <1>2. PICK q : q = [thread[t] EXCEPT !.pc = "built"]
    OBVIOUS
  <1>3. /\ thread[t].pc = "building"
        /\ outcome \in Grades \cup {"error"}
        /\ builds' = [builds EXCEPT ![g] = outcome]
        /\ thread' = [thread EXCEPT ![t] = q]
        /\ UNCHANGED <<stores, flight, generation, roundVars, marks, refreshing>>
    BY <1>1, <1>2 DEF EndBuild, At, Goto, Known, ReviewAssumption
  <1>4. g \in 1..MaxBuilds /\ g <= generation /\ builds[g] = "running" /\ flight = g
    BY <1>1, <1>3, Reading DEF Coheres, Known, RefreshInv, NothingIsOrphaned, At
  <1>5. generation \in Nat /\ MaxBuilds \in Nat /\ flight <= generation
    BY Reading DEF Known, RefreshInv, Fence
  <1>6. /\ q.pc = "built" /\ q.gen = g /\ q.op = thread[t].op /\ q.round = thread[t].round
        /\ q.ok = thread[t].ok /\ q \in Records
    BY <1>1, <1>2, Reading DEF Records, Positions
  <1>7. Moves(t, q) /\ IsFiniteSet(Coming') /\ generation + Cardinality(Coming') <= MaxBuilds
    <2>1. Moves(t, q) /\ (q.pc \in {"begin", "join"} => thread[t].pc \in {"begin", "join"})
      BY <1>3, <1>6 DEF Moves
    <2> QED BY <1>3, <2>1, ComingFits
  <1>8. \A s \in 1..MaxBuilds : builds'[s] = IF s = g THEN outcome ELSE builds[s]
    BY <1>3, <1>4, Reading DEF SharedTyped
  <1>9. outcome # "running" /\ outcome # "none"
    BY <1>3 DEF Grades, Normals, Partials
  <1>10. \A u \in Threads : u # t => thread[u].pc # "building"
    BY <1>3 DEF Known, RefreshInv, Alone, At
  <1>11. RefreshTypeOK'
    <2>1. SharedTyped
      BY Reading
    <2>2. attempt' \in Attempts
      BY <1>1, <1>4, <1>5, <2>1 DEF EndBuild, Finish, SharedTyped, Attempts, Generations
    <2>3. builds' \in [1..MaxBuilds -> {"none", "running", "error"} \cup Grades]
      BY <1>3, <2>1 DEF SharedTyped
    <2>4. SharedTyped'
      BY <1>3, <2>1, <2>2, <2>3 DEF SharedTyped, stores, roundVars, marks
    <2>5. thread' \in [Threads -> Records]
      BY <1>7, Moved DEF Known, RefreshInv
    <2> QED BY <2>4, <2>5 DEF RefreshTypeOK, SharedTyped, Attempts, Records, Calls
  <1>12. Coheres(t, q, generation', builds')
    BY <1>3, <1>4, <1>5, <1>6, <1>8, <1>9, Reading DEF Coheres
  <1>13. \A u \in Threads : Coheres(u, thread'[u], generation', builds')
    <2>1. generation' \in Nat /\ generation <= generation'
      BY <1>3, <1>5
    <2>2. \A u \in Threads : u # t /\ At(u, "building") => builds'[thread[u].gen] = "running"
      BY <1>10 DEF At
    <2>3. \A u \in Threads : u # t /\ At(u, "built") => builds'[thread[u].gen] # "running"
      <3> SUFFICES ASSUME NEW u \in Threads, thread[u].pc = "built"
                   PROVE  builds'[thread[u].gen] # "running"
        BY DEF At
      <3>1. thread[u].gen \in 1..MaxBuilds /\ builds[thread[u].gen] # "running"
        BY Reading DEF Coheres
      <3> QED BY <1>8, <1>9, <3>1
    <2> QED BY <1>7, <1>12, <2>1, <2>2, <2>3, CoherentKeeps
  <1>14. \A u \in Threads : Coherent(u)'
    BY <1>13 DEF Coherent, Coheres
  <1>15. BuildsInOrder'
    <2>1. \A s \in 1..MaxBuilds : builds'[s] = "none" <=> s > generation'
      BY <1>3, <1>4, <1>5, <1>8, <1>9, Reading
    <2> QED BY <1>3, <1>7, <2>1 DEF BuildsInOrder, Coming
  <1>16. OneBuilder'
    <2>1. \A u \in Threads : thread'[u].pc # "building"
      BY <1>6, <1>7, <1>10, Moved DEF Known, RefreshInv
    <2>2. ~InProgress'
      BY <1>3, <1>4, <1>8, <1>9 DEF InProgress
    <2> QED BY <2>1, <2>2 DEF OneBuilder, At
  <1>17. RoundsInOrder' /\ OneLeader' /\ OneWorker' /\ Fence' /\ SuccessIsStored' /\ MarkIsCurrent'
    <2>1. generation' \in Nat /\ generation <= generation' /\ flight' <= generation'
      BY <1>3, <1>5
    <2>2. /\ \A r \in 1..MaxRounds : Leading(q, r) <=> Leading(thread[t], r)
          /\ t \in Workers => (q.pc = "idle" <=> At(t, "idle"))
          /\ q.pc # "leave" /\ ~(q.pc = "publish" /\ q.ok)
      BY <1>3, <1>6 DEF Leading, At
    <2>3. UNCHANGED <<stores, roundVars, marks, refreshing>>
      BY <1>3
    <2> QED BY <1>7, <2>1, <2>2, <2>3, BuildStep
  <1> QED BY <1>11, <1>14, <1>15, <1>16, <1>17, Together
\* A thread that leaves the flight it led, with whatever record q it goes on.
LEMMA LeavingFlight ==
  ASSUME Known, NEW t \in Threads, LeaveFlight(t), NEW q, Quietly(t, q),
         ~(q.pc = "publish" /\ q.ok)
  PROVE  RefreshInv'
  <1>1. Moves(t, q) /\ (q.pc \in {"begin", "join"} => thread[t].pc \in {"begin", "join"})
    BY DEF Quietly
  <1>2. /\ thread[t].pc = "built" /\ builds[thread[t].gen] # "running"
        /\ UNCHANGED <<stores, generation, builds, roundVars, marks, refreshing, attempt>>
        /\ flight' = IF flight = thread[t].gen THEN 0 ELSE flight
    BY Reading DEF LeaveFlight, StillMine, At, Coheres
  <1>3. flight' = flight \/ (flight' = 0 /\ ~InProgress)
    BY <1>2 DEF InProgress
  <1>4. flight \in Generations /\ generation \in Nat /\ flight <= generation /\ MaxBuilds \in Nat
    BY Reading DEF SharedTyped, Known, RefreshInv, Fence
  <1>5. flight' \in Generations /\ flight' <= generation'
    BY <1>2, <1>4 DEF Generations
  <1>6. SharedTyped'
    <2>1. SharedTyped
      BY Reading
    <2> QED BY <1>2, <1>5, <2>1 DEF SharedTyped, stores, roundVars, marks
  <1>7. /\ Coheres(t, q, generation, builds) /\ ~At(t, "building") /\ q.pc # "building"
        /\ q.pc # "leave" /\ ~(q.pc = "publish" /\ q.ok)
        /\ \A r \in 1..MaxRounds : Leading(q, r) <=> Leading(thread[t], r)
        /\ t \in Workers => (q.pc = "idle" <=> At(t, "idle"))
    BY <1>2 DEF Quietly, At
  <1>8. IsFiniteSet(Coming') /\ generation + Cardinality(Coming') <= MaxBuilds
    BY <1>1, <1>2, ComingFits
  <1>9. UNCHANGED <<generation, builds>>
    BY <1>2
  <1>10. RefreshTypeOK' /\ (\A u \in Threads : Coherent(u)') /\ BuildsInOrder' /\ OneBuilder'
    BY <1>1, <1>3, <1>6, <1>7, <1>8, <1>9, BuildsUntouched
  <1>11. UNCHANGED <<stores, roundVars, marks, refreshing>> /\ generation' \in Nat /\ generation <= generation'
    BY <1>2, <1>4
  <1>12. RoundsInOrder' /\ OneLeader' /\ OneWorker' /\ Fence' /\ SuccessIsStored' /\ MarkIsCurrent'
    BY <1>1, <1>5, <1>7, <1>11, BuildStep
  <1> QED BY <1>10, <1>12, Together

LEMMA LeaveFlightKeeps ==
  ASSUME Known, NEW t \in Threads, LeaveFlight(t)
  PROVE  RefreshInv'
  <1>1. thread[t].pc = "built" /\ TakeResult(t)
    BY DEF LeaveFlight, At
  <1>2. builds[thread[t].gen] # "running"
    BY <1>1, Reads DEF Coheres
  <1>3. PICK q : Quietly(t, q) /\ ~(q.pc = "publish" /\ q.ok)
    BY <1>1, <1>2, TakenGoesOn
  <1> QED BY <1>3, LeavingFlight


\* A caller that stores what it built: what is stored moves to its package or stays, and the
\* caller reports a success only when memory and the file both hold it.
LEMMA CommitStep ==
  ASSUME Known, NEW t \in Threads, NEW q, Quietly(t, q),
         NEW new \in Reviews, thread[t].pc = "commit", new.gen = generation,
         committed' = new.gen,
         memory' \in {memory, new}, disk' \in {disk, new}, fresh' \in BOOLEAN,
         q.pc = "publish" /\ q.ok => memory' = new /\ disk' = new,
         UNCHANGED <<failed, failedRound>> \/ (failed' = FALSE /\ failedRound' = 0),
         UNCHANGED <<flightVars, roundVars, refreshing>>, attempt' \in Attempts
  PROVE  RefreshInv'
  <1>1. Moves(t, q) /\ (q.pc \in {"begin", "join"} => thread[t].pc \in {"begin", "join"})
    BY DEF Quietly
  <1>2. /\ UNCHANGED <<flight, generation, builds, rounds, current, refreshing>>
        /\ UNCHANGED generation
    BY DEF flightVars, roundVars
  <1>3. /\ generation \in Nat /\ committed \in Nat /\ flight \in Nat /\ MaxBuilds \in Nat /\ MaxRounds \in Nat
        /\ memory.gen \in Nat /\ disk.gen \in Nat
        /\ memory.gen <= committed /\ disk.gen <= committed /\ committed <= generation /\ flight <= generation
    BY Reading DEF SharedTyped, Generations, Reviews, NoReview, Known, RefreshInv, Fence
  <1>4. SharedTyped'
    <2>1. SharedTyped
      BY Reading
    <2>2. memory' \in {NoReview} \cup Reviews /\ disk' \in {NoReview} \cup Reviews
      BY <2>1 DEF SharedTyped
    <2>3. committed' \in Generations
      BY <2>1 DEF SharedTyped
    <2>4. failed' \in BOOLEAN
      BY <2>1 DEF SharedTyped
    <2>5. failedRound' \in 0..MaxRounds
      BY <1>3, <2>1 DEF SharedTyped
    <2> QED BY <1>2, <2>1, <2>2, <2>3, <2>4, <2>5 DEF SharedTyped
  <1>5. /\ Coheres(t, q, generation, builds) /\ ~At(t, "building") /\ q.pc # "building"
        /\ q.pc # "leave"
        /\ \A r \in 1..MaxRounds : Leading(q, r) <=> Leading(thread[t], r)
        /\ t \in Workers => (q.pc = "idle" <=> At(t, "idle"))
    BY DEF Quietly, At
  <1>6. IsFiniteSet(Coming') /\ generation + Cardinality(Coming') <= MaxBuilds
    BY <1>1, <1>2, ComingFits
  <1>7. RefreshTypeOK' /\ (\A u \in Threads : Coherent(u)') /\ BuildsInOrder' /\ OneBuilder'
    BY <1>1, <1>2, <1>4, <1>5, <1>6, BuildsUntouched
  <1>8. RoundsInOrder' /\ OneLeader'
    BY <1>1, <1>2, <1>5, RoundsUntouched
  <1>9. OneWorker'
    BY <1>1, <1>2, <1>5, WorkUntouched
  <1>10. /\ memory'.gen <= generation /\ disk'.gen <= generation
         /\ memory.gen <= memory'.gen /\ disk.gen <= disk'.gen
         /\ memory'.gen \in Nat /\ disk'.gen \in Nat
    BY <1>3
  <1>11. Fence'
    BY <1>2, <1>3, <1>10 DEF Fence
  <1>12. SuccessIsStored'
    <2>1. \A u \in Threads : thread'[u].pc = "publish" /\ thread'[u].ok =>
            memory'.gen >= thread'[u].gen /\ disk'.gen >= thread'[u].gen
      <3> SUFFICES ASSUME NEW u \in Threads, thread'[u].pc = "publish", thread'[u].ok
                   PROVE  memory'.gen >= thread'[u].gen /\ disk'.gen >= thread'[u].gen
        OBVIOUS
      <3>1. CASE u = t
        <4>1. thread'[u] = q /\ q.gen <= generation
          BY <1>1, <1>5, <3>1, Moved DEF Known, RefreshInv, Coheres
        <4>2. memory'.gen = generation /\ disk'.gen = generation /\ q.gen \in Nat
          BY <1>1, <4>1 DEF Moves, Records, Generations
        <4> QED BY <1>3, <4>1, <4>2
      <3>2. CASE u # t
        <4>1. thread'[u] = thread[u] /\ thread[u].gen \in Nat
          BY <1>1, <3>2, Moved DEF Known, RefreshInv, Records, Generations
        <4>2. memory.gen >= thread[u].gen /\ disk.gen >= thread[u].gen
          BY <4>1 DEF Known, RefreshInv, SuccessIsStored, At
        <4> QED BY <1>3, <1>10, <4>1, <4>2
      <3> QED BY <3>1, <3>2
    <2> QED BY <2>1 DEF SuccessIsStored, At
  <1>13. MarkIsCurrent'
    BY <1>2 DEF Known, RefreshInv, MarkIsCurrent
  <1> QED BY <1>7, <1>8, <1>9, <1>11, <1>12, <1>13, Together

LEMMA CommitReadKeeps ==
  ASSUME Known, NEW t \in Threads, CommitRead(t)
  PROVE  RefreshInv'
  <1>1. PICK new : new = Package(t)
    OBVIOUS
  <1>2. /\ thread[t].pc = "commit" /\ thread[t].op = "generate" /\ thread[t].grade \in Grades
        /\ new.gen = thread[t].gen /\ new.grade = thread[t].grade
        /\ new.gen = generation /\ committed' = new.gen
        /\ UNCHANGED <<flightVars, roundVars, refreshing>> /\ UNCHANGED <<failed, failedRound>>
        /\ thread' = [thread EXCEPT ![t] = Returned(t, new.grade)]
    BY <1>1, Reading DEF CommitRead, Package, StillNewest, At, Coheres, marks
  <1>3. attempt' \in Attempts
    <2>1. new.gen \in Generations /\ attempt \in Attempts
      BY <1>2, Reading DEF Records, SharedTyped
    <2> QED BY <1>1, <2>1 DEF CommitRead, Finish, Attempts
  <1>4. \/ new \in Reviews /\ memory' = new /\ fresh' \in BOOLEAN /\ disk' \in {disk, new}
        \/ UNCHANGED <<memory, fresh, disk>>
    <2>1. CASE ReplacesMemory(new)
      <3>1. new \in Reviews
        <4>1. new.grade \in Normals \cup Partials
          BY <1>2, <2>1 DEF ReplacesMemory, Persistable, Grades
        <4>2. new.gen \in Generations
          BY <1>2, Reading DEF Records
        <4> QED BY <1>1, <4>1, <4>2 DEF Package, Reviews
      <3> QED BY <1>1, <2>1, <3>1 DEF CommitRead, StoreOnRead
    <2>2. CASE ~ReplacesMemory(new)
      BY <1>1, <2>2 DEF CommitRead, StoreOnRead
    <2> QED BY <2>1, <2>2
  <1>5. Quietly(t, Returned(t, new.grade)) /\ Returned(t, new.grade).pc \in {"judge", "idle"}
    BY <1>2, ReturnedGoesOn
  <1>6. PICK q : Quietly(t, q) /\ ~(q.pc = "publish" /\ q.ok)
    BY <1>5
  <1>7. CASE new \in Reviews /\ memory' = new /\ fresh' \in BOOLEAN /\ disk' \in {disk, new}
    BY <1>2, <1>3, <1>6, <1>7, CommitStep
  <1>8. CASE UNCHANGED <<memory, fresh, disk>>
    <2>1. PICK kept : kept = [gen |-> new.gen, grade |-> "normal"]
      OBVIOUS
    <2>2. kept \in Reviews /\ kept.gen = generation /\ committed' = kept.gen
      BY <1>2, <2>1, Reading DEF Reviews, Normals, Records
    <2>3. /\ memory' \in {memory, kept} /\ disk' \in {disk, kept}
          /\ q.pc = "publish" /\ q.ok => memory' = kept /\ disk' = kept
      BY <1>6, <1>8
    <2>4. fresh' \in BOOLEAN
      BY <1>8, Reading DEF SharedTyped
    <2> QED BY <1>2, <1>3, <1>6, <2>2, <2>3, <2>4, CommitStep
  <1> QED BY <1>4, <1>7, <1>8

LEMMA CommitRefreshKeeps ==
  ASSUME Known, NEW t \in Threads, CommitRefresh(t)
  PROVE  RefreshInv'
  <1>1. PICK new : new = Package(t)
    OBVIOUS
  <1>2. /\ thread[t].pc = "commit" /\ thread[t].op = "explicit" /\ thread[t].grade \in Grades
        /\ new.gen = thread[t].gen /\ new.grade = thread[t].grade
        /\ new.gen = generation /\ committed' = new.gen
        /\ disk' = new /\ memory' = new /\ fresh' \in BOOLEAN
        /\ UNCHANGED <<flightVars, roundVars, refreshing>>
        /\ t \notin Workers
    BY <1>1, Reading DEF CommitRefresh, Package, Superseded, StoreOnRefresh, At, Coheres
  <1>3. attempt' \in Attempts
    <2>1. new.gen \in Generations /\ attempt \in Attempts
      BY <1>2, Reading DEF Records, SharedTyped
    <2> QED BY <1>1, <2>1 DEF CommitRefresh, Finish, Attempts
  <1>4. new \in Reviews
    <2>1. new.grade \in Normals \cup Partials
      BY <1>1, <1>2 DEF CommitRefresh, Accepted, Persistable, Grades
    <2>2. new.gen \in Generations
      BY <1>2, Reading DEF Records
    <2> QED BY <1>1, <2>1, <2>2 DEF Package, Reviews
  <1>5. UNCHANGED <<failed, failedRound>> \/ (failed' = FALSE /\ failedRound' = 0)
    BY DEF CommitRefresh, ClearFailure, marks
  <1>6. \E q : Quietly(t, q)
    <2>1. CASE fresh'
      <3>1. PICK q : q = [thread[t] EXCEPT !.pc = "publish", !.ok = TRUE]
        OBVIOUS
      <3>2. "publish" \in Positions
        BY DEF Positions
      <3>3. /\ q \in Records /\ q.pc = "publish"
            /\ q.op = thread[t].op /\ q.gen = thread[t].gen /\ q.round = thread[t].round
        BY <3>1, <3>2, ReadsRecord DEF Records
      <3>4. thread' = [thread EXCEPT ![t] = q]
        BY <2>1, <3>1 DEF CommitRefresh
      <3> QED BY <1>2, <3>3, <3>4, GoesOn
    <2>2. CASE ~fresh'
      <3>1. Goto(t, "publish")
        BY <2>2 DEF CommitRefresh
      <3> QED BY <1>2, <3>1, PublishGoesOn
    <2> QED BY <2>1, <2>2
  <1>7. PICK q : Quietly(t, q)
    BY <1>6
  <1> QED BY <1>2, <1>3, <1>4, <1>5, <1>7, CommitStep

LEMMA ExpireReviewKeeps ==
  ASSUME Known, ExpireReview
  PROVE  RefreshInv'
  <1>1. /\ UNCHANGED <<memory, disk, committed, flight, generation, builds, current, rounds,
                       failed, failedRound, refreshing, attempt, thread>>
        /\ fresh' \in BOOLEAN
    BY DEF ExpireReview, flightVars, roundVars, marks
  <1>2. RefreshTypeOK'
    BY <1>1 DEF Known, RefreshInv, RefreshTypeOK
  <1>3. \A u \in Threads : Coherent(u)'
    BY <1>1, Zenon DEF Known, RefreshInv, Coherent
  <1>4. Fence' /\ BuildsInOrder' /\ RoundsInOrder' /\ MarkIsCurrent'
    BY <1>1 DEF Known, RefreshInv, Fence, BuildsInOrder, RoundsInOrder, MarkIsCurrent
  <1>5. SuccessIsStored'
    BY <1>1 DEF Known, RefreshInv, SuccessIsStored, At, Threads
  <1>6. Alone' /\ NothingIsOrphaned'
    BY <1>1 DEF Known, RefreshInv, Alone, NothingIsOrphaned, InProgress, Running, Leads, At, Threads
  <1> QED BY <1>2, <1>3, <1>4, <1>5, <1>6 DEF RefreshInv

LEMMA RefreshStarts ==
  ASSUME ReviewAssumption, RefreshInit
  PROVE  RefreshInv
  <1>1. /\ thread = [t \in Threads |-> IdleThread]
        /\ memory = NoReview /\ fresh = FALSE
        /\ flight = 0 /\ generation = 0 /\ committed = 0 /\ current = 0
        /\ builds = [g \in 1..MaxBuilds |-> "none"]
        /\ rounds = [r \in 1..MaxRounds |-> "none"]
        /\ failed = FALSE /\ failedRound = 0 /\ refreshing = FALSE
        /\ attempt = [gen |-> 0, state |-> "none"]
    BY DEF RefreshInit
  <1>2. MaxBuilds \in Nat /\ MaxRounds \in Nat
    BY DEF ReviewAssumption
  <1>3. disk \in {NoReview} \cup Reviews /\ disk.gen = 0
    <2>1. CASE disk = NoReview
      BY <2>1 DEF NoReview
    <2>2. CASE disk \in [gen : {0}, grade : Outcomes \ {"unusable"}]
      BY <1>2, <2>2 DEF Reviews, Generations, ReviewAssumption, Grades
    <2> QED BY <2>1, <2>2 DEF RefreshInit
  <1>4. \A t \in Threads : thread[t] = IdleThread
    BY <1>1
  <1>5. IdleThread \in Records
    BY <1>2 DEF IdleThread, Records, Calls, Positions, Generations
  <1>6. RefreshTypeOK
    <2>1. thread \in [Threads -> Records]
      BY <1>1, <1>5
    <2>2. attempt \in Attempts /\ 0 \in Generations /\ 0 \in 0..MaxRounds
      BY <1>1, <1>2 DEF Attempts, Generations
    <2>3. /\ builds \in [1..MaxBuilds -> {"none", "running", "error"} \cup Grades]
          /\ rounds \in [1..MaxRounds -> {"none", "running", "ok", "error"}]
      BY <1>1
    <2>4. SharedTyped
      BY <1>1, <1>3, <2>2, <2>3 DEF SharedTyped
    <2> QED BY <2>1, <2>4, TypeSplit
  <1>7. \A t \in Threads : Coherent(t)
    BY <1>1, <1>4 DEF Coherent, IdleThread
  <1>8. Fence
    BY <1>1, <1>3 DEF Fence, NoReview
  <1>9. BuildsInOrder
    <2>1. Coming = {}
      BY <1>4 DEF IdleThread, Coming
    <2>2. IsFiniteSet({}) /\ Cardinality({}) = 0
      BY FS_EmptySet
    <2>3. \A g \in 1..MaxBuilds : builds[g] = "none" /\ g > generation
      BY <1>1, <1>2
    <2>4. IsFiniteSet(Coming) /\ generation + Cardinality(Coming) <= MaxBuilds
      BY <1>1, <1>2, <2>1, <2>2
    <2> QED BY <2>3, <2>4 DEF BuildsInOrder, Coming
  <1>10. RoundsInOrder
    <2>1. \A r \in 1..MaxRounds : rounds[r] = "none" /\ r > 0
      BY <1>1, <1>2
    <2>2. 0 \in 0..MaxRounds
      BY <1>2
    <2> QED BY <2>1, <2>2 DEF RoundsInOrder
  <1>11. \A t \in Threads : At(t, "idle") /\ (\A r : ~Leads(t, r))
    BY <1>4 DEF IdleThread, At, Leads
  <1>12. ~InProgress /\ ~Running(current)
    BY <1>1 DEF InProgress, Running
  <1>13. Alone /\ NothingIsOrphaned
    BY <1>1, <1>11, <1>12 DEF Alone, NothingIsOrphaned, At, Threads
  <1>14. SuccessIsStored /\ MarkIsCurrent
    BY <1>1, <1>11 DEF SuccessIsStored, MarkIsCurrent, At
  <1> QED BY <1>6, <1>7, <1>8, <1>9, <1>10, <1>13, <1>14 DEF RefreshInv

LEMMA RefreshStep ==
  ASSUME Known, [RefreshNext]_refreshVars
  PROVE  RefreshInv'
  <1>1. CASE UNCHANGED refreshVars
    <2>1. UNCHANGED <<memory, fresh, disk, committed, flight, generation, builds, current, rounds,
                      failed, failedRound, refreshing, attempt, thread>>
      BY <1>1 DEF refreshVars, stores, flightVars, roundVars, marks
    <2>2. RefreshTypeOK'
      BY <2>1 DEF Known, RefreshInv, RefreshTypeOK
    <2>3. \A u \in Threads : Coherent(u)'
      BY <2>1, Zenon DEF Known, RefreshInv, Coherent
    <2>4. Fence' /\ BuildsInOrder' /\ RoundsInOrder' /\ MarkIsCurrent'
      BY <2>1 DEF Known, RefreshInv, Fence, BuildsInOrder, RoundsInOrder, MarkIsCurrent
    <2>5. SuccessIsStored'
      BY <2>1 DEF Known, RefreshInv, SuccessIsStored, At, Threads
    <2>6. Alone' /\ NothingIsOrphaned'
      BY <2>1 DEF Known, RefreshInv, Alone, NothingIsOrphaned, InProgress, Running, Leads, At,
         Threads
    <2> QED BY <2>2, <2>3, <2>4, <2>5, <2>6 DEF RefreshInv
  <1>2. CASE ExpireReview
    BY <1>2, ExpireReviewKeeps
  <1>3. ASSUME NEW t \in Threads,
               \/ Generate(t) \/ KickBackgroundRefresh(t) \/ JoinRound(t) \/ LeadRound(t)
               \/ Proceed(t)
               \/ TimeOutOnBuild(t) \/ TimeOutOnRound(t)
        PROVE  RefreshInv'
    <2>1. CASE Generate(t) BY <2>1, GenerateKeeps
    <2>2. CASE KickBackgroundRefresh(t) BY <2>2, KickBackgroundRefreshKeeps
    <2>3. CASE JoinRound(t) BY <2>3, JoinRoundKeeps
    <2>4. CASE LeadRound(t) BY <2>4, LeadRoundKeeps
    <2>5. CASE TimeOutOnBuild(t) BY <2>5, TimeOutOnBuildKeeps
    <2>6. CASE TimeOutOnRound(t) BY <2>6, TimeOutOnRoundKeeps
    <2>7. CASE BeginWork(t) BY <2>7, BeginWorkKeeps
    <2>8. CASE LeadBuild(t) BY <2>8, LeadBuildKeeps
    <2>9. CASE ShareBuild(t) BY <2>9, ShareBuildKeeps
    <2>10. ASSUME NEW outcome, EndBuild(t, outcome) PROVE RefreshInv'
      BY <2>10, EndBuildKeeps
    <2>11. CASE LeaveFlight(t) BY <2>11, LeaveFlightKeeps
    <2>12. CASE WakeFromBuild(t) BY <2>12, WakeFromBuildKeeps
    <2>13. CASE CommitRead(t) BY <2>13, CommitReadKeeps
    <2>14. CASE SkipCommit(t) BY <2>14, SkipCommitKeeps
    <2>15. CASE RefuseRefresh(t) BY <2>15, RefuseRefreshKeeps
    <2>16. CASE FailToPersist(t) BY <2>16, FailToPersistKeeps
    <2>17. CASE CommitRefresh(t) BY <2>17, CommitRefreshKeeps
    <2>18. CASE PublishRound(t) BY <2>18, PublishRoundKeeps
    <2>19. CASE LeaveRound(t) BY <2>19, LeaveRoundKeeps
    <2>20. CASE WakeFromRound(t) BY <2>20, WakeFromRoundKeeps
    <2>21. CASE GiveUpOnRound(t) BY <2>21, GiveUpOnRoundKeeps
    <2>22. CASE JudgeWork(t) BY <2>22, JudgeWorkKeeps
    <2>23. CASE MarkWork(t) BY <2>23, MarkWorkKeeps
    <2>24. CASE EndWork(t) BY <2>24, EndWorkKeeps
    <2> QED
      BY <1>3, <2>1, <2>2, <2>3, <2>4, <2>5, <2>6, <2>7, <2>8, <2>9, <2>10, <2>11, <2>12, <2>13,
         <2>14, <2>15, <2>16, <2>17, <2>18, <2>19, <2>20, <2>21, <2>22, <2>23, <2>24 DEF Proceed
  <1> QED BY <1>1, <1>2, <1>3 DEF RefreshNext

\* Only the two commits store, and each stores the newest build's package.
LEMMA StoresNeverGoBack ==
  ASSUME Known, [RefreshNext]_refreshVars
  PROVE  memory'.gen >= memory.gen /\ disk'.gen >= disk.gen
  <1>1. /\ memory.gen \in Nat /\ disk.gen \in Nat /\ committed \in Nat /\ generation \in Nat
        /\ memory.gen <= committed /\ disk.gen <= committed /\ committed <= generation
    BY DEF Known, RefreshInv, RefreshTypeOK, Fence, Reviews, NoReview, Generations, ReviewAssumption
  <1>2. CASE UNCHANGED <<memory, disk>>
    BY <1>1, <1>2
  <1>3. ASSUME NEW t \in Threads, CommitRead(t) PROVE memory'.gen >= memory.gen /\ disk'.gen >= disk.gen
    <2>1. PICK new : new = Package(t)
      OBVIOUS
    <2>2. new.gen = generation
      BY <1>3, <2>1 DEF CommitRead, Package, StillNewest
    <2>3. memory' \in {memory, new} /\ disk' \in {disk, new}
      <3>1. CASE ReplacesMemory(new)
        BY <1>3, <2>1, <3>1 DEF CommitRead, StoreOnRead
      <3>2. CASE ~ReplacesMemory(new)
        BY <1>3, <2>1, <3>2 DEF CommitRead, StoreOnRead
      <3> QED BY <3>1, <3>2
    <2> QED BY <1>1, <2>2, <2>3
  <1>4. ASSUME NEW t \in Threads, CommitRefresh(t) PROVE memory'.gen >= memory.gen /\ disk'.gen >= disk.gen
    <2>1. PICK new : new = Package(t)
      OBVIOUS
    <2>2. new.gen = generation /\ memory' = new /\ disk' = new
      BY <1>4, <2>1 DEF CommitRefresh, Package, Superseded, StoreOnRefresh
    <2> QED BY <1>1, <2>2
  <1>5. ASSUME NEW t \in Threads, Proceed(t), ~CommitRead(t), ~CommitRefresh(t)
        PROVE  UNCHANGED <<memory, disk>>
    BY <1>5 DEF Proceed, BeginWork, LeadBuild, ShareBuild, EndBuild, LeaveFlight, WakeFromBuild,
       SkipCommit,
         RefuseRefresh, FailToPersist, PublishRound, LeaveRound, WakeFromRound, GiveUpOnRound,
         JudgeWork, MarkWork, EndWork, stores
  <1>6. ASSUME NEW t \in Threads,
               \/ Generate(t) \/ KickBackgroundRefresh(t) \/ JoinRound(t) \/ LeadRound(t)
               \/ TimeOutOnBuild(t) \/ TimeOutOnRound(t)
        PROVE  UNCHANGED <<memory, disk>>
    BY <1>6 DEF Generate, KickBackgroundRefresh, JoinRound, LeadRound, TimeOutOnBuild,
       TimeOutOnRound, stores
  <1>7. CASE UNCHANGED refreshVars
    BY <1>2, <1>7 DEF refreshVars, stores
  <1>8. CASE ExpireReview
    BY <1>2, <1>8 DEF ExpireReview
  <1>9. ASSUME NEW t \in Threads, Proceed(t) PROVE memory'.gen >= memory.gen /\ disk'.gen >= disk.gen
    BY <1>2, <1>3, <1>4, <1>5, <1>9
  <1>10. CASE RefreshNext
    BY <1>2, <1>6, <1>8, <1>9, <1>10 DEF RefreshNext
  <1> QED BY <1>7, <1>10

\* The inductive invariant holds in every reachable state.
THEOREM RefreshInvariant == RefreshSpec => []RefreshInv
  <1>1. RefreshInit => RefreshInv
    BY RefreshStarts, ReviewAssumption
  <1>2. RefreshInv /\ [RefreshNext]_refreshVars => RefreshInv'
    BY RefreshStep, ReviewAssumption DEF Known
  <1> QED BY <1>1, <1>2, PTL DEF RefreshSpec

\* A package never gives way to one an older build made, however late its caller comes to store
\* it (daily_review.py:978 and 1052), for any number of callers and builds.
THEOREM NewestReviewWins == RefreshSpec => NewestWins
  <1>1. RefreshInv /\ [RefreshNext]_refreshVars => [memory'.gen >= memory.gen /\ disk'.gen >= disk.gen]_refreshVars
    BY StoresNeverGoBack, ReviewAssumption DEF Known
  <1> QED BY <1>1, RefreshInvariant, PTL DEF RefreshSpec, NewestWins

\* A round that tells its callers it succeeded has its package, or a newer one, in memory and in
\* the file (daily_review.py:548).
THEOREM SuccessfulRefreshIsStored == RefreshSpec => []SuccessIsStored
  <1>1. RefreshInv => SuccessIsStored
    BY DEF RefreshInv
  <1> QED BY <1>1, RefreshInvariant, PTL

\* A failure mark never outlives a later success, whatever waiters time out
\* (daily_review.py:1111 and 1120), for any number of waiters and rounds.
THEOREM FailureMarkIsCurrent == RefreshSpec => []MarkIsCurrent
  <1>1. RefreshInv => MarkIsCurrent
    BY DEF RefreshInv
  <1> QED BY <1>1, RefreshInvariant, PTL

\* A flight, a round and a background refresh in progress have a thread at work
\* (daily_review.py:609 and 949).
THEOREM WorkIsNeverOrphaned == RefreshSpec => []NothingIsOrphaned
  <1>1. RefreshInv => NothingIsOrphaned
    BY DEF RefreshInv
  <1> QED BY <1>1, RefreshInvariant, PTL
================================================================================
