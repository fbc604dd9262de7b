--------------------------- MODULE ImapIdleProofs ---------------------------
(***************************************************************************)
(* Theorems about ImapIdle, for every set of jobs and callers, with and    *)
(* without IDLE on the server, and however often the network changes.      *)
(***************************************************************************)
EXTENDS ImapIdle, TLAPS

LEMMA InitIInv == Init => IInv
<1> SUFFICES ASSUME Init PROVE IInv
  OBVIOUS
<1> USE ConstantsAssumption DEF Init
<1>1. TypeOK
  <2>1. Out \in CallerState
    BY DEF CallerState, Out
  <2>2. QED
    BY <2>1 DEF TypeOK, ImapState, FakeIdle
<1>2. IdleStartsWithNothingPending /\ PipeBelongsToStream /\ UnseenIsInTable
  BY DEF IdleStartsWithNothingPending, PipeBelongsToStream, UnseenIsInTable
<1>3. QED
  BY <1>1, <1>2 DEF IInv

(* The connection: whatever happens to it, bytes in the pipe belong to it. *)
LEMMA HandleSteps ==
  ASSUME TypeOK, PipeBelongsToStream, SetupHandle \/ ConnectToImap \/ StreamError
  PROVE  /\ connected' \in {0, 1} /\ stream' \in {"none", "open", "idling"}
         /\ pipe' \in Nat /\ reconnect' \in {0, 1}
         /\ PipeBelongsToStream'
<1> USE DEF TypeOK, PipeBelongsToStream, handle
<1>1. CASE SetupHandle
  BY <1>1 DEF SetupHandle, SetupStream
<1>2. CASE ConnectToImap
  BY <1>2 DEF ConnectToImap
<1>3. CASE StreamError
  BY <1>3 DEF StreamError, SetupStream
<1>4. QED
  BY <1>1, <1>2, <1>3

(* The IMAP thread between two idles.                                      *)
LEMMA WorkStepIInv ==
  ASSUME IInv,
         \/ PerformJobs \/ SelectJobs \/ EndPass \/ Fetch \/ CheckNeeded
         \/ \E j \in Jobs : FinishJob(j)
  PROVE  IInv'
<1> USE DEF IInv, TypeOK, ImapState, FakeIdle, handle, table, net,
        IdleStartsWithNothingPending, UnseenIsInTable, BeforeFlag
<1>1. CASE PerformJobs
  BY <1>1 DEF PerformJobs, PipeBelongsToStream
<1>2. CASE SelectJobs
  BY <1>2 DEF SelectJobs, PipeBelongsToStream
<1>3. CASE EndPass
  BY <1>3 DEF EndPass, PipeBelongsToStream
<1>4. CASE Fetch
  <2>1. CASE SetupHandle \/ ConnectToImap \/ StreamError
    BY <1>4, <2>1, HandleSteps DEF Fetch
  <2>2. CASE stream' = "open" /\ pipe' = 0 /\ reconnect' = 0 /\ connected' = connected
    BY <1>4, <2>2 DEF Fetch, PipeBelongsToStream
  <2>3. QED
    BY <1>4, <2>1, <2>2 DEF Fetch
<1>5. CASE CheckNeeded
  BY <1>5, HandleSteps DEF CheckNeeded
<1>6. ASSUME NEW j \in Jobs, FinishJob(j)
      PROVE  IInv'
  BY <1>6 DEF FinishJob, PipeBelongsToStream
<1>7. QED
  BY <1>1, <1>2, <1>3, <1>4, <1>5, <1>6

(* The IMAP thread in its idle.                                            *)
LEMMA IdleStepIInv ==
  ASSUME IInv,
         \/ StartIdle \/ SetupIdle \/ StartCommand
         \/ RealIdleInterrupted \/ RealIdleError \/ RealIdleData \/ IdleTimeout
         \/ FakeTop \/ FakeWoken \/ FakeFetch
  PROVE  IInv'
<1> USE DEF IInv, TypeOK, ImapState, FakeIdle, handle, table, net,
        IdleStartsWithNothingPending, UnseenIsInTable, BeforeFlag
<1>1. CASE StartIdle
  <2>1. CASE SetupHandle
    BY <1>1, <2>1, HandleSteps DEF StartIdle
  <2>2. CASE UNCHANGED handle
    BY <1>1, <2>2 DEF StartIdle, PipeBelongsToStream
  <2>3. QED
    BY <1>1, <2>1, <2>2 DEF StartIdle
<1>2. CASE SetupIdle
  BY <1>2 DEF SetupIdle, PipeBelongsToStream
<1>3. CASE StartCommand
  BY <1>3 DEF StartCommand, PipeBelongsToStream
<1>4. CASE RealIdleInterrupted \/ RealIdleError \/ RealIdleData
  BY <1>4 DEF RealIdleInterrupted, RealIdleError, RealIdleData, PipeBelongsToStream
<1>5. CASE IdleTimeout
  BY <1>5 DEF IdleTimeout, RealIdleTimeout, FakeTimeout, PipeBelongsToStream
<1>6. CASE FakeTop \/ FakeWoken
  BY <1>6 DEF FakeTop, FakeWoken, PipeBelongsToStream
<1>7. CASE FakeFetch
  BY <1>7, HandleSteps DEF FakeFetch
<1>8. QED
  BY <1>1, <1>2, <1>3, <1>4, <1>5, <1>6, <1>7

(* The three steps of an interrupt, and the insert before it.              *)
LEMMA CallerStepIInv ==
  ASSUME IInv, NEW c \in Callers,
         Interrupt(c) \/ \E j \in Jobs : InsertJob(c, j)
  PROVE  IInv'
<1> USE DEF IInv, TypeOK, ImapState, FakeIdle, handle, table, net, UnseenIsInTable
<1>1. ASSUME NEW j \in Jobs, InsertJob(c, j)
      PROVE  IInv'
  <2>1. caller' \in [Callers -> CallerState]
    BY <1>1 DEF InsertJob, CallerState
  <2>2. BeforeFlag \cup {j} \subseteq BeforeFlag'
    <3>1. caller'[c].at = "flag" /\ caller'[c].job = j
      BY <1>1 DEF InsertJob
    <3>2. \A d \in Callers \ {c} : caller'[d] = caller[d]
      BY <1>1 DEF InsertJob
    <3>3. caller[c].at # "flag"
      BY <1>1 DEF InsertJob, Out
    <3>4. QED
      BY <3>1, <3>2, <3>3 DEF BeforeFlag
  <2>3. IdleStartsWithNothingPending'
    BY <1>1, <2>2 DEF InsertJob, IdleStartsWithNothingPending
  <2>4. QED
    BY <1>1, <2>1, <2>3 DEF InsertJob, PipeBelongsToStream
<1>2. CASE SetNeeded(c)
  <2>1. caller' \in [Callers -> CallerState]
    BY <1>2 DEF SetNeeded, CallerState
  <2>2. QED
    BY <1>2, <2>1 DEF SetNeeded, PipeBelongsToStream, IdleStartsWithNothingPending
<1>3. ASSUME NEW a \in {"signal", "out"},
             caller[c].at \in {"pipe", "signal"},
             caller' = [caller EXCEPT ![c].at = a] \/ caller' = [caller EXCEPT ![c] = Out],
             UNCHANGED <<imap, needed, table>>
      PROVE  caller' \in [Callers -> CallerState] /\ IdleStartsWithNothingPending'
  <2>1. caller' \in [Callers -> CallerState]
    BY <1>3, ConstantsAssumption DEF CallerState, Out
  <2>2. BeforeFlag \subseteq BeforeFlag'
    <3>1. \A d \in Callers \ {c} : caller'[d] = caller[d]
      BY <1>3
    <3>2. QED
      BY <1>3, <3>1 DEF BeforeFlag
  <2>3. QED
    BY <1>3, <2>1, <2>2 DEF IdleStartsWithNothingPending
<1>4. CASE WritePipe(c)
  <2>1. caller' \in [Callers -> CallerState] /\ IdleStartsWithNothingPending'
    BY <1>3, <1>4 DEF WritePipe
  <2>2. QED
    BY <1>4, <2>1 DEF WritePipe, PipeBelongsToStream, CanIdle
<1>5. CASE SignalWatch(c)
  <2>1. caller' \in [Callers -> CallerState] /\ IdleStartsWithNothingPending'
    BY <1>3, <1>5 DEF SignalWatch
  <2>2. QED
    BY <1>5, <2>1 DEF SignalWatch, PipeBelongsToStream
<1>6. QED
  BY <1>1, <1>2, <1>4, <1>5 DEF Interrupt

LEMMA NextIInv == IInv /\ [Next]_vars => IInv'
<1> SUFFICES ASSUME IInv, [Next]_vars PROVE IInv'
  OBVIOUS
<1>1. CASE NetChange
  BY <1>1, ConstantsAssumption DEF NetChange, IInv, TypeOK, handle, table, PipeBelongsToStream,
     IdleStartsWithNothingPending, UnseenIsInTable, BeforeFlag
<1>2. CASE UNCHANGED vars
  BY <1>2 DEF vars, handle, table, net, IInv, TypeOK, PipeBelongsToStream,
     IdleStartsWithNothingPending, UnseenIsInTable, BeforeFlag
<1>3. CASE Next /\ ~NetChange
  BY <1>3, WorkStepIInv, IdleStepIInv, CallerStepIInv DEF Next, ImapStep
<1>4. QED
  BY <1>1, <1>2, <1>3

THEOREM SpecIInv == Spec => []IInv
  BY InitIInv, NextIInv, PTL DEF Spec

(* No idle is begun over a job that was announced before the check.        *)
THEOREM NothingPendingAtIdle == Spec => []IdleStartsWithNothingPending
<1>1. IInv => IdleStartsWithNothingPending
  BY DEF IInv
<1>2. QED
  BY SpecIInv, <1>1, PTL

(* An interrupt never writes to a pipe that does not belong to a stream.   *)
THEOREM PipeIsOfStream == Spec => []PipeBelongsToStream
<1>1. IInv => PipeBelongsToStream
  BY DEF IInv
<1>2. QED
  BY SpecIInv, <1>1, PTL

(* Every variable stays in its type.                                       *)
THEOREM TypeCorrect == Spec => []TypeOK
<1>1. IInv => TypeOK
  BY DEF IInv
<1>2. QED
  BY SpecIInv, <1>1, PTL
=============================================================================
