--------------------------- MODULE SmtpIdleProofs ---------------------------
(***************************************************************************)
(* Theorems about SmtpIdle, for every set of jobs and callers and every    *)
(* number of exclusive jobs.                                               *)
(***************************************************************************)
EXTENDS SmtpIdle, TLAPS

(* The flags are zeroed and the threads are outside their critical         *)
(* sections when dc_context_new() returns.                                 *)
LEMMA InitIInv == Init => IInv
<1> SUFFICES ASSUME Init PROVE IInv
  OBVIOUS
<1> USE ConstantsAssumption DEF Init
<1>1. TypeOK
  BY DEF TypeOK, SmtpState, ImapState, AtOnce, AvoidDos
<1>2. FlagsMatchThreads /\ MissedJobIsSignalled /\ CursorIsFresh
  BY DEF FlagsMatchThreads, MissedJobIsSignalled, CursorIsFresh
<1>3. QED
  BY <1>1, <1>2 DEF IInv

(* A step of the SMTP thread preserves the inductive invariant.            *)
LEMMA SmtpStepIInv ==
  ASSUME IInv, SmtpStep \/ IdleTimeout
  PROVE  IInv'
<1> USE DEF IInv, TypeOK, SmtpState, ImapState, AtOnce, AvoidDos, flags, table,
        FlagsMatchThreads, MissedJobIsSignalled, CursorIsFresh, BeingAdded
<1>1. CASE PerformJobs
  BY <1>1 DEF PerformJobs
<1>2. CASE SelectJobs
  BY <1>2 DEF SelectJobs
<1>3. CASE EndPass
  BY <1>3 DEF EndPass
<1>4. ASSUME NEW j \in Jobs, FinishJob(j)
      PROVE  IInv'
  BY <1>4 DEF FinishJob
<1>5. ASSUME NEW j \in Jobs, RetryJob(j)
      PROVE  IInv'
  BY <1>5 DEF RetryJob
<1>6. CASE SkipIdle
  BY <1>6 DEF SkipIdle
<1>7. CASE EnterIdle
  BY <1>7 DEF EnterIdle, LeaveIdle, StartSpinning
<1>8. CASE WakeUp
  BY <1>8 DEF WakeUp, LeaveIdle, StartSpinning
<1>9. CASE IdleTimeout
  BY <1>9 DEF IdleTimeout, LeaveIdle
<1>10. CASE Spin
  BY <1>10 DEF Spin, vars
<1>11. QED
  BY <1>1, <1>2, <1>3, <1>4, <1>5, <1>6, <1>7, <1>8, <1>9, <1>10 DEF SmtpStep

(* So does a step of the IMAP thread around its exclusive job.             *)
LEMMA ImapStepIInv ==
  ASSUME IInv, ImapStep \/ StartExclusive
  PROVE  IInv'
<1> USE ConstantsAssumption
    DEF IInv, TypeOK, SmtpState, ImapState, AtOnce, AvoidDos, flags, table,
        FlagsMatchThreads, MissedJobIsSignalled, CursorIsFresh, BeingAdded
<1>1. CASE StartExclusive
  BY <1>1 DEF StartExclusive
<1>2. CASE Suspend
  BY <1>2 DEF Suspend
<1>3. CASE PollSuspended
  BY <1>3 DEF PollSuspended
<1>4. CASE FinishExclusive
  BY <1>4 DEF FinishExclusive
<1>5. CASE Resume
  BY <1>5 DEF Resume
<1>6. QED
  BY <1>1, <1>2, <1>3, <1>4, <1>5 DEF ImapStep

(* And a step of a thread that adds a job or interrupts the idle.          *)
LEMMA CallerStepIInv ==
  ASSUME IInv, NEW c \in Callers, CallerStep(c)
  PROVE  IInv'
<1> USE ConstantsAssumption
    DEF IInv, TypeOK, SmtpState, ImapState, AtOnce, AvoidDos, flags, table,
        FlagsMatchThreads, CursorIsFresh
<1>1. ASSUME NEW j \in Jobs, InsertJob(c, j)
      PROVE  IInv'
  <2>1. BeingAdded \cup {j} \subseteq BeingAdded'
    BY <1>1 DEF InsertJob, BeingAdded
  <2>2. MissedJobIsSignalled'
    BY <1>1, <2>1 DEF InsertJob, MissedJobIsSignalled
  <2>3. TypeOK' /\ FlagsMatchThreads' /\ CursorIsFresh'
    BY <1>1 DEF InsertJob
  <2>4. QED
    BY <2>2, <2>3
<1>2. CASE InterruptIdle(c)
  BY <1>2 DEF InterruptIdle, MissedJobIsSignalled
<1>3. QED
  BY <1>1, <1>2 DEF CallerStep

LEMMA NextIInv == IInv /\ [Next]_vars => IInv'
<1> SUFFICES ASSUME IInv, [Next]_vars PROVE IInv'
  OBVIOUS
<1>1. CASE UNCHANGED vars
  BY <1>1 DEF vars, flags, table, IInv, TypeOK, FlagsMatchThreads,
     MissedJobIsSignalled, CursorIsFresh, BeingAdded
<1>2. CASE Next
  BY <1>2, SmtpStepIInv, ImapStepIInv, CallerStepIInv DEF Next
<1>3. QED
  BY <1>1, <1>2

(* The inductive invariant holds in every reachable state.                 *)
THEOREM SpecIInv == Spec => []IInv
  BY InitIInv, NextIInv, PTL DEF Spec

(* Type correctness of the flags, the table and the control states.        *)
THEOREM TypeCorrect == Spec => []TypeOK
<1>1. IInv => TypeOK
  BY DEF IInv
<1>2. QED
  BY SpecIInv, <1>1, PTL

(* dc_suspend_smtp_thread() does what it is for: an exclusive job never    *)
(* runs while the SMTP thread is between two idles.                        *)
THEOREM ExclusiveAlone == Spec => []ExclusiveJobIsAlone
<1>1. IInv => ExclusiveJobIsAlone
  BY DEF IInv, TypeOK, FlagsMatchThreads, ExclusiveJobIsAlone
<1>2. QED
  BY SpecIInv, <1>1, PTL

(* The SMTP thread never goes to sleep over a job that was announced.      *)
THEOREM WakeupsKept == Spec => []NoLostWakeup
<1>1. IInv => NoLostWakeup
  BY DEF IInv, MissedJobIsSignalled, NoLostWakeup
<1>2. QED
  BY SpecIInv, <1>1, PTL

-----------------------------------------------------------------------------
(* Refinement: initial states map to initial states.                       *)
LEMMA InitService == Init => Service!Init
  BY DEF Init, Service!Init

(* Every step of the SMTP thread is a step of the worker, or a stutter.    *)
LEMMA SmtpStepService ==
  ASSUME IInv, SmtpStep \/ IdleTimeout
  PROVE  [Service!Next]_(Service!vars)
<1> USE DEF IInv, TypeOK, SmtpState, ImapState, AtOnce, AvoidDos, flags, table,
        FlagsMatchThreads, CursorIsFresh, Service!vars
<1>1. CASE PerformJobs
  BY <1>1 DEF PerformJobs
<1>2. CASE SelectJobs
  <2>1. Service!Take
    BY <1>2 DEF SelectJobs, Service!Take
  <2>2. QED
    BY <2>1 DEF Service!Next
<1>3. CASE EndPass
  BY <1>3 DEF EndPass
<1>4. ASSUME NEW j \in Jobs, FinishJob(j)
      PROVE  [Service!Next]_(Service!vars)
  <2>1. Service!Finish(j)
    BY <1>4 DEF FinishJob, Service!Finish
  <2>2. QED
    BY <2>1 DEF Service!Next
<1>5. ASSUME NEW j \in Jobs, RetryJob(j)
      PROVE  [Service!Next]_(Service!vars)
  BY <1>5 DEF RetryJob
<1>6. CASE SkipIdle
  BY <1>6 DEF SkipIdle
<1>7. CASE EnterIdle
  <2>1. CASE smtp' = "jobs"
    BY <1>7, <2>1 DEF EnterIdle, LeaveIdle, StartSpinning
  <2>2. CASE smtp' \in {"wait", "spin"}
    <3>1. Service!Rest
      BY <1>7, <2>2 DEF EnterIdle, LeaveIdle, StartSpinning, Service!Rest
    <3>2. QED
      BY <3>1 DEF Service!Next
  <2>3. QED
    BY <1>7, <2>1, <2>2 DEF EnterIdle, LeaveIdle, StartSpinning
<1>8. CASE WakeUp \/ IdleTimeout
  <2>1. CASE smtp' = "spin"
    BY <1>8, <2>1 DEF WakeUp, IdleTimeout, LeaveIdle, StartSpinning
  <2>2. CASE smtp' = "jobs"
    <3>1. Service!Work
      BY <1>8, <2>2 DEF WakeUp, IdleTimeout, LeaveIdle, StartSpinning, Service!Work
    <3>2. QED
      BY <3>1 DEF Service!Next
  <2>3. QED
    BY <1>8, <2>1, <2>2 DEF WakeUp, IdleTimeout, LeaveIdle, StartSpinning
<1>9. CASE Spin
  BY <1>9 DEF Spin, vars
<1>10. QED
  BY <1>1, <1>2, <1>3, <1>4, <1>5, <1>6, <1>7, <1>8, <1>9 DEF SmtpStep

(* The exclusive job of the IMAP thread is the exclusive section.          *)
LEMMA ImapStepService ==
  ASSUME IInv, ImapStep \/ StartExclusive
  PROVE  [Service!Next]_(Service!vars)
<1> USE DEF IInv, TypeOK, SmtpState, ImapState, AtOnce, AvoidDos, flags, table,
        FlagsMatchThreads, CursorIsFresh, Service!vars
<1>1. CASE StartExclusive
  BY <1>1 DEF StartExclusive
<1>2. CASE Suspend
  BY <1>2 DEF Suspend
<1>3. CASE PollSuspended
  <2>1. Service!BeginExclusive
    BY <1>3 DEF PollSuspended, Service!BeginExclusive
  <2>2. QED
    BY <2>1 DEF Service!Next
<1>4. CASE FinishExclusive
  <2>1. Service!EndExclusive
    BY <1>4 DEF FinishExclusive, Service!EndExclusive
  <2>2. QED
    BY <2>1 DEF Service!Next
<1>5. CASE Resume
  BY <1>5 DEF Resume
<1>6. QED
  BY <1>1, <1>2, <1>3, <1>4, <1>5 DEF ImapStep

(* The insert of dc_job_add() submits the job; the interrupt is a stutter. *)
LEMMA CallerStepService ==
  ASSUME IInv, NEW c \in Callers, CallerStep(c)
  PROVE  [Service!Next]_(Service!vars)
<1> USE DEF IInv, TypeOK, flags, table, CursorIsFresh, Service!vars
<1>1. ASSUME NEW j \in Jobs, InsertJob(c, j)
      PROVE  [Service!Next]_(Service!vars)
  <2>1. Service!Submit(j)
    BY <1>1 DEF InsertJob, Service!Submit
  <2>2. QED
    BY <2>1 DEF Service!Next
<1>2. CASE InterruptIdle(c)
  BY <1>2 DEF InterruptIdle
<1>3. QED
  BY <1>1, <1>2 DEF CallerStep

(* The threads and their flags implement the abstract job service.         *)
THEOREM Implements == Spec => ImplementsService
<1>1. IInv /\ [Next]_vars => [Service!Next]_(Service!vars)
  <2> SUFFICES ASSUME IInv, [Next]_vars PROVE [Service!Next]_(Service!vars)
    OBVIOUS
  <2>1. CASE UNCHANGED vars
    BY <2>1 DEF vars, flags, table, Service!vars
  <2>2. CASE Next
    BY <2>2, SmtpStepService, ImapStepService, CallerStepService DEF Next
  <2>3. QED
    BY <2>1, <2>2
<1>2. QED
  BY SpecIInv, InitService, <1>1, PTL DEF Spec, ImplementsService, Service!Spec
=============================================================================
