------------------------------ MODULE SmtpIdle ------------------------------
(***************************************************************************)
(* The SMTP thread of Delta Chat Core and the flags it shares with the     *)
(* rest of the program (src/src/dc_job.c).                                 *)
(*                                                                         *)
(* The application runs one SMTP thread in a loop                          *)
(*                                                                         *)
(*     dc_perform_smtp_jobs();  dc_perform_smtp_idle();                    *)
(*                                                                         *)
(* Any thread adds jobs with dc_job_add(), which inserts a row and then    *)
(* calls dc_interrupt_smtp_idle().  The IMAP thread suspends the SMTP      *)
(* thread while it runs an exclusive job (CONFIGURE, IMEX).                *)
(*                                                                         *)
(* All flags are guarded by smtpidle_condmutex.  Every critical section    *)
(* but the one of dc_perform_smtp_idle() is straight-line code, hence one  *)
(* action here.  dc_perform_smtp_idle() releases the mutex only inside     *)
(* pthread_cond_timedwait(), so what it does between two waits is one      *)
(* action too - except that its outer loop can go round without waiting,   *)
(* mutex in hand: the "spin" control state.                                *)
(***************************************************************************)
EXTENDS Naturals, FiniteSets

CONSTANTS
    Jobs,          \* ids of the jobs for the SMTP thread that are ever added
    Callers,       \* threads calling dc_job_add() and dc_interrupt_smtp_idle()
    NoJob,         \* a caller that is not inside dc_job_add()
    MaxExclusive   \* bound: exclusive jobs the IMAP thread runs

ASSUME ConstantsAssumption ==
    /\ NoJob \notin Jobs
    /\ MaxExclusive \in Nat

VARIABLES
    smtp,          \* control state of the SMTP thread
    imap,          \* control state of the IMAP thread around an exclusive job
    calling,       \* [Callers -> job inserted, interrupt still to be called]
    condflag,      \* context->smtpidle_condflag
    needed,        \* context->perform_smtp_jobs_needed
    suspended,     \* context->smtpidle_suspend
    inIdleing,     \* context->smtpidle_in_idleing
    jobs,          \* rows of the table jobs with thread=DC_SMTP_THREAD
    cursor,        \* rows dc_job_perform()'s SELECT has still to return
    unseen,        \* history: jobs added, but not returned by a SELECT so far
    added,         \* history: jobs ever added (ids are never reused)
    exclusives     \* number of exclusive jobs started, bounded

flags == <<condflag, needed, suspended, inIdleing>>
table == <<jobs, cursor, unseen, added>>
vars  == <<smtp, imap, calling, flags, table, exclusives>>

-----------------------------------------------------------------------------
AtOnce   == 1      \* DC_JOBS_NEEDED_AT_ONCE
AvoidDos == 2      \* DC_JOBS_NEEDED_AVOID_DOS

SmtpState == {"jobs", "select", "perform", "idle", "wait", "spin"}
ImapState == {"other", "suspend", "poll", "exclusive", "resume"}

TypeOK ==
    /\ smtp \in SmtpState
    /\ imap \in ImapState
    /\ calling \in [Callers -> Jobs \cup {NoJob}]
    /\ condflag \in {0, 1}
    /\ needed \in {0, AtOnce, AvoidDos}
    /\ suspended \in {0, 1}
    /\ inIdleing \in {0, 1}
    /\ jobs \in SUBSET Jobs
    /\ cursor \in SUBSET Jobs
    /\ unseen \in SUBSET Jobs
    /\ added \in SUBSET Jobs
    /\ exclusives \in 0..MaxExclusive

(* dc_context_new() zeroes the flags; the table may hold rows a former run *)
(* of the program left there.                                              *)
Init ==
    /\ smtp = "jobs"
    /\ imap = "other"
    /\ calling = [c \in Callers |-> NoJob]
    /\ condflag = 0 /\ needed = 0 /\ suspended = 0 /\ inIdleing = 0
    /\ jobs \in SUBSET Jobs
    /\ cursor = {}
    /\ unseen = jobs
    /\ added = jobs
    /\ exclusives = 0

(* smtpidle_condmutex can be locked: no one holds it across a step, except *)
(* the SMTP thread when it circles in dc_perform_smtp_idle().              *)
CondMutexFree == smtp # "spin"

-----------------------------------------------------------------------------
(* The SMTP thread.                                                        *)

(* dc_perform_smtp_jobs(): the flag is cleared before the jobs are read.   *)
PerformJobs ==
    /\ smtp = "jobs"
    /\ needed' = 0
    /\ smtp' = "select"
    /\ UNCHANGED <<imap, calling, condflag, suspended, inIdleing, table, exclusives>>

(* dc_job_perform(): the SELECT is sorted, so its result is fixed here.    *)
SelectJobs ==
    /\ smtp = "select"
    /\ cursor' = jobs
    /\ unseen' = unseen \ jobs
    /\ smtp' = "perform"
    /\ UNCHANGED <<imap, calling, flags, jobs, added, exclusives>>

(* A job that succeeded, or failed for good: its row is deleted.           *)
FinishJob(j) ==
    /\ smtp = "perform"
    /\ j \in cursor
    /\ cursor' = cursor \ {j}
    /\ jobs' = jobs \ {j}
    /\ UNCHANGED <<smtp, imap, calling, flags, unseen, added, exclusives>>

(* A job that asked to be tried again keeps its row.  Online and with      *)
(* retries left, the thread also asks for a short idle only; this          *)
(* overwrites a DC_JOBS_NEEDED_AT_ONCE that came in meanwhile.             *)
RetryJob(j) ==
    /\ smtp = "perform"
    /\ j \in cursor
    /\ cursor' = cursor \ {j}
    /\ needed' \in {needed, AvoidDos}
    /\ UNCHANGED <<smtp, imap, calling, condflag, suspended, inIdleing,
                   jobs, unseen, added, exclusives>>

EndPass ==
    /\ smtp = "perform"
    /\ cursor = {}
    /\ smtp' = "idle"
    /\ UNCHANGED <<imap, calling, flags, table, exclusives>>

(* Mutant: the outer loop of the idle does not look at smtpidle_suspend.   *)
LeaveIdleSuspended ==
    /\ condflag' = 0
    /\ inIdleing' = 0
    /\ smtp' = "jobs"

(* What dc_perform_smtp_idle() does when pthread_cond_timedwait() is not   *)
(* (or no longer) waited for: leave, or go round the outer loop again.     *)
LeaveIdle ==
    /\ suspended = 0
    /\ condflag' = 0
    /\ inIdleing' = 0
    /\ smtp' = "jobs"

(* while (smtpidle_suspend) around a while that does not wait, because     *)
(* condflag is set: the mutex is kept for ever.                            *)
StartSpinning ==
    /\ suspended = 1
    /\ condflag = 1
    /\ inIdleing' = 1
    /\ smtp' = "spin"
    /\ UNCHANGED condflag

SkipIdle ==
    /\ smtp = "idle"
    /\ needed = AtOnce
    /\ smtp' = "jobs"
    /\ UNCHANGED <<imap, calling, flags, table, exclusives>>

(* Mutant: smtpidle_in_idleing is not announced.                           *)
EnterIdleSilently ==
    /\ smtp = "idle"
    /\ needed # AtOnce
    /\ \/ /\ condflag = 0
          /\ smtp' = "wait"
          /\ UNCHANGED <<condflag, inIdleing>>
       \/ condflag = 1 /\ LeaveIdle
    /\ UNCHANGED <<imap, calling, needed, suspended, table, exclusives>>

EnterIdle ==
    /\ smtp = "idle"
    /\ needed # AtOnce
    /\ \/ /\ condflag = 0
          /\ inIdleing' = 1
          /\ smtp' = "wait"
          /\ UNCHANGED condflag
       \/ condflag = 1 /\ LeaveIdle
       \/ StartSpinning
    /\ UNCHANGED <<imap, calling, needed, suspended, table, exclusives>>

(* The waiting thread saw smtpidle_condflag.                               *)
WakeUp ==
    /\ smtp = "wait"
    /\ condflag = 1
    /\ LeaveIdle \/ StartSpinning
    /\ UNCHANGED <<imap, calling, needed, suspended, table, exclusives>>

(* The wait timed out.  While suspended the thread waits anew, no change.  *)
IdleTimeout ==
    /\ smtp = "wait"
    /\ condflag = 0
    /\ LeaveIdle
    /\ UNCHANGED <<imap, calling, needed, suspended, table, exclusives>>

(* The outer loop of dc_perform_smtp_idle(), going round: nobody can clear *)
(* smtpidle_suspend without the mutex this thread holds.                   *)
Spin ==
    /\ smtp = "spin"
    /\ suspended = 1
    /\ UNCHANGED vars

-----------------------------------------------------------------------------
(* Threads that add jobs.                                                  *)

InsertJob(c, j) ==
    /\ calling[c] = NoJob
    /\ j \notin added
    /\ calling' = [calling EXCEPT ![c] = j]
    /\ jobs' = jobs \cup {j}
    /\ unseen' = unseen \cup {j}
    /\ added' = added \cup {j}
    /\ UNCHANGED <<smtp, imap, flags, cursor, exclusives>>

(* Mutant: only the flag is set, the condition is not signalled.           *)
InterruptIdleFlagOnly(c) ==
    /\ CondMutexFree
    /\ needed' = AtOnce
    /\ calling' = [calling EXCEPT ![c] = NoJob]
    /\ UNCHANGED <<smtp, imap, condflag, suspended, inIdleing, table, exclusives>>

(* Mutant: the flag counts the interrupts.                                 *)
InterruptIdleCount(c) ==
    /\ CondMutexFree
    /\ needed' = needed + 1
    /\ condflag' = 1
    /\ calling' = [calling EXCEPT ![c] = NoJob]
    /\ UNCHANGED <<smtp, imap, suspended, inIdleing, table, exclusives>>

(* dc_interrupt_smtp_idle(), by dc_job_add() or by the application.        *)
InterruptIdle(c) ==
    /\ CondMutexFree
    /\ needed' = AtOnce
    /\ condflag' = 1
    /\ calling' = [calling EXCEPT ![c] = NoJob]
    /\ UNCHANGED <<smtp, imap, suspended, inIdleing, table, exclusives>>

-----------------------------------------------------------------------------
(* The IMAP thread around an exclusive job of dc_job_perform().            *)

StartExclusive ==
    /\ imap = "other"
    /\ exclusives < MaxExclusive
    /\ exclusives' = exclusives + 1
    /\ imap' = "suspend"
    /\ UNCHANGED <<smtp, calling, flags, table>>

(* dc_suspend_smtp_thread(context, 1), first critical section.             *)
Suspend ==
    /\ imap = "suspend"
    /\ CondMutexFree
    /\ suspended' = 1
    /\ imap' = "poll"
    /\ UNCHANGED <<smtp, calling, condflag, needed, inIdleing, table, exclusives>>

(* Mutant: the IMAP thread does not wait for the SMTP thread to idle.      *)
PollNothing ==
    /\ imap = "poll"
    /\ CondMutexFree
    /\ needed' = 0
    /\ imap' = "exclusive"
    /\ UNCHANGED <<smtp, calling, condflag, suspended, inIdleing, table, exclusives>>

(* Mutant: the suspension resets both flags of the interrupt.              *)
PollAndForget ==
    /\ imap = "poll"
    /\ CondMutexFree
    /\ inIdleing = 1
    /\ needed' = 0
    /\ condflag' = 0
    /\ imap' = "exclusive"
    /\ UNCHANGED <<smtp, calling, suspended, inIdleing, table, exclusives>>

(* Its polling loop, every 300 ms, until the SMTP thread is idle.          *)
PollSuspended ==
    /\ imap = "poll"
    /\ CondMutexFree
    /\ inIdleing = 1
    /\ needed' = 0
    /\ imap' = "exclusive"
    /\ UNCHANGED <<smtp, calling, condflag, suspended, inIdleing, table, exclusives>>

FinishExclusive ==
    /\ imap = "exclusive"
    /\ imap' = "resume"
    /\ UNCHANGED <<smtp, calling, flags, table, exclusives>>

(* dc_suspend_smtp_thread(context, 0).                                     *)
Resume ==
    /\ imap = "resume"
    /\ CondMutexFree
    /\ suspended' = 0
    /\ imap' = "other"
    /\ UNCHANGED <<smtp, calling, condflag, needed, inIdleing, table, exclusives>>

-----------------------------------------------------------------------------
SmtpStep ==
    \/ PerformJobs \/ SelectJobs \/ EndPass
    \/ \E j \in Jobs : FinishJob(j) \/ RetryJob(j)
    \/ SkipIdle \/ EnterIdle \/ WakeUp \/ Spin

ImapStep == Suspend \/ PollSuspended \/ FinishExclusive \/ Resume

CallerStep(c) ==
    \/ \E j \in Jobs : InsertJob(c, j)
    \/ InterruptIdle(c)

Next ==
    \/ SmtpStep
    \/ IdleTimeout
    \/ ImapStep
    \/ StartExclusive
    \/ \E c \in Callers : CallerStep(c)

Spec == Init /\ [][Next]_vars

(* The threads are scheduled.  No fairness for what the environment may    *)
(* leave undone: adding jobs, starting exclusive jobs - and none for the   *)
(* timeout of the idle wait, so that a job that is only found because the  *)
(* minute is over does not count as having been waited for.                *)
FairSpec ==
    /\ Spec
    /\ WF_vars(SmtpStep)
    /\ WF_vars(ImapStep)
    /\ \A c \in Callers : WF_vars(calling[c] # NoJob /\ InterruptIdle(c))

(* With the timeout too: the SMTP thread looks at its table every minute.  *)
FairTimeoutSpec == FairSpec /\ WF_vars(IdleTimeout)

-----------------------------------------------------------------------------
(* Jobs whose dc_job_add() is still before its interrupt.                  *)
BeingAdded == {calling[c] : c \in Callers} \ {NoJob}

(* While an exclusive job runs, the SMTP thread executes no job: the two   *)
(* never use the database and the configuration at the same time, what     *)
(* dc_suspend_smtp_thread() is there for.                                  *)
ExclusiveJobIsAlone ==
    imap = "exclusive" => smtp \in {"wait", "spin"}

(* The SMTP thread never waits on its condition with nothing to wake it    *)
(* up while a job that dc_job_add() has returned from was seen by no       *)
(* SELECT: neither the flag the failed job overwrites (AVOID_DOS), nor the *)
(* one dc_perform_smtp_jobs() and the suspension clear, loses it.          *)
NoLostWakeup ==
    smtp = "wait" /\ condflag = 0 => unseen \subseteq BeingAdded

-----------------------------------------------------------------------------
(* The inductive invariant behind both, and behind ImplementsService.      *)

(* The announced flags agree with the control states of their owners.      *)
FlagsMatchThreads ==
    /\ inIdleing = 1 <=> smtp \in {"wait", "spin"}
    /\ suspended = 1 <=> imap \in {"poll", "exclusive", "resume"}
    /\ imap = "exclusive" => inIdleing = 1

(* From the SELECT to the end of the wait: a job it did not see is still   *)
(* being added, or the wait has been signalled.                            *)
MissedJobIsSignalled ==
    smtp \in {"perform", "idle", "wait"} /\ condflag = 0 => unseen \subseteq BeingAdded

CursorIsFresh ==
    /\ cursor \subseteq jobs \ unseen
    /\ unseen \subseteq jobs
    /\ jobs \subseteq added

IInv ==
    /\ TypeOK
    /\ FlagsMatchThreads
    /\ MissedJobIsSignalled
    /\ CursorIsFresh

-----------------------------------------------------------------------------
(* Every job added is read by a SELECT of the SMTP thread, and this        *)
(* without the help of the idle timeout, unless the thread ends up circling *)
(* in dc_perform_smtp_idle(): there is no other way to starve, neither by  *)
(* the flags a failing job and a suspension overwrite nor by waiting.      *)
TriedUnlessSpinning ==
    \A j \in Jobs : j \in unseen ~> (j \notin unseen \/ smtp = "spin")

(* What the documentation of dc_interrupt_smtp_idle() promises: calling it *)
(* causes jobs to be executed.  A job whose dc_job_add() came to its       *)
(* interrupt is selected some time.                                        *)
InterruptCausesJobs ==
    \A j \in Jobs : (j \in unseen /\ j \notin BeingAdded) ~> j \notin unseen

(* The SMTP thread, its flags and the suspension together implement the    *)
(* queue of SmtpService: a pass is under way unless the thread sits in     *)
(* dc_perform_smtp_idle(), and the exclusive section is the exclusive job. *)
Service == INSTANCE SmtpService WITH
    rows      <- jobs,
    taken     <- added \ unseen,
    phase     <- IF smtp \in {"wait", "spin"} THEN "resting" ELSE "working",
    exclusive <- (imap = "exclusive")

ImplementsService == Service!Spec

(* Every exclusive job gets its turn and ends, and the SMTP thread is      *)
(* resumed, unless interrupts go on for ever or one of them makes that     *)
(* thread circle in its idle.                                              *)
SuspensionEnds ==
    [](smtp # "spin") /\ <>[](needed # AtOnce)
        => (imap # "other" ~> imap = "other")
=============================================================================
