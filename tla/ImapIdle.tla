------------------------------ MODULE ImapIdle ------------------------------
(***************************************************************************)
(* The IMAP thread of Delta Chat Core and how other threads interrupt it   *)
(* (src/src/dc_job.c, src/src/dc_imap.c).                                  *)
(*                                                                         *)
(* The application runs one IMAP thread in a loop                          *)
(*                                                                         *)
(*     dc_perform_imap_jobs();  dc_perform_imap_fetch();                   *)
(*     dc_perform_imap_idle();                                             *)
(*                                                                         *)
(* dc_imap_idle() waits in the IDLE command of the server (real idle), or, *)
(* when that is not possible, in fake_idle(), which polls the server.      *)
(* dc_interrupt_imap_idle() sets a flag for the next idle, writes to the   *)
(* pipe of a real idle, and signals the fake idle: three separate steps.   *)
(***************************************************************************)
EXTENDS Naturals, FiniteSets

CONSTANTS
    Jobs,            \* ids of the jobs for the IMAP thread that are ever added
    Callers,         \* threads calling dc_job_add()
    NoJob,           \* a caller that is not inside dc_job_add()
    ServerIdles,     \* the server has the IDLE capability
    MaxNetChanges    \* bound: how often the network goes or comes back

ASSUME ConstantsAssumption ==
    /\ NoJob \notin Jobs
    /\ ServerIdles \in BOOLEAN
    /\ MaxNetChanges \in Nat

VARIABLES
    imap,        \* control state of the IMAP thread
    needed,      \* context->perform_imap_jobs_needed
    watchflag,   \* imap->watch_condflag
    connected,   \* imap->connected: the connect parameters are known
    stream,      \* imap->etpan: "none", "open", or "idling" (idle_set_up)
    pipe,        \* bytes in the pipe mailstream_setup_idle() made
    reconnect,   \* imap->should_reconnect
    caller,      \* [Callers -> step of dc_job_add() and its job]
    jobs,        \* rows of the table jobs with thread=DC_IMAP_THREAD
    unseen,      \* history: jobs added, but not returned by a SELECT so far
    added,       \* history: jobs ever added
    online,      \* the network is there
    netChanges   \* changes of online so far, bounded

handle == <<connected, stream, pipe, reconnect>>
table  == <<jobs, unseen, added>>
net    == <<online, netChanges>>
vars   == <<imap, needed, watchflag, handle, caller, table, net>>

-----------------------------------------------------------------------------
FakeIdle  == {"fakeTop", "fakeWait", "fakeFetch"}
ImapState == {"jobs", "select", "perform", "fetch", "idle",
              "start", "setup", "command", "realWait"} \cup FakeIdle

CallerState == [at : {"out", "flag", "pipe", "signal"}, job : Jobs \cup {NoJob}]
Out == [at |-> "out", job |-> NoJob]

TypeOK ==
    /\ imap \in ImapState
    /\ needed \in {0, 1}
    /\ watchflag \in {0, 1}
    /\ connected \in {0, 1}
    /\ stream \in {"none", "open", "idling"}
    /\ pipe \in Nat
    /\ reconnect \in {0, 1}
    /\ caller \in [Callers -> CallerState]
    /\ jobs \in SUBSET Jobs
    /\ unseen \in SUBSET Jobs
    /\ added \in SUBSET Jobs
    /\ online \in {0, 1}
    /\ netChanges \in 0..MaxNetChanges

Init ==
    /\ imap = "jobs"
    /\ needed = 0 /\ watchflag = 0
    /\ connected = 0 /\ stream = "none" /\ pipe = 0 /\ reconnect = 0
    /\ caller = [c \in Callers |-> Out]
    /\ jobs \in SUBSET Jobs
    /\ unseen = jobs
    /\ added = jobs
    /\ online \in {0, 1} /\ (MaxNetChanges = 0 => online = 1)
    /\ netChanges = 0

-----------------------------------------------------------------------------
(* The connection.                                                         *)

(* imap->can_idle: read from the server once, when connecting.             *)
CanIdle == connected = 1 /\ ServerIdles

(* setup_handle_if_needed(): drop a broken stream, open one if there is    *)
(* none.  Without connect parameters, imap_server==NULL, it can do nothing.*)
(* It returns success iff there is a stream afterwards.                    *)
SetupStream ==
    /\ IF connected = 1 /\ (reconnect = 1 \/ stream = "none")
       THEN /\ stream' = IF online = 1 THEN "open" ELSE "none"
            /\ pipe' = 0
       ELSE UNCHANGED <<stream, pipe>>
    /\ UNCHANGED connected

SetupHandle == SetupStream /\ reconnect' = 0

(* A command on the stream breaks it: it is set up anew next time.         *)
StreamError == SetupStream /\ stream' # "none" /\ reconnect' = 1

(* connect_to_imap() of a configured account: a failed connect forgets the *)
(* connect parameters again.                                               *)
ConnectToImap ==
    IF connected = 1
    THEN UNCHANGED handle
    ELSE /\ connected' = online
         /\ stream' = IF online = 1 THEN "open" ELSE "none"
         /\ pipe' = 0
         /\ reconnect' = 0

-----------------------------------------------------------------------------
(* The jobs.                                                               *)

PerformJobs ==
    /\ imap = "jobs"
    /\ needed' = 0
    /\ imap' = "select"
    /\ UNCHANGED <<watchflag, handle, caller, table, net>>

(* dc_job_perform() up to its first row; the rows read are done or kept    *)
(* for another try.                                                        *)
SelectJobs ==
    /\ imap = "select"
    /\ unseen' = unseen \ jobs
    /\ imap' = "perform"
    /\ UNCHANGED <<needed, watchflag, handle, caller, jobs, added, net>>

FinishJob(j) ==
    /\ imap = "perform"
    /\ j \in jobs \ unseen
    /\ jobs' = jobs \ {j}
    /\ UNCHANGED <<imap, needed, watchflag, handle, caller, unseen, added, net>>

(* Mutant: the flag is reset when the jobs are done, not before.           *)
EndPassReset ==
    /\ imap = "perform"
    /\ imap' = "fetch"
    /\ needed' = 0
    /\ UNCHANGED <<watchflag, handle, caller, table, net>>

EndPass ==
    /\ imap = "perform"
    /\ imap' = "fetch"
    /\ UNCHANGED <<needed, watchflag, handle, caller, table, net>>

(* dc_perform_imap_fetch(): connect, then fetch.  When the stream turns    *)
(* out to be broken and the network is there, it fetches again on a new    *)
(* stream.                                                                 *)
Fetch ==
    /\ imap = "fetch"
    /\ \/ connected = 0 /\ ConnectToImap
       \/ connected = 1 /\ SetupHandle
       \/ connected = 1 /\ online = 0 /\ StreamError
       \/ /\ connected = 1 /\ online = 1
          /\ stream' = "open" /\ pipe' = 0 /\ reconnect' = 0
          /\ UNCHANGED connected
    /\ imap' = "idle"
    /\ UNCHANGED <<needed, watchflag, caller, table, net>>

-----------------------------------------------------------------------------
(* The idle.                                                               *)

(* dc_perform_imap_idle() up to the unlock of imapidle_condmutex.          *)
CheckNeeded ==
    /\ imap = "idle"
    /\ ConnectToImap
    /\ imap' = IF needed = 1 THEN "jobs" ELSE "start"
    /\ UNCHANGED <<needed, watchflag, caller, table, net>>

(* dc_imap_idle(): the handle, or straight to the fake idle.               *)
StartIdle ==
    /\ imap = "start"
    /\ \/ CanIdle /\ SetupHandle /\ imap' = (IF stream' = "none" THEN "fakeTop" ELSE "setup")
       \/ ~CanIdle /\ UNCHANGED handle /\ imap' = "fakeTop"
    /\ UNCHANGED <<needed, watchflag, caller, table, net>>

(* mailstream_setup_idle(), once per stream: only now there is a pipe.     *)
(* When it fails the idle is a fake one.                                   *)
SetupIdle ==
    /\ imap = "setup"
    /\ \/ stream' = "idling" /\ imap' = "command" /\ UNCHANGED reconnect
       \/ stream = "open" /\ imap' = "fakeTop" /\ reconnect' \in {reconnect, 1} /\ UNCHANGED stream
    /\ UNCHANGED <<needed, watchflag, connected, pipe, caller, table, net>>

(* select_folder() and mailimap_idle(): they fail because the stream is    *)
(* broken, or the server refuses them; both lead to fake_idle().           *)
StartCommand ==
    /\ imap = "command"
    /\ \/ online = 1 /\ imap' = "realWait" /\ UNCHANGED reconnect
       \/ online = 0 /\ imap' = "fakeTop" /\ reconnect' = 1
       \/ online = 1 /\ imap' = "fakeTop" /\ UNCHANGED reconnect
    /\ UNCHANGED <<needed, watchflag, connected, stream, pipe, caller, table, net>>

(* mailstream_wait_idle() returns: data, an interrupt, or an error.        *)
RealIdleData ==
    /\ imap = "realWait"
    /\ online = 1
    /\ imap' = "jobs"
    /\ UNCHANGED <<needed, watchflag, handle, caller, table, net>>

RealIdleInterrupted ==
    /\ imap = "realWait"
    /\ pipe > 0
    /\ pipe' = pipe - 1
    /\ imap' = "jobs"
    /\ UNCHANGED <<needed, watchflag, connected, stream, reconnect, caller, table, net>>

RealIdleError ==
    /\ imap = "realWait"
    /\ online = 0
    /\ reconnect' = 1
    /\ imap' = "jobs"
    /\ UNCHANGED <<needed, watchflag, connected, stream, pipe, caller, table, net>>

(* Mutant: the timeout acknowledges an interrupt that was not there.       *)
RealIdleTimeoutAck ==
    /\ imap = "realWait"
    /\ pipe = 0
    /\ pipe' = pipe - 1
    /\ imap' = "jobs"
    /\ UNCHANGED <<needed, watchflag, connected, stream, reconnect, caller, table, net>>

(* Mutant: after the timeout the IDLE command is just sent again.          *)
RealIdleTimeoutAgain ==
    /\ imap = "realWait"
    /\ pipe = 0
    /\ imap' = "command"
    /\ UNCHANGED <<needed, watchflag, handle, caller, table, net>>

(* After IDLE_DELAY_SECONDS.                                               *)
RealIdleTimeout ==
    /\ imap = "realWait"
    /\ pipe = 0
    /\ imap' = "jobs"
    /\ UNCHANGED <<needed, watchflag, handle, caller, table, net>>

(* fake_idle(), the head of its loop: a flag that is already set skips the *)
(* wait - and with it the only place where do_fake_idle is cleared.        *)
FakeTop ==
    /\ imap = "fakeTop"
    /\ imap' = IF watchflag = 0 THEN "fakeWait" ELSE "fakeFetch"
    /\ watchflag' = 0
    /\ UNCHANGED <<needed, handle, caller, table, net>>

(* Mutant: do_fake_idle is left set when the wait is interrupted.          *)
FakeWokenStays ==
    /\ imap = "fakeWait"
    /\ watchflag = 1
    /\ watchflag' = 0
    /\ imap' = "fakeFetch"
    /\ UNCHANGED <<needed, handle, caller, table, net>>

FakeWoken ==
    /\ imap = "fakeWait"
    /\ watchflag = 1
    /\ watchflag' = 0
    /\ imap' = "jobs"
    /\ UNCHANGED <<needed, handle, caller, table, net>>

FakeTimeout ==
    /\ imap = "fakeWait"
    /\ watchflag = 0
    /\ imap' = "fakeFetch"
    /\ UNCHANGED <<needed, watchflag, handle, caller, table, net>>

(* The poll of fake_idle(): it ends the idle only if there was a message.  *)
FakeFetch ==
    /\ imap = "fakeFetch"
    /\ \/ SetupHandle /\ imap' = "fakeTop"
       \/ SetupHandle /\ stream' # "none" /\ online = 1 /\ imap' = "jobs"
       \/ StreamError /\ imap' = "fakeTop"
    /\ UNCHANGED <<needed, watchflag, caller, table, net>>

-----------------------------------------------------------------------------
(* Other threads: dc_job_add() and its dc_interrupt_imap_idle().           *)

InsertJob(c, j) ==
    /\ caller[c] = Out
    /\ j \notin added
    /\ caller' = [caller EXCEPT ![c] = [at |-> "flag", job |-> j]]
    /\ jobs' = jobs \cup {j}
    /\ unseen' = unseen \cup {j}
    /\ added' = added \cup {j}
    /\ UNCHANGED <<imap, needed, watchflag, handle, net>>

SetNeeded(c) ==
    /\ caller[c].at = "flag"
    /\ needed' = 1
    /\ caller' = [caller EXCEPT ![c].at = "pipe"]
    /\ UNCHANGED <<imap, watchflag, handle, table, net>>

(* Mutant: written whether or not there is a stream that idles.            *)
WritePipeAlways(c) ==
    /\ caller[c].at = "pipe"
    /\ pipe' = pipe + 1
    /\ caller' = [caller EXCEPT ![c].at = "signal"]
    /\ UNCHANGED <<imap, needed, watchflag, connected, stream, reconnect, table, net>>

(* mailstream_interrupt_idle(): does nothing unless the stream is idling.  *)
WritePipe(c) ==
    /\ caller[c].at = "pipe"
    /\ pipe' = IF CanIdle /\ stream = "idling" THEN pipe + 1 ELSE pipe
    /\ caller' = [caller EXCEPT ![c].at = "signal"]
    /\ UNCHANGED <<imap, needed, watchflag, connected, stream, reconnect, table, net>>

SignalWatch(c) ==
    /\ caller[c].at = "signal"
    /\ watchflag' = 1
    /\ caller' = [caller EXCEPT ![c] = Out]
    /\ UNCHANGED <<imap, needed, handle, table, net>>

NetChange ==
    /\ netChanges < MaxNetChanges
    /\ netChanges' = netChanges + 1
    /\ online' = 1 - online
    /\ UNCHANGED <<imap, needed, watchflag, handle, caller, table>>

-----------------------------------------------------------------------------
ImapStep ==
    \/ PerformJobs \/ SelectJobs \/ EndPass \/ Fetch
    \/ CheckNeeded \/ StartIdle \/ SetupIdle \/ StartCommand
    \/ RealIdleInterrupted \/ RealIdleError
    \/ FakeTop \/ FakeWoken \/ FakeFetch

IdleTimeout == RealIdleTimeout \/ FakeTimeout

Interrupt(c) == SetNeeded(c) \/ WritePipe(c) \/ SignalWatch(c)

Next ==
    \/ ImapStep
    \/ \E j \in Jobs : FinishJob(j)
    \/ IdleTimeout
    \/ RealIdleData
    \/ \E c \in Callers : Interrupt(c) \/ \E j \in Jobs : InsertJob(c, j)
    \/ NetChange

Spec == Init /\ [][Next]_vars

(* The IMAP thread is scheduled, and a thread inside dc_job_add() returns. *)
FairSpec ==
    /\ Spec
    /\ WF_vars(ImapStep)
    /\ \A c \in Callers : WF_vars(Interrupt(c))

-----------------------------------------------------------------------------
(* Jobs whose dc_job_add() has not set perform_imap_jobs_needed yet.       *)
BeforeFlag == {caller[c].job : c \in {d \in Callers : caller[d].at = "flag"}}

(* The idle is not begun over a job that was announced before: from the    *)
(* SELECT up to the check in dc_perform_imap_idle(), a job the SELECT did  *)
(* not see has its flag set, or is not announced yet.                      *)
IdleStartsWithNothingPending ==
    imap \in {"perform", "fetch", "idle"} /\ needed = 0 => unseen \subseteq BeforeFlag

(* The pipe that interrupts a real idle has bytes only while there is a    *)
(* stream set up for it: none is left over for the next stream.            *)
PipeBelongsToStream == pipe > 0 => connected = 1 /\ stream = "idling"

(* A job not read so far is in the table; and its row stays.               *)
UnseenIsInTable == unseen \subseteq jobs /\ jobs \subseteq added

IInv ==
    /\ TypeOK
    /\ IdleStartsWithNothingPending
    /\ PipeBelongsToStream
    /\ UnseenIsInTable

(* An interrupt that finds the thread waiting, in the real or in the fake  *)
(* idle, gets the jobs executed without the help of a timeout, whatever    *)
(* happens to the network meanwhile.                                       *)
WaitIsInterruptible ==
    /\ imap = "fakeWait" /\ watchflag = 1 ~> imap = "select"
    /\ imap = "realWait" /\ pipe > 0 ~> imap = "select"

(* With the timeouts of the idles no job is starved, whatever the network  *)
(* does and the server refuses, unless the thread stays in a fake idle for *)
(* ever: an interrupt lost before the pipe exists costs one timeout.  (The *)
(* fake idle can starve a job, when the head of its loop eats the flag.)   *)
AddedJobIsTried ==
    WF_vars(IdleTimeout) /\ []<>(imap \notin FakeIdle)
        => \A j \in Jobs : j \in unseen ~> j \notin unseen
=============================================================================
