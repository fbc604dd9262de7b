----------------------------- MODULE ServerJobs -----------------------------
(***************************************************************************)
(* The jobs of the IMAP thread that bring the server in line with the      *)
(* database: DC_JOB_SEND_MSG_TO_IMAP uploads a sent message,               *)
(* DC_JOB_MARKSEEN_MSG_ON_IMAP marks and moves a read one and asks for its *)
(* receipt (MDN), DC_JOB_DELETE_MSG_ON_IMAP deletes one (src/src/dc_job.c, *)
(* dc_imap.c).  Connections break, replies get lost, the process crashes.  *)
(*                                                                         *)
(* dc_imap_is_connected() says whether the connect parameters are known;   *)
(* the stream itself may be gone all the same.                             *)
(*                                                                         *)
(* Every message is a single part with a Message-ID, the incoming ones are *)
(* messenger messages that ask for a receipt.  The server answers moves    *)
(* and uploads with the new UID (UIDPLUS).                                 *)
(***************************************************************************)
EXTENDS Naturals, FiniteSets

CONSTANTS
    Incoming,    \* messages in the inbox of the server at the beginning
    Outgoing,    \* messages that will be uploaded to the server
    NoJob,       \* no job is being performed
    PermanentFlags, \* what the server says of a folder it selects: "none",
                 \* "standard" without and "mdnsent" with the flag $MDNSent
    MaxFaults    \* bound: broken streams, lost replies, refusals and crashes

ASSUME ConstantsAssumption ==
    /\ Incoming \cap Outgoing = {}
    /\ PermanentFlags \in {"none", "standard", "mdnsent"}
    /\ MaxFaults \in Nat

Msgs == Incoming \cup Outgoing

(* The folders can store the flag $MDNSent.                                *)
MdnFlag == PermanentFlags = "mdnsent"

(* The actions in the order of dc_job_perform(): "ORDER BY action DESC".   *)
Actions == {"upload", "markseen", "delete"}
Job == [action : Actions, msg : Msgs]
JobFor(a, m) == [action |-> a, msg |-> m]

ASSUME NoJobAssumption == NoJob \notin Job

VARIABLES
    row,        \* [Msgs -> where the row of the table msgs is; "again": a
                \*  new row, of a message that was downloaded once more]
    dbFolder,   \* [Msgs -> msgs.server_folder]
    jobs,       \* rows of the table jobs
    mdnJobs,    \* [Msgs -> rows DC_JOB_SEND_MDN ever added]
    copies,     \* [Msgs -> copies on the server not marked \Deleted]
    folder,     \* [Msgs -> the folder they are in]
    newUid,     \* messages with a UID above lastseenuid of their folder
    seen,       \* messages marked \Seen on the server
    mdnSent,    \* messages marked $MDNSent on the server
    refused,    \* history: messages a flag of which the server refused
    connected,  \* imap->connected
    stream,     \* imap->etpan: "none", "open", or "dead" without notice
    reconnect,  \* imap->should_reconnect
    at,         \* control state of the IMAP thread
    todo,       \* rows of the running SELECT not yet taken
    cur,        \* the job being performed
    attempt,    \* `tries` of dc_job_perform(): 0 or 1
    result,     \* what dc_imap_markseen_msg() returned
    requested,  \* history: uploads and markseens ever requested
    faults      \* faults so far

db      == <<row, dbFolder, jobs, mdnJobs>>
server  == <<copies, folder, newUid, seen, mdnSent, refused>>
handle  == <<connected, stream, reconnect>>
control == <<at, todo, cur, attempt, result>>
vars    == <<db, server, handle, control, requested, faults>>

-----------------------------------------------------------------------------
AtState == {"idle", "next", "run", "appended", "marked", "unrow",
            "retry", "later", "finish", "fetch", "fetching"}

Result == [moved : {0, 1}, mdn : {0, 1}]
Nothing == [moved |-> 0, mdn |-> 0]

TypeOK ==
    /\ row \in [Msgs -> {"chat", "trash", "gone", "again"}]
    /\ dbFolder \in [Msgs -> {"none", "INBOX", "Chats"}]
    /\ jobs \in SUBSET Job
    /\ mdnJobs \in [Msgs -> Nat]
    /\ copies \in [Msgs -> Nat]
    /\ folder \in [Msgs -> {"INBOX", "Chats"}]
    /\ newUid \in SUBSET Msgs /\ seen \in SUBSET Msgs /\ mdnSent \in SUBSET Msgs
    /\ refused \in SUBSET Msgs
    /\ connected \in {0, 1}
    /\ stream \in {"none", "open", "dead"}
    /\ reconnect \in {0, 1}
    /\ at \in AtState
    /\ todo \in SUBSET Job
    /\ cur \in Job \cup {NoJob}
    /\ attempt \in {0, 1}
    /\ result \in Result
    /\ requested \in SUBSET Msgs
    /\ faults \in Nat

Init ==
    /\ row = [m \in Msgs |-> "chat"]
    /\ dbFolder = [m \in Msgs |-> IF m \in Incoming THEN "INBOX" ELSE "none"]
    /\ jobs = {}
    /\ mdnJobs = [m \in Msgs |-> 0]
    /\ copies = [m \in Msgs |-> IF m \in Incoming THEN 1 ELSE 0]
    /\ folder = [m \in Msgs |-> IF m \in Incoming THEN "INBOX" ELSE "Chats"]
    /\ newUid = {} /\ seen = {} /\ mdnSent = {} /\ refused = {}
    /\ connected = 0 /\ stream = "none" /\ reconnect = 0
    /\ at = "idle" /\ todo = {} /\ cur = NoJob /\ attempt = 0 /\ result = Nothing
    /\ requested = {}
    /\ faults = 0

-----------------------------------------------------------------------------
(* Other threads add jobs.                                                 *)

(* dc_markseen_msgs() for a fresh message, or the SMTP thread after a      *)
(* successful send - of a message that may be deleted meanwhile; once per  *)
(* message.                                                                *)
Request(m) ==
    /\ m \notin requested
    /\ m \in Incoming => row[m] = "chat"
    /\ requested' = requested \cup {m}
    /\ jobs' = jobs \cup {JobFor(IF m \in Incoming THEN "markseen" ELSE "upload", m)}
    /\ UNCHANGED <<row, dbFolder, mdnJobs, server, handle, control, faults>>

(* dc_delete_msgs()                                                        *)
DeleteMsgs(m) ==
    /\ row[m] = "chat"
    /\ row' = [row EXCEPT ![m] = "trash"]
    /\ jobs' = jobs \cup {JobFor("delete", m)}
    /\ UNCHANGED <<dbFolder, mdnJobs, server, handle, control, requested, faults>>

-----------------------------------------------------------------------------
(* dc_job_perform(): the rows of one SELECT, by action.                    *)

StartPass ==
    /\ at = "idle"
    /\ at' = "next"
    /\ todo' = jobs
    /\ UNCHANGED <<db, server, handle, cur, attempt, result, requested, faults>>

Before(a, b) == a = b \/ a = "upload" \/ b = "delete"

NextJob(j) ==
    /\ at = "next"
    /\ j \in todo
    /\ \A k \in todo : Before(j.action, k.action)
    /\ at' = "run"
    /\ todo' = todo \ {j}
    /\ cur' = j
    /\ attempt' = 0
    /\ UNCHANGED <<db, server, handle, result, requested, faults>>

EndPass ==
    /\ at = "next"
    /\ todo = {}
    /\ at' = "fetch"
    /\ cur' = NoJob
    /\ UNCHANGED <<db, server, handle, todo, attempt, result, requested, faults>>

(* Mutant: one attempt too many.                                           *)
TryAgainTwice ==
    /\ at = "retry"
    /\ at' = IF attempt <= 1 THEN "run" ELSE "later"
    /\ attempt' = attempt + 1
    /\ UNCHANGED <<db, server, handle, todo, cur, result, requested, faults>>

(* DC_AT_ONCE: a second attempt, then later.                               *)
TryAgain ==
    /\ at = "retry"
    /\ at' = IF attempt = 0 THEN "run" ELSE "later"
    /\ attempt' = 1
    /\ UNCHANGED <<db, server, handle, todo, cur, result, requested, faults>>

(* The row is kept: the number of tries that would end this never rises    *)
(* (module SendMsg).                                                       *)
TryAgainLater ==
    /\ at = "later"
    /\ at' = "next"
    /\ UNCHANGED <<db, server, handle, todo, cur, attempt, result, requested, faults>>

DeleteJob ==
    /\ at = "finish"
    /\ jobs' = jobs \ {cur}
    /\ at' = "next"
    /\ UNCHANGED <<row, dbFolder, mdnJobs, server, handle, todo, cur, attempt, result,
                   requested, faults>>

-----------------------------------------------------------------------------
(* The connection.                                                         *)

(* dc_msg_load_from_db() does not find the message of the job.             *)
RowIsGone == row[cur.msg] \in {"gone", "again"}

(* dc_imap_connect() of a handler: it does nothing as long as `connected`, *)
(* even if there is no stream.                                             *)
Connect(s) ==
    /\ connected' = IF s = "open" THEN 1 ELSE 0
    /\ stream' = s
    /\ reconnect' = 0

ConnectForJob(s) ==
    /\ at = "run"
    /\ connected = 0
    /\ ~(cur.action = "delete" /\ RowIsGone)
    /\ Connect(s)
    /\ at' = IF s = "open" THEN "run" ELSE "later"
    /\ UNCHANGED <<db, server, todo, cur, attempt, result, requested, faults>>

(* Mutant: a lost stream is not replaced.                                  *)
SetupHandleNoReconnect(s) ==
    /\ at = "fetch"
    /\ \/ connected = 0 /\ Connect(s)
       \/ /\ connected = 1 /\ stream = "none"
          /\ stream' = s
          /\ UNCHANGED <<connected, reconnect>>
       \/ /\ connected = 1 /\ stream # "none"
          /\ reconnect' = IF stream = "dead" THEN 1 ELSE 0
          /\ UNCHANGED <<connected, stream>>
    /\ at' = "fetching"
    /\ UNCHANGED <<db, server, todo, cur, attempt, result, requested, faults>>

(* dc_perform_imap_fetch(): connect, or set up the stream again, or have   *)
(* the first command notice that the stream is dead.                       *)
SetupHandle(s) ==
    /\ at = "fetch"
    /\ \/ connected = 0 /\ Connect(s)
       \/ /\ connected = 1 /\ (stream = "none" \/ reconnect = 1)
          /\ stream' = s /\ reconnect' = 0
          /\ UNCHANGED connected
       \/ /\ connected = 1 /\ stream # "none" /\ reconnect = 0
          /\ reconnect' = IF stream = "dead" THEN 1 ELSE 0
          /\ UNCHANGED <<connected, stream>>
    /\ at' = "fetching"
    /\ UNCHANGED <<db, server, todo, cur, attempt, result, requested, faults>>

(* The fetch of a UID not seen before: dc_receive_imf() finds the          *)
(* Message-ID in the database and notes the folder, or stores the message: *)
(* with a new id, so that the old jobs do not find it.                     *)
FetchMsg(m) ==
    /\ at = "fetching"
    /\ stream = "open"
    /\ m \in newUid
    /\ newUid' = newUid \ {m}
    /\ IF copies[m] > 0
       THEN /\ dbFolder' = [dbFolder EXCEPT ![m] = folder[m]]
            /\ row' = IF row[m] = "gone" THEN [row EXCEPT ![m] = "again"] ELSE row
       ELSE UNCHANGED <<dbFolder, row>>
    /\ UNCHANGED <<jobs, mdnJobs, copies, folder, seen, mdnSent, refused, handle, control,
                   requested, faults>>

(* The full fetch of all folders takes place every 22 minutes only.        *)
EndFetch ==
    /\ at = "fetching"
    /\ at' = "idle"
    /\ UNCHANGED <<db, server, handle, todo, cur, attempt, result, requested, faults>>

-----------------------------------------------------------------------------
Running(action) ==
    at = "run" /\ connected = 1 /\ cur.action = action /\ ~RowIsGone

(* The message is gone: nothing to do, no retry.                           *)
NoRow ==
    /\ at = "run"
    /\ connected = 1 \/ cur.action = "delete"
    /\ RowIsGone
    /\ at' = "finish"
    /\ UNCHANGED <<db, server, handle, todo, cur, attempt, result, requested, faults>>

(* A fault: the command was executed perhaps, but the stream is dead.      *)
StreamDies ==
    /\ faults < MaxFaults
    /\ faults' = faults + 1
    /\ stream' = "dead"
    /\ reconnect' = 1
    /\ UNCHANGED connected

(* A command on a stream that is not open: is_error() asks for a           *)
(* reconnect, if there is a stream at all.                                 *)
CommandFails ==
    /\ stream # "open"
    /\ reconnect' = IF stream = "dead" THEN 1 ELSE reconnect
    /\ UNCHANGED <<connected, stream, faults>>

(* dc_imap_append_msg()                                                    *)
AppendCopy(m) ==
    /\ copies' = [copies EXCEPT ![m] = @ + 1]
    /\ newUid' = newUid \cup {m}
    /\ UNCHANGED <<folder, seen, mdnSent, refused>>

Append ==
    /\ Running("upload")
    /\ stream = "open"
    /\ AppendCopy(cur.msg)
    /\ at' = "appended"
    /\ UNCHANGED <<db, handle, todo, cur, attempt, result, requested, faults>>

(* The stream dies before or after the server has the message.             *)
AppendFails ==
    /\ Running("upload")
    /\ \/ CommandFails /\ UNCHANGED server
       \/ stream = "open" /\ StreamDies /\ (UNCHANGED server \/ AppendCopy(cur.msg))
    /\ at' = "retry"
    /\ UNCHANGED <<db, todo, cur, attempt, result, requested>>

(* Mutant: the job is tried again in spite of the success.                 *)
NoteUploadRetry ==
    /\ at = "appended"
    /\ dbFolder' = IF RowIsGone THEN dbFolder
                   ELSE [dbFolder EXCEPT ![cur.msg] = "Chats"]
    /\ at' = "retry"
    /\ UNCHANGED <<row, jobs, mdnJobs, server, handle, todo, cur, attempt, result,
                   requested, faults>>

(* dc_update_server_uid() after the APPEND.                                *)
NoteUpload ==
    /\ at = "appended"
    /\ dbFolder' = IF RowIsGone THEN dbFolder
                   ELSE [dbFolder EXCEPT ![cur.msg] = "Chats"]
    /\ at' = "finish"
    /\ UNCHANGED <<row, jobs, mdnJobs, server, handle, todo, cur, attempt, result,
                   requested, faults>>

-----------------------------------------------------------------------------
(* dc_imap_delete_msg(): it returns 0 only if not `connected` - which it   *)
(* always is here, whatever became of the stream.                          *)

(* Mutant: the copy is only looked for in the inbox.                       *)
DeleteInbox ==
    /\ Running("delete")
    /\ dbFolder[cur.msg] # "none" => stream = "open"
    /\ copies' = IF dbFolder[cur.msg] # "INBOX" \/ copies[cur.msg] = 0 THEN copies
                 ELSE [copies EXCEPT ![cur.msg] = @ - 1]
    /\ at' = "unrow"
    /\ UNCHANGED <<db, folder, newUid, seen, mdnSent, refused, handle, todo, cur, attempt,
                   result, requested, faults>>

(* No folder: nothing to do.  Otherwise one copy is marked \Deleted, by    *)
(* its UID or by a search for its Message-ID.                              *)
Delete ==
    /\ Running("delete")
    /\ dbFolder[cur.msg] # "none" => stream = "open"
    /\ copies' = IF dbFolder[cur.msg] = "none" \/ copies[cur.msg] = 0 THEN copies
                 ELSE [copies EXCEPT ![cur.msg] = @ - 1]
    /\ at' = "unrow"
    /\ UNCHANGED <<db, folder, newUid, seen, mdnSent, refused, handle, todo, cur, attempt,
                   result, requested, faults>>

DeleteFails ==
    /\ Running("delete")
    /\ dbFolder[cur.msg] # "none"
    /\ \/ CommandFails /\ UNCHANGED copies
       \/ /\ stream = "open" /\ StreamDies
          /\ \/ UNCHANGED copies
             \/ copies[cur.msg] > 0 /\ copies' = [copies EXCEPT ![cur.msg] = @ - 1]
    /\ at' = "unrow"
    /\ UNCHANGED <<db, folder, newUid, seen, mdnSent, refused, todo, cur, attempt, result,
                   requested>>

(* The row is deleted from the database.                                   *)
DeleteRow ==
    /\ at = "unrow"
    /\ row' = [row EXCEPT ![cur.msg] = "gone"]
    /\ at' = "finish"
    /\ UNCHANGED <<dbFolder, jobs, mdnJobs, server, handle, todo, cur, attempt, result,
                   requested, faults>>

-----------------------------------------------------------------------------
(* dc_imap_markseen_msg(): \Seen; then $MDNSent, if it is not set; then    *)
(* the move.  A UID that is not in the folder is ignored by the server.    *)

InPlace(m) == copies[m] > 0 /\ folder[m] = dbFolder[m]

MoveOnServer(m, moved) ==
    /\ folder' = IF moved = 1 THEN [folder EXCEPT ![m] = "Chats"] ELSE folder
    /\ newUid' = IF moved = 1 THEN newUid \cup {m} ELSE newUid
    /\ UNCHANGED copies

(* Mutant: the message is moved before it is marked.                       *)
MarkOnServerMoveFirst(m, steps, moved) ==
    LET here == InPlace(m) /\ moved = 0 IN
    /\ seen' = IF here /\ steps >= 1 THEN seen \cup {m} ELSE seen
    /\ mdnSent' = IF here /\ steps >= 2 /\ MdnFlag THEN mdnSent \cup {m} ELSE mdnSent
    /\ MoveOnServer(m, IF steps >= 3 THEN moved ELSE 0)
    /\ UNCHANGED refused

(* The first `steps` of the three changes of the server.                   *)
MarkOnServer(m, steps, moved) ==
    LET here == InPlace(m) IN
    /\ seen' = IF here /\ steps >= 1 THEN seen \cup {m} ELSE seen
    /\ mdnSent' = IF here /\ steps >= 2 /\ MdnFlag THEN mdnSent \cup {m} ELSE mdnSent
    /\ MoveOnServer(m, IF steps >= 3 THEN moved ELSE 0)
    /\ UNCHANGED refused

(* The receipt is to be sent: $MDNSent is not set yet, or cannot be.       *)
(* Without PERMANENTFLAGS there is none, in spite of RFC 3501.             *)
MdnJustSet(m) ==
    /\ PermanentFlags # "none"
    /\ MdnFlag => m \notin mdnSent /\ InPlace(m)

(* It is moved, or it is there already, or the server refuses.             *)
Movable(m) == InPlace(m) /\ folder[m] = "INBOX"

MarkSeenNothing ==
    /\ Running("markseen")
    /\ dbFolder[cur.msg] = "none" \/ (stream = "none" /\ reconnect = 0)
    /\ at' = "finish"
    /\ UNCHANGED <<db, server, handle, todo, cur, attempt, result, requested, faults>>

(* Mutant: the receipt is sent whether or not $MDNSent is set.             *)
MarkSeenAlwaysMdn(moved) ==
    /\ Running("markseen")
    /\ dbFolder[cur.msg] # "none" /\ stream = "open"
    /\ moved = 1 => Movable(cur.msg)
    /\ MarkOnServer(cur.msg, 3, moved)
    /\ result' = [moved |-> moved, mdn |-> 1]
    /\ at' = "marked"
    /\ UNCHANGED <<db, handle, todo, cur, attempt, requested, faults>>

MarkSeen(moved) ==
    /\ Running("markseen")
    /\ dbFolder[cur.msg] # "none" /\ stream = "open"
    /\ moved = 1 => Movable(cur.msg)
    /\ MarkOnServer(cur.msg, 3, moved)
    /\ result' = [moved |-> moved, mdn |-> IF MdnJustSet(cur.msg) THEN 1 ELSE 0]
    /\ at' = "marked"
    /\ UNCHANGED <<db, handle, todo, cur, attempt, requested, faults>>

(* A fault: the server refuses to store one of the flags or both, which is *)
(* taken for a success; the receipt is sent all the same.                  *)
MarkSeenRefused(moved) ==
    /\ Running("markseen")
    /\ InPlace(cur.msg) /\ stream = "open"
    /\ moved = 1 => Movable(cur.msg)
    /\ faults < MaxFaults
    /\ faults' = faults + 1
    /\ refused' = refused \cup {cur.msg}
    /\ seen' \in {seen, seen \cup {cur.msg}}
    /\ mdnSent' \in {mdnSent, IF MdnFlag THEN mdnSent \cup {cur.msg} ELSE mdnSent}
    /\ MoveOnServer(cur.msg, moved)
    /\ result' = [moved |-> moved, mdn |-> IF MdnJustSet(cur.msg) THEN 1 ELSE 0]
    /\ at' = "marked"
    /\ UNCHANGED <<db, handle, todo, cur, attempt, requested>>

(* The stream dies on the way, after some of the changes.                  *)
MarkSeenFails(steps) ==
    /\ Running("markseen")
    /\ dbFolder[cur.msg] # "none"
    /\ \/ stream = "open" /\ StreamDies
          /\ MarkOnServer(cur.msg, steps, IF Movable(cur.msg) THEN 1 ELSE 0)
       \/ CommandFails /\ reconnect' = 1 /\ UNCHANGED server
    /\ at' = "retry"
    /\ UNCHANGED <<db, todo, cur, attempt, result, requested>>

(* Mutant: the new folder is forgotten.                                    *)
NoteMarkSeenNoFolder ==
    /\ at = "marked"
    /\ mdnJobs' = [mdnJobs EXCEPT ![cur.msg] = @ + result.mdn]
    /\ result' = Nothing
    /\ at' = "finish"
    /\ UNCHANGED <<row, dbFolder, jobs, server, handle, todo, cur, attempt, requested,
                   faults>>

(* The rest of the handler: the new folder, and the job DC_JOB_SEND_MDN.   *)
NoteMarkSeen ==
    /\ at = "marked"
    /\ dbFolder' = IF result.moved = 1 /\ ~RowIsGone
                   THEN [dbFolder EXCEPT ![cur.msg] = "Chats"] ELSE dbFolder
    /\ mdnJobs' = [mdnJobs EXCEPT ![cur.msg] = @ + result.mdn]
    /\ result' = Nothing
    /\ at' = "finish"
    /\ UNCHANGED <<row, jobs, server, handle, todo, cur, attempt, requested, faults>>

-----------------------------------------------------------------------------
(* The stream breaks without notice.                                       *)
LoseStream ==
    /\ stream = "open"
    /\ faults < MaxFaults
    /\ faults' = faults + 1
    /\ stream' = "dead"
    /\ UNCHANGED <<db, server, connected, reconnect, control, requested>>

Crash ==
    /\ faults < MaxFaults
    /\ faults' = faults + 1
    /\ connected' = 0 /\ stream' = "none" /\ reconnect' = 0
    /\ at' = "idle" /\ todo' = {} /\ cur' = NoJob /\ attempt' = 0 /\ result' = Nothing
    /\ UNCHANGED <<db, server, requested>>

ImapStep ==
    \/ StartPass \/ EndPass \/ TryAgain \/ TryAgainLater \/ DeleteJob
    \/ \E j \in Job : NextJob(j)
    \/ \E s \in {"none", "open"} : ConnectForJob(s) \/ SetupHandle(s)
    \/ EndFetch \/ NoRow
    \/ Append \/ AppendFails \/ NoteUpload
    \/ Delete \/ DeleteFails \/ DeleteRow
    \/ MarkSeenNothing \/ NoteMarkSeen
    \/ \E moved \in {0, 1} : MarkSeen(moved) \/ MarkSeenRefused(moved)
    \/ \E steps \in 0..3 : MarkSeenFails(steps)

Next ==
    \/ ImapStep
    \/ \E m \in Msgs : FetchMsg(m) \/ Request(m) \/ DeleteMsgs(m)
    \/ LoseStream \/ Crash

Spec == Init /\ [][Next]_vars

(* The IMAP thread is scheduled; a server that is tried again and again    *)
(* can be connected to some day.                                           *)
FairSpec ==
    /\ Spec
    /\ WF_vars(ImapStep)
    /\ SF_vars(ConnectForJob("open")) /\ SF_vars(SetupHandle("open"))

-----------------------------------------------------------------------------
(* $MDNSent makes a receipt be sent once, in spite of retries and crashes; *)
(* without that flag, or if the server refused to set a flag, a crash may  *)
(* have it sent again.                                                     *)
Remembered(m) == MdnFlag /\ m \notin refused

OneReceipt ==
    \A m \in Msgs : mdnJobs[m] <= 1 + (IF Remembered(m) THEN 0 ELSE faults)

(* A second copy is uploaded only after a fault.                           *)
OneUpload == \A m \in Msgs : copies[m] <= 1 + faults

(* As long as nothing breaks, the database knows where a message is,       *)
(* unless the thread is just about to note it.                             *)
LocationIsKnown ==
    faults = 0 =>
        \A m \in Msgs :
            /\ copies[m] > 0 /\ row[m] \in {"chat", "trash"}
            /\ ~(at \in {"appended", "marked"} /\ cur.msg = m)
            => dbFolder[m] = folder[m]

(* As long as nothing breaks, a message without a row in the database is   *)
(* not on the server: it is not downloaded again.                          *)
DeletedFromServer ==
    faults = 0 => \A m \in Msgs : row[m] = "gone" => copies[m] = 0

(* As long as nothing breaks, a message read by the user is \Seen on the   *)
(* server, and its receipt is under way, when its job is done.  (A server  *)
(* that does not send PERMANENTFLAGS keeps every receipt from being sent.) *)
Receipts == IF PermanentFlags = "none" THEN 0 ELSE 1

ReadIsReported ==
    faults = 0 =>
        \A m \in Incoming :
            m \in requested /\ row[m] = "chat" /\ JobFor("markseen", m) \notin jobs
            => m \in seen /\ mdnJobs[m] = Receipts

(* Every job is done some day.                                             *)
JobIsDone == \A j \in Job : j \in jobs ~> j \notin jobs

-----------------------------------------------------------------------------
(* The inductive invariant of ServerJobsProofs.                            *)

(* The job is still to be executed, once more at least.                    *)
ToDo(j) == j \in jobs /\ ~(cur = j /\ at \in {"appended", "marked", "finish"})

(* The thread works on rows it has taken out of its list; the rows are of  *)
(* messages somebody asked for.                                            *)
RowsInv ==
    /\ todo \subseteq jobs
    /\ at \in AtState \ {"idle", "next", "fetch", "fetching"} =>
           cur \in jobs /\ cur \notin todo
    /\ at = "appended" => cur.action = "upload"
    /\ at = "marked" => cur.action = "markseen"
    /\ at = "unrow" => cur.action = "delete"
    /\ \A j \in jobs :
          /\ j.action = "upload" => j.msg \in Outgoing /\ j.msg \in requested
          /\ j.action = "markseen" => j.msg \in Incoming /\ j.msg \in requested
          /\ j.action = "delete" => row[j.msg] # "chat"

(* Remembered: the receipt is counted on the server.  Otherwise: by        *)
(* the row of the job, that only a fault lets survive its execution.       *)
ReceiptInv ==
    \A m \in Msgs :
        /\ Remembered(m) =>
              /\ mdnJobs[m] <= 1
              /\ m \notin mdnSent => mdnJobs[m] = 0
              /\ at = "marked" /\ cur.msg = m /\ result.mdn = 1 =>
                     m \in mdnSent /\ mdnJobs[m] = 0
        /\ ~Remembered(m) =>
              /\ mdnJobs[m] <= 1 + faults
              /\ m \notin requested => mdnJobs[m] = 0
              /\ ToDo(JobFor("markseen", m)) => mdnJobs[m] <= faults
              /\ at = "marked" /\ cur.msg = m => mdnJobs[m] <= faults

UploadInv ==
    /\ \A m \in Incoming : copies[m] <= 1
    /\ \A m \in Outgoing :
          /\ folder[m] = "Chats"
          /\ copies[m] <= 1 + faults
          /\ m \notin requested => copies[m] = 0
          /\ ToDo(JobFor("upload", m)) => copies[m] <= faults

(* Without a fault, a thread that is connected has a stream,               *)
StreamInv ==
    faults = 0 => /\ stream # "dead"
                  /\ reconnect = 0
                  /\ connected = 1 => stream = "open"

(* knows where the messages are and has deleted those that have no row,    *)
PlaceInv ==
    faults = 0 =>
        \A m \in Msgs :
            /\ row[m] \in {"gone", "again"} => copies[m] = 0
            /\ at = "unrow" /\ cur.msg = m => copies[m] = 0
            /\ m \in Incoming /\ row[m] = "chat" => copies[m] > 0
            /\ at = "marked" /\ cur.msg = m /\ copies[m] > 0 /\ row[m] \in {"chat", "trash"}
                => folder[m] = IF result.moved = 1 THEN "Chats" ELSE dbFolder[m]

(* and reports what was read.                                              *)
ReadInv ==
    faults = 0 =>
        \A m \in Incoming :
            LET j == JobFor("markseen", m) IN
            /\ m \notin requested \/ ToDo(j) => m \notin mdnSent /\ mdnJobs[m] = 0
            /\ cur = j /\ at = "marked" /\ row[m] = "chat" =>
                   m \in seen /\ mdnJobs[m] = 0 /\ result.mdn = Receipts
            /\ cur = j /\ at = "finish" /\ row[m] = "chat" => m \in seen /\ mdnJobs[m] = Receipts

IInv ==
    /\ TypeOK /\ RowsInv /\ ReceiptInv /\ UploadInv
    /\ StreamInv /\ PlaceInv /\ LocationIsKnown /\ ReadInv /\ ReadIsReported

-----------------------------------------------------------------------------
(* $MDNSent is only set where \Seen was set before, or refused.            *)
SeenFirst == mdnSent \subseteq seen \cup refused

(* The refinement: the messages on the server, and what was asked for.     *)
Promise == INSTANCE Mailbox WITH
    asked    <- requested,
    dropped  <- {m \in Msgs : row[m] # "chat"},
    copies   <- copies,
    seen     <- seen,
    receipts <- mdnJobs,
    refused  <- refused,
    faults   <- faults

(* Whatever breaks in a job, and whatever the user deletes meanwhile: the  *)
(* server is changed as Mailbox allows, no message is deleted, marked or   *)
(* uploaded for which that was not asked, or once more without a fault.    *)
ImplementsMailbox == Promise!Spec
=============================================================================
