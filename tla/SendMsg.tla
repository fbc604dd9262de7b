------------------------------- MODULE SendMsg -------------------------------
(***************************************************************************)
(* The life of an outgoing message: from dc_send_msg_object() through the  *)
(* job DC_JOB_SEND_MSG_TO_SMTP of the SMTP thread to the read receipts     *)
(* (MDNs) the IMAP thread receives, with retries, lost replies, deletion   *)
(* by the user and crashes in between (src/src/dc_chat.c, dc_job.c,        *)
(* dc_msg.c).                                                              *)
(*                                                                         *)
(* The SMTP thread calls dc_job_perform() again and again (module          *)
(* SmtpIdle); rows of one second have no order, so a pass takes the rows   *)
(* it selected in any order.                                               *)
(***************************************************************************)
EXTENDS Naturals, FiniteSets

CONSTANTS
    Msgs,            \* outgoing messages
    Recipients,      \* who else can be a member of the chat
    Self,            \* DC_CONTACT_ID_SELF
    NoMsg,           \* no message
    JobRetries,      \* JOB_RETRIES
    ServerAccepts,   \* FALSE: the SMTP server rejects whatever it is given
    ExtraUpload,     \* FALSE: DC_NO_EXTRA_IMAP_UPLOAD, the server keeps a copy itself
    MaxLost,         \* bound: replies of the SMTP server that get lost
    MaxCrashes,      \* bound: crashes
    MaxNetChanges,   \* bound: how often the network goes or comes back
    MaxMemberChanges \* bound: how often the members of the chat change

ASSUME ConstantsAssumption ==
    /\ NoMsg \notin Msgs
    /\ Self \notin Recipients /\ IsFiniteSet(Recipients)
    /\ JobRetries \in Nat \ {0}
    /\ ServerAccepts \in BOOLEAN /\ ExtraUpload \in BOOLEAN
    /\ MaxLost \in Nat /\ MaxCrashes \in Nat /\ MaxNetChanges \in Nat
    /\ MaxMemberChanges \in Nat

VARIABLES
    row,        \* [Msgs -> where the row of the table msgs is]
    state,      \* [Msgs -> msgs.state]
    mdns,       \* [Msgs -> contacts in msgs_mdns]
    notice,     \* messages that tell of a removed member, named in their DC_PARAM_CMD_ARG
    members,    \* chats_contacts of the chat: its members now
    sendJobs,   \* rows DC_JOB_SEND_MSG_TO_SMTP of the table jobs
    tries,      \* [Msgs -> DC_PARAM_TIMES of that row]
    uploads,    \* [Msgs -> number of rows DC_JOB_SEND_MSG_TO_IMAP]
    deletes,    \* rows DC_JOB_DELETE_MSG_ON_IMAP
    adding,     \* dc_send_msg_raw() has inserted the message, not yet the job
    smtp,       \* control state of the SMTP thread
    todo,       \* rows of the running SELECT not yet taken
    cur,        \* the message of the job being performed
    attempt,    \* `tries` of dc_job_perform(): 0 or 1
    to,         \* recipients_addr: is there somebody to send the message to?
    lastOnline, \* last_online_state
    receipt,    \* dc_mdn_from_ext() between its SELECT and its UPDATE
    online,     \* the answer to DC_EVENT_IS_OFFLINE
    copies,     \* history: [Msgs -> how often the server accepted it]
    unrecorded, \* history: [Msgs -> acceptances the core did not record]
    torn,       \* history: inserted, but a crash came before dc_job_add()
    alone,      \* history: loaded from a chat with nobody else in it
    lost,       \* replies of the server lost so far
    crashes,    \* crashes so far
    netChanges, \* changes of online so far
    memberChanges \* changes of members so far

msgs    == <<row, state, mdns, notice>>
jobs    == <<sendJobs, tries, uploads, deletes>>
thread  == <<smtp, todo, cur, attempt, to, lastOnline>>
history == <<copies, unrecorded, torn, alone>>
bounds  == <<lost, crashes, netChanges, memberChanges>>
vars    == <<msgs, members, jobs, adding, thread, receipt, online, history, bounds>>

-----------------------------------------------------------------------------
SmtpState == {"idle", "next", "load", "send", "done", "sent", "retry", "poll", "drop"}

NoReceipt == [msg |-> NoMsg, from |-> NoMsg, chat |-> "gone"]

Everybody == Recipients \cup {Self}

InDb(m) == row[m] \in {"chat", "trash"}

TypeOK ==
    /\ row \in [Msgs -> {"none", "chat", "trash", "gone"}]
    /\ state \in [Msgs -> {"pending", "error", "delivered", "read"}]
    /\ mdns \in [Msgs -> SUBSET Recipients]
    /\ notice \in SUBSET Msgs
    /\ members \in SUBSET Everybody
    /\ sendJobs \in SUBSET Msgs
    /\ tries \in [Msgs -> Nat]
    /\ uploads \in [Msgs -> Nat]
    /\ deletes \in SUBSET Msgs
    /\ adding \in SUBSET Msgs
    /\ smtp \in SmtpState
    /\ todo \in SUBSET Msgs
    /\ cur \in Msgs \cup {NoMsg}
    /\ attempt \in {0, 1}
    /\ to \in {"somebody", "nobody"}
    /\ lastOnline \in {0, 1}
    /\ receipt \in {NoReceipt} \cup
            [msg : Msgs, from : Recipients, chat : {"chat", "trash"}]
    /\ online \in {0, 1}
    /\ copies \in [Msgs -> Nat]
    /\ unrecorded \in [Msgs -> Nat]
    /\ torn \in SUBSET Msgs /\ alone \in SUBSET Msgs
    /\ lost \in Nat /\ crashes \in Nat /\ netChanges \in Nat /\ memberChanges \in Nat

Init ==
    /\ row = [m \in Msgs |-> "none"]
    /\ state = [m \in Msgs |-> "pending"]
    /\ mdns = [m \in Msgs |-> {}] /\ notice = {}
    /\ members \in SUBSET Everybody /\ Self \in members
    /\ sendJobs = {} /\ tries = [m \in Msgs |-> 0]
    /\ uploads = [m \in Msgs |-> 0] /\ deletes = {}
    /\ adding = {}
    /\ smtp = "idle" /\ todo = {} /\ cur = NoMsg /\ attempt = 0 /\ to = "nobody"
    /\ lastOnline = 0
    /\ receipt = NoReceipt
    /\ online \in {0, 1} /\ (MaxNetChanges = 0 => online = 1)
    /\ copies = [m \in Msgs |-> 0]
    /\ unrecorded = [m \in Msgs |-> 0]
    /\ torn = {} /\ alone = {}
    /\ lost = 0 /\ crashes = 0 /\ netChanges = 0 /\ memberChanges = 0

-----------------------------------------------------------------------------
(* The user.                                                               *)

(* dc_send_msg_raw(): the row, and then its job - two autocommits.  The    *)
(* notice of dc_remove_contact_from_chat() is sent in this way, too.       *)
InsertMsg(m) ==
    /\ row[m] = "none"
    /\ Self \in members
    /\ row' = [row EXCEPT ![m] = "chat"]
    /\ notice' \in {notice, notice \cup {m}}
    /\ adding' = adding \cup {m}
    /\ UNCHANGED <<state, mdns, members, jobs, thread, receipt, online, history, bounds>>

AddSendJob(m) ==
    /\ m \in adding
    /\ adding' = adding \ {m}
    /\ sendJobs' = sendJobs \cup {m}
    /\ UNCHANGED <<msgs, members, tries, uploads, deletes, thread, receipt, online, history, bounds>>

(* dc_delete_msgs(): one transaction.                                      *)
DeleteMsgs(m) ==
    /\ row[m] = "chat"
    /\ m \notin adding
    /\ row' = [row EXCEPT ![m] = "trash"]
    /\ deletes' = deletes \cup {m}
    /\ UNCHANGED <<state, mdns, notice, members, sendJobs, tries, uploads, adding, thread,
                   receipt, online, history, bounds>>

(* Members come and go: by dc_add_contact_to_chat() and                    *)
(* dc_remove_contact_from_chat() of the user, or by a mail of another      *)
(* member, which may replace the whole list.                               *)
ChangeMembers ==
    /\ memberChanges < MaxMemberChanges
    /\ memberChanges' = memberChanges + 1
    /\ members' \in SUBSET Everybody
    /\ UNCHANGED <<msgs, jobs, adding, thread, receipt, online, history, lost, crashes,
                   netChanges>>

-----------------------------------------------------------------------------
(* The SMTP thread: dc_job_perform() and its job.                          *)

StartPass ==
    /\ smtp = "idle"
    /\ sendJobs # {}
    /\ smtp' = "next"
    /\ todo' = sendJobs
    /\ UNCHANGED <<msgs, members, jobs, adding, cur, attempt, to, lastOnline, receipt, online,
                   history, bounds>>

NextJob(m) ==
    /\ smtp = "next"
    /\ m \in todo
    /\ smtp' = "load"
    /\ todo' = todo \ {m}
    /\ cur' = m
    /\ attempt' = 0
    /\ UNCHANGED <<msgs, members, jobs, adding, to, lastOnline, receipt, online, history, bounds>>

EndPass ==
    /\ smtp = "next"
    /\ todo = {}
    /\ smtp' = "idle"
    /\ UNCHANGED <<msgs, members, jobs, adding, todo, cur, attempt, to, lastOnline, receipt,
                   online, history, bounds>>

(* Nothing but the control state of the SMTP thread changes.               *)
Goto(s) ==
    /\ smtp' = s
    /\ UNCHANGED <<msgs, members, jobs, adding, todo, cur, attempt, to, lastOnline, receipt,
                   online, history, bounds>>

(* Not connected, and dc_smtp_connect() fails: DC_STANDARD_DELAY.          *)
CannotConnect ==
    /\ smtp = "load"
    /\ Goto("retry")

(* Mutant: a message that cannot be loaded is tried again.                 *)
CannotLoadRetry ==
    /\ smtp = "load"
    /\ ~InDb(cur)
    /\ Goto("retry")

(* dc_mimefactory_load_msg() fails: the message is gone.                   *)
CannotLoad ==
    /\ smtp = "load"
    /\ ~InDb(cur)
    /\ Goto("drop")

(* The file is not ready: DC_INCREATION_POLL.                              *)
InCreation ==
    /\ smtp = "load"
    /\ InDb(cur)
    /\ Goto("poll")

(* recipients_addr: the members of the chat the message is in by now (the  *)
(* trash has none), and the removed member a notice is about.              *)
HasRecipients(m) == m \in notice \/ (row[m] = "chat" /\ members \ {Self} # {})

(* Loaded.  Without recipients nothing is sent, and the job goes on as     *)
(* after a success: `this is a group with only OURSELF'.                   *)
LoadMsg ==
    /\ smtp = "load"
    /\ InDb(cur)
    /\ to' = IF HasRecipients(cur) THEN "somebody" ELSE "nobody"
    /\ smtp' = IF HasRecipients(cur) THEN "send" ELSE "done"
    /\ alone' = IF HasRecipients(cur) \/ row[cur] = "trash" THEN alone ELSE alone \cup {cur}
    /\ UNCHANGED <<msgs, members, jobs, adding, todo, cur, attempt, lastOnline, receipt, online,
                   copies, unrecorded, torn, bounds>>

(* dc_set_msg_failed(): an UPDATE of the row, if there still is one.       *)
SetFailed(m) == state' = IF InDb(m) THEN [state EXCEPT ![m] = "error"] ELSE state

(* It cannot be rendered, or not be encrypted though it must, or the       *)
(* server has no storage: the message failed, no retry.                    *)
Unrecoverable ==
    /\ smtp = "send"
    /\ SetFailed(cur)
    /\ smtp' = "drop"
    /\ UNCHANGED <<row, mdns, notice, members, jobs, adding, todo, cur, attempt, to,
                   lastOnline, receipt, online, history, bounds>>

(* dc_smtp_send_msg() succeeds.                                            *)
Accepted ==
    /\ smtp = "send"
    /\ online = 1 /\ ServerAccepts
    /\ copies' = [copies EXCEPT ![cur] = @ + 1]
    /\ smtp' = "done"
    /\ UNCHANGED <<msgs, members, jobs, adding, todo, cur, attempt, to, lastOnline, receipt,
                   online, unrecorded, torn, alone, bounds>>

(* DC_AT_ONCE: the second attempt follows, or the retry.                   *)
AfterFailedSend ==
    /\ smtp' = IF attempt = 0 THEN "load" ELSE "retry"
    /\ attempt' = 1
    /\ UNCHANGED <<msgs, members, jobs, adding, todo, cur, to, lastOnline, receipt, online,
                   torn, alone>>

(* Mutant: the result of dc_smtp_send_msg() is not looked at.              *)
NotSentUnnoticed ==
    /\ smtp = "send"
    /\ Goto("done")

NotSent ==
    /\ smtp = "send"
    /\ AfterFailedSend
    /\ UNCHANGED <<copies, unrecorded, bounds>>

(* The server has accepted the message, but its reply never arrives.       *)
ReplyLost ==
    /\ smtp = "send"
    /\ online = 1 /\ ServerAccepts
    /\ lost < MaxLost
    /\ lost' = lost + 1
    /\ copies' = [copies EXCEPT ![cur] = @ + 1]
    /\ unrecorded' = [unrecorded EXCEPT ![cur] = @ + 1]
    /\ AfterFailedSend
    /\ UNCHANGED <<crashes, netChanges, memberChanges>>

(* The transaction after a successful send: the state, whatever it is by   *)
(* now, and the job that uploads the message to the IMAP server - unless   *)
(* the server makes the copy itself or this is a handshake message.        *)
Delivered ==
    /\ smtp = "done"
    /\ state' = IF InDb(cur) THEN [state EXCEPT ![cur] = "delivered"] ELSE state
    /\ \/ UNCHANGED uploads
       \/ ExtraUpload /\ uploads' = [uploads EXCEPT ![cur] = @ + 1]
    /\ smtp' = "sent"
    /\ UNCHANGED <<row, mdns, notice, members, sendJobs, tries, deletes, adding, todo, cur, attempt, to,
                   lastOnline, receipt, online, history, bounds>>

(* Mutant: dc_job_delete() is forgotten after a successful send.           *)
DeleteJobKeepSent ==
    /\ smtp \in {"sent", "drop"}
    /\ sendJobs' = IF smtp = "sent" THEN sendJobs ELSE sendJobs \ {cur}
    /\ smtp' = "next"
    /\ UNCHANGED <<msgs, members, tries, uploads, deletes, adding, todo, cur, attempt, to,
                   lastOnline, receipt, online, history, bounds>>

(* DC_DONT_TRY_AGAIN: dc_job_delete().                                     *)
DeleteJob ==
    /\ smtp \in {"sent", "drop"}
    /\ sendJobs' = sendJobs \ {cur}
    /\ smtp' = "next"
    /\ UNCHANGED <<msgs, members, tries, uploads, deletes, adding, todo, cur, attempt, to,
                   lastOnline, receipt, online, history, bounds>>

(* DC_INCREATION_POLL: the row stays as it is.                             *)
PollAgain ==
    /\ smtp = "poll"
    /\ Goto("next")

(* The tries while online, "increased" or decreased.  The assignment to    *)
(* last_online_state is a comparison in the code: it never changes.        *)
TriesWhileOnline ==
    IF lastOnline = 1 /\ online = 1 THEN tries[cur] + 1
    ELSE IF tries[cur] > 0 THEN tries[cur] - 1 ELSE 0

(* Mutant: without a connection there is no second attempt, and no retry.  *)
TryAgainLaterSecond ==
    /\ smtp = "retry"
    /\ sendJobs' = IF attempt = 1 THEN sendJobs ELSE sendJobs \ {cur}
    /\ smtp' = "next"
    /\ UNCHANGED <<msgs, members, tries, uploads, deletes, adding, todo, cur, attempt, to,
                   lastOnline, receipt, online, history, bounds>>

(* Mutant: the tries are decreased below zero.                             *)
TryAgainLaterBelowZero ==
    /\ smtp = "retry"
    /\ tries' = [tries EXCEPT ![cur] = IF lastOnline = 1 THEN @ + 1 ELSE @ - 1]
    /\ smtp' = "next"
    /\ UNCHANGED <<msgs, members, sendJobs, uploads, deletes, adding, todo, cur, attempt, to,
                   lastOnline, receipt, online, history, bounds>>

(* DC_AT_ONCE and DC_STANDARD_DELAY: keep the row, or give up.             *)
TryAgainLater ==
    /\ smtp = "retry"
    /\ \/ /\ TriesWhileOnline < JobRetries
          /\ tries' = [tries EXCEPT ![cur] = TriesWhileOnline]
          /\ UNCHANGED <<state, sendJobs>>
       \/ /\ TriesWhileOnline >= JobRetries
          /\ SetFailed(cur)
          /\ sendJobs' = sendJobs \ {cur}
          /\ UNCHANGED tries
    /\ smtp' = "next"
    /\ UNCHANGED <<row, mdns, notice, members, uploads, deletes, adding, todo, cur, attempt,
                   to, lastOnline, receipt, online, history, bounds>>

-----------------------------------------------------------------------------
(* The IMAP thread.                                                        *)

(* An MDN of recipient r: dc_mdn_from_ext() up to its check of the state.  *)
ReadReceipt(m, r) ==
    /\ receipt = NoReceipt
    /\ copies[m] > 0
    /\ InDb(m)
    /\ state[m] \in {"pending", "delivered"}
    /\ receipt' = [msg |-> m, from |-> r, chat |-> row[m]]
    /\ UNCHANGED <<msgs, members, jobs, adding, thread, online, history, bounds>>

(* Half of the chat: dc_get_chat_contact_cnt() counts the members it has   *)
(* now, SELF too, and is 0 for the trash.  (With one other member it is 1, *)
(* as in a single chat.)                                                   *)
EnoughReceipts(chat) ==
    IF chat = "trash" THEN 0 ELSE (Cardinality(members) + 1) \div 2

(* Mutant: the first receipt of a group makes the message read.            *)
MarkReadAtOnce ==
    /\ receipt # NoReceipt
    /\ mdns' = [mdns EXCEPT ![receipt.msg] = @ \cup {receipt.from}]
    /\ state' = [state EXCEPT ![receipt.msg] = "read"]
    /\ receipt' = NoReceipt
    /\ UNCHANGED <<row, notice, members, jobs, adding, thread, online, history, bounds>>

(* The rest of dc_mdn_from_ext(): the receipt, and perhaps the new state.  *)
MarkRead ==
    /\ receipt # NoReceipt
    /\ mdns' = [mdns EXCEPT ![receipt.msg] = @ \cup {receipt.from}]
    /\ state' = IF Cardinality(mdns'[receipt.msg]) >= EnoughReceipts(receipt.chat)
                THEN [state EXCEPT ![receipt.msg] = "read"]
                ELSE state
    /\ receipt' = NoReceipt
    /\ UNCHANGED <<row, notice, members, jobs, adding, thread, online, history, bounds>>

(* DC_JOB_SEND_MSG_TO_IMAP leaves the table (module ServerJobs).           *)
RunUpload(m) ==
    /\ receipt = NoReceipt
    /\ uploads[m] > 0
    /\ uploads' = [uploads EXCEPT ![m] = @ - 1]
    /\ UNCHANGED <<msgs, members, sendJobs, tries, deletes, adding, thread, receipt, online,
                   history, bounds>>

(* DC_JOB_DELETE_MSG_ON_IMAP is done with the server (module ServerJobs)   *)
(* and removes the row and its receipts.                                   *)
RunDelete(m) ==
    /\ receipt = NoReceipt
    /\ m \in deletes
    /\ row' = [row EXCEPT ![m] = "gone"]
    /\ mdns' = [mdns EXCEPT ![m] = {}]
    /\ deletes' = deletes \ {m}
    /\ UNCHANGED <<state, notice, members, sendJobs, tries, uploads, adding, thread, receipt,
                   online, history, bounds>>

-----------------------------------------------------------------------------
NetChange ==
    /\ netChanges < MaxNetChanges
    /\ netChanges' = netChanges + 1
    /\ online' = 1 - online
    /\ UNCHANGED <<msgs, members, jobs, adding, thread, receipt, history, lost, crashes,
                   memberChanges>>

(* The process dies and is started again: what is in the database stays.   *)
Crash ==
    /\ crashes < MaxCrashes
    /\ crashes' = crashes + 1
    /\ torn' = torn \cup adding
    /\ adding' = {}
    /\ unrecorded' = IF smtp \in {"done", "sent"} /\ to = "somebody"
                     THEN [unrecorded EXCEPT ![cur] = @ + 1] ELSE unrecorded
    /\ smtp' = "idle" /\ todo' = {} /\ cur' = NoMsg /\ attempt' = 0 /\ to' = "nobody"
    /\ lastOnline' = 0
    /\ receipt' = NoReceipt
    /\ UNCHANGED <<msgs, members, jobs, online, copies, alone, lost, netChanges,
                   memberChanges>>

-----------------------------------------------------------------------------
SmtpStep ==
    \/ StartPass \/ EndPass \/ \E m \in Msgs : NextJob(m)
    \/ CannotConnect \/ CannotLoad \/ InCreation \/ LoadMsg
    \/ Unrecoverable \/ Accepted \/ NotSent \/ ReplyLost
    \/ Delivered \/ DeleteJob \/ PollAgain \/ TryAgainLater

ImapStep ==
    \/ MarkRead
    \/ \E m \in Msgs : RunUpload(m) \/ RunDelete(m) \/ \E r \in Recipients : ReadReceipt(m, r)

UserStep == \E m \in Msgs : InsertMsg(m) \/ AddSendJob(m) \/ DeleteMsgs(m)

Next == UserStep \/ SmtpStep \/ ImapStep \/ ChangeMembers \/ NetChange \/ Crash

Spec == Init /\ [][Next]_vars

(* Both threads are scheduled, and dc_send_msg_raw() returns.              *)
FairSpec ==
    /\ Spec
    /\ WF_vars(SmtpStep)
    /\ WF_vars(MarkRead)
    /\ \A m \in Msgs : WF_vars(AddSendJob(m))

(* A server that is tried again and again can be connected to some day, a  *)
(* file that is in creation is ready, and a message that is not rejected   *)
(* gets through.                                                           *)
FairServerSpec ==
    /\ FairSpec
    /\ \A m \in Msgs :
        /\ SF_vars(cur = m /\ (LoadMsg \/ CannotLoad))
        /\ SF_vars(cur = m /\ Accepted)

-----------------------------------------------------------------------------
(* A message that waits for being sent has a job that sends it; only a     *)
(* crash between the two statements of dc_send_msg_raw() can part them.    *)
PendingHasJob ==
    \A m \in Msgs :
        InDb(m) /\ state[m] = "pending" => m \in sendJobs \cup adding \cup torn

(* A message in its chat that is shown as delivered was accepted by the    *)
(* server, or there was nobody else in the chat when its job was performed *)
(* and it was sent to nobody; a message shown as read was accepted.        *)
DeliveredWasSent ==
    \A m \in Msgs : row[m] = "chat" =>
        /\ state[m] = "delivered" => copies[m] > 0 \/ m \in alone
        /\ state[m] = "read" => copies[m] > 0

(* A recipient gets a message twice only if the reply to the first copy    *)
(* was lost, or the core crashed before it removed the job.                *)
DuplicatesAreExplained == \A m \in Msgs : copies[m] <= 1 + unrecorded[m]

(* A message of a chat becomes a read one in no step, of whichever thread, *)
(* unless there are receipts of half of those who are members at that time *)
(* (SELF is one of them, so these are more than half of the others).       *)
ReadByMajority ==
    [][\A m \in Msgs :
          row[m] = "chat" /\ state[m] # "read" /\ state'[m] = "read" =>
             2 * Cardinality(mdns'[m]) >= Cardinality(members)]_vars

(* The server has accepted the message; its job still has to be removed.   *)
BeingRecorded(m) == cur = m /\ smtp \in {"done", "sent"} /\ to = "somebody"

(* A failed message may have reached its recipients only if an acceptance  *)
(* went unrecorded.  (A crash before a failed message's job is removed     *)
(* gives it a second life: then it may be just about to be delivered.)     *)
FailedWasNotSent ==
    \A m \in Msgs :
        /\ InDb(m) /\ state[m] = "error" /\ copies[m] > 0
        /\ ~BeingRecorded(m)
        => unrecorded[m] > 0

(* What the job at hand has found out so far.                              *)
JobAtHand ==
    /\ todo \subseteq sendJobs
    /\ smtp \notin {"idle", "next"} => cur \in sendJobs \ todo
    /\ smtp = "send" => to = "somebody"
    /\ smtp = "done" /\ to = "somebody" => copies[cur] > 0
    /\ smtp = "done" /\ to = "nobody" => row[cur] # "chat" \/ cur \in alone
    /\ smtp = "drop" => ~InDb(cur) \/ state[cur] # "pending"
    /\ smtp = "sent" => ~InDb(cur) \/ state[cur] \in {"delivered", "read"}

(* Jobs belong to messages, and messages start as pending ones.            *)
JobsHaveMessage ==
    /\ \A m \in Msgs :
          row[m] = "none" => m \notin sendJobs \cup adding \cup deletes /\ state[m] = "pending"
    /\ adding \cap sendJobs = {}

(* What is still to be sent was not accepted before, except unrecorded.    *)
StillToSend ==
    \A m \in Msgs :
        (row[m] = "none" \/ m \in adding \cup sendJobs) /\ ~BeingRecorded(m)
        => copies[m] <= unrecorded[m]

(* A receipt is for a message that was sent.                               *)
ReceiptAtHand ==
    receipt # NoReceipt =>
        /\ copies[receipt.msg] > 0
        /\ InDb(receipt.msg)
        /\ receipt.chat = "trash" => row[receipt.msg] = "trash"

(* What went unrecorded was accepted; the acceptance that is being         *)
(* recorded is not one of these.                                           *)
UnrecordedWasSent ==
    \A m \in Msgs :
        /\ unrecorded[m] <= copies[m]
        /\ BeingRecorded(m) => unrecorded[m] < copies[m]

IInv ==
    /\ TypeOK
    /\ PendingHasJob /\ DeliveredWasSent /\ DuplicatesAreExplained
    /\ FailedWasNotSent
    /\ JobAtHand /\ JobsHaveMessage /\ StillToSend /\ ReceiptAtHand
    /\ UnrecordedWasSent

(* The counter of dc_job_perform() never moves: last_online_state is only  *)
(* compared, so no try counts as one while online.                         *)
NoTryIsCounted == lastOnline = 0 /\ \A m \in Msgs : tries[m] = 0

(* Behind RejectedIsGivenUp: no job leaves the table because of its tries, *)
(* whatever JOB_RETRIES is; the branch that gives up is dead.              *)
RetriesNeverGiveUp == [][smtp = "retry" => sendJobs \subseteq sendJobs']_vars

-----------------------------------------------------------------------------
(* The refinement: what the user sees of the message, and how often it was *)
(* sent.                                                                   *)
Shown(m) ==
    IF row[m] = "none" THEN "unsent"
    ELSE IF row[m] = "chat" THEN state[m]
    ELSE "removed"

(* The message whose transaction in Delivered comes next.                  *)
Fresh == {m \in Msgs : cur = m /\ smtp = "done"}

Promise == INSTANCE Outbox WITH
    shown  <- [m \in Msgs |-> Shown(m)],
    copies <- copies,
    excuse <- unrecorded,
    fresh  <- Fresh,
    others <- members \ {Self}

(* The jobs, threads and retries of dc_job.c, dc_chat.c and dc_msg.c keep  *)
(* the promises of Outbox: no step shows what is not true, fails a message *)
(* that got through, sends one again without a reason, or takes back two   *)
(* checkmarks except once for each acceptance.                             *)
ImplementsOutbox == Promise!Spec

(* With a network and a server that accepts messages every job gets done.  *)
JobIsDone == []<>(online = 1) => \A m \in Msgs : m \in sendJobs ~> m \notin sendJobs

-----------------------------------------------------------------------------
(* The comment on JOB_RETRIES: a message the server rejects is given up    *)
(* after some retries while online.                                        *)
RejectedIsGivenUp ==
    \A m \in Msgs : m \in sendJobs ~> m \notin sendJobs \/ ~InDb(m)
=============================================================================
