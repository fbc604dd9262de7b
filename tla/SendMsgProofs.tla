---------------------------- MODULE SendMsgProofs ----------------------------
(***************************************************************************)
(* Theorems about SendMsg, for every set of messages, every number of      *)
(* recipients and every number of lost replies, crashes and net changes.   *)
(***************************************************************************)
EXTENDS SendMsg, FiniteSetTheorems, TLAPS

LEMMA InitIInv == Init => IInv
<1> SUFFICES ASSUME Init PROVE IInv
  OBVIOUS
<1> USE ConstantsAssumption DEF Init
<1>1. TypeOK
  BY DEF TypeOK, SmtpState, Everybody
<1>2. PendingHasJob /\ DeliveredWasSent /\ DuplicatesAreExplained /\ FailedWasNotSent
  BY DEF PendingHasJob, DeliveredWasSent, DuplicatesAreExplained, FailedWasNotSent, InDb
<1>3. JobAtHand /\ JobsHaveMessage /\ StillToSend /\ ReceiptAtHand /\ UnrecordedWasSent
  BY DEF JobAtHand, JobsHaveMessage, StillToSend, ReceiptAtHand, UnrecordedWasSent,
         BeingRecorded, InDb
<1>4. QED
  BY <1>1, <1>2, <1>3 DEF IInv

(* The user sends and deletes messages.                                    *)
LEMMA UserStepIInv == IInv /\ UserStep => IInv'
<1> SUFFICES ASSUME IInv, NEW m \in Msgs,
                    InsertMsg(m) \/ AddSendJob(m) \/ DeleteMsgs(m)
             PROVE  IInv'
  BY DEF UserStep
<1> USE ConstantsAssumption DEF IInv, TypeOK, SmtpState, msgs, jobs, thread, history, bounds
<1>1. TypeOK'
  BY DEF InsertMsg, AddSendJob, DeleteMsgs
<1>2. PendingHasJob' /\ DeliveredWasSent' /\ DuplicatesAreExplained'
  BY DEF InsertMsg, AddSendJob, DeleteMsgs, PendingHasJob, DeliveredWasSent,
         DuplicatesAreExplained, InDb, JobsHaveMessage
<1>3. FailedWasNotSent' /\ StillToSend' /\ UnrecordedWasSent'
  BY DEF InsertMsg, AddSendJob, DeleteMsgs, FailedWasNotSent, StillToSend, UnrecordedWasSent,
         BeingRecorded, InDb, JobsHaveMessage
<1>4. JobAtHand' /\ JobsHaveMessage'
  BY DEF InsertMsg, AddSendJob, DeleteMsgs, JobAtHand, JobsHaveMessage, InDb
<1>5. ReceiptAtHand'
  BY DEF InsertMsg, AddSendJob, DeleteMsgs, ReceiptAtHand, NoReceipt, InDb
<1>6. QED
  BY <1>1, <1>2, <1>3, <1>4, <1>5

(* The SMTP thread takes a row and loads its message.                      *)
LEMMA LoadStepIInv ==
  ASSUME IInv,
         \/ StartPass \/ EndPass \/ \E m \in Msgs : NextJob(m)
         \/ CannotConnect \/ CannotLoad \/ InCreation \/ LoadMsg \/ PollAgain
  PROVE  IInv'
<1> USE ConstantsAssumption DEF IInv, TypeOK, SmtpState, msgs, jobs, history, bounds, Goto,
        StartPass, EndPass, NextJob, CannotConnect, CannotLoad, InCreation, LoadMsg, PollAgain
<1>1. /\ UNCHANGED <<row, state, mdns, sendJobs, adding, deletes, receipt, copies, unrecorded,
                      torn>>
      /\ alone \subseteq alone'
  OBVIOUS
<1>2. TypeOK'
  BY DEF InDb, JobAtHand
<1>3. PendingHasJob' /\ DeliveredWasSent' /\ DuplicatesAreExplained'
  BY <1>1 DEF PendingHasJob, DeliveredWasSent, DuplicatesAreExplained, InDb
<1>4. FailedWasNotSent' /\ StillToSend' /\ UnrecordedWasSent'
  BY <1>1 DEF FailedWasNotSent, StillToSend, UnrecordedWasSent, BeingRecorded, InDb, JobAtHand
<1>5. JobAtHand' /\ JobsHaveMessage' /\ ReceiptAtHand'
  BY <1>1 DEF JobAtHand, JobsHaveMessage, ReceiptAtHand, NoReceipt, InDb
<1>6. QED
  BY <1>2, <1>3, <1>4, <1>5

(* It sends the message, or fails to.                                      *)
LEMMA SendStepIInv ==
  ASSUME IInv, Unrecoverable \/ Accepted \/ NotSent \/ ReplyLost
  PROVE  IInv'
<1> USE ConstantsAssumption DEF IInv, TypeOK, SmtpState, msgs, jobs, history, bounds,
        Unrecoverable, Accepted, NotSent, ReplyLost, AfterFailedSend, SetFailed
<1>1. /\ UNCHANGED <<row, mdns, sendJobs, adding, deletes, receipt, torn, alone>>
      /\ smtp = "send" /\ cur \in sendJobs /\ cur' = cur /\ to = "somebody" /\ to' = to
      /\ smtp' # "sent" /\ todo' = todo
  BY DEF JobAtHand
<1>2. TypeOK'
  BY <1>1
<1>3. PendingHasJob' /\ DeliveredWasSent'
  BY <1>1 DEF PendingHasJob, DeliveredWasSent, InDb
<1>4. DuplicatesAreExplained' /\ StillToSend' /\ FailedWasNotSent'
  BY <1>1 DEF DuplicatesAreExplained, StillToSend, FailedWasNotSent, BeingRecorded, InDb
<1>5. JobAtHand' /\ JobsHaveMessage' /\ ReceiptAtHand'
  BY <1>1 DEF JobAtHand, JobsHaveMessage, ReceiptAtHand, NoReceipt, InDb
<1>6. UnrecordedWasSent'
  BY <1>1 DEF UnrecordedWasSent, BeingRecorded
<1>7. QED
  BY <1>2, <1>3, <1>4, <1>5, <1>6

(* It records the result, and removes or keeps the row.                    *)
LEMMA RecordStepIInv ==
  ASSUME IInv, Delivered \/ DeleteJob \/ TryAgainLater
  PROVE  IInv'
<1> USE ConstantsAssumption DEF IInv, TypeOK, SmtpState, msgs, jobs, history, bounds,
        Delivered, DeleteJob, TryAgainLater, SetFailed
<1>1. /\ UNCHANGED <<row, mdns, adding, deletes, receipt, history, cur, to, todo>>
      /\ cur \in sendJobs /\ smtp \in {"done", "sent", "drop", "retry"}
      /\ sendJobs' \in {sendJobs, sendJobs \ {cur}}
  BY DEF JobAtHand
<1>2. TriesWhileOnline \in Nat
  BY <1>1 DEF TriesWhileOnline
<1>3. TypeOK'
  BY <1>1, <1>2
<1>4. PendingHasJob' /\ DeliveredWasSent' /\ DuplicatesAreExplained'
  BY <1>1 DEF PendingHasJob, DeliveredWasSent, DuplicatesAreExplained, InDb, JobAtHand
<1>5. StillToSend' /\ FailedWasNotSent'
  <2> USE DEF StillToSend, FailedWasNotSent, BeingRecorded, InDb
  <2>1. CASE Delivered
    BY <1>1, <2>1
  <2>2. CASE DeleteJob
    <3>1. UNCHANGED <<row, state, copies, unrecorded, adding, cur, to>> /\ smtp' = "next"
      BY <2>2
    <3>2. StillToSend'
      BY <1>1, <2>2, <3>1 DEF JobsHaveMessage
    <3>3. smtp = "sent" => ~InDb(cur) \/ state[cur] # "error"
      BY DEF JobAtHand
    <3>4. FailedWasNotSent'
      BY <1>1, <2>2, <3>1, <3>3
    <3>5. QED
      BY <3>2, <3>4
  <2>3. CASE TryAgainLater
    <3>1. copies[cur] <= unrecorded[cur]
      BY <1>1, <2>3
    <3>2. \A m \in Msgs : state'[m] = state[m] \/ m = cur
      BY <1>1, <2>3
    <3>3. QED
      BY <1>1, <2>3, <3>1, <3>2
  <2>4. QED
    BY <2>1, <2>2, <2>3
<1>6. JobAtHand' /\ JobsHaveMessage' /\ ReceiptAtHand'
  BY <1>1 DEF JobAtHand, JobsHaveMessage, ReceiptAtHand, NoReceipt, InDb
<1>7. UnrecordedWasSent'
  BY <1>1 DEF UnrecordedWasSent, BeingRecorded
<1>8. QED
  BY <1>3, <1>4, <1>5, <1>6, <1>7

(* The IMAP thread: receipts, uploads and deletions.                       *)
LEMMA ReceiptStepIInv ==
  ASSUME IInv, NEW m \in Msgs, NEW r \in Recipients, ReadReceipt(m, r)
  PROVE  IInv'
<1> USE ConstantsAssumption DEF IInv, TypeOK, SmtpState, msgs, jobs, thread, history, bounds,
        ReadReceipt, InDb
<1>1. TypeOK'
  OBVIOUS
<1>2. ReceiptAtHand'
  BY DEF ReceiptAtHand, NoReceipt
<1>3. QED
  BY <1>1, <1>2 DEF PendingHasJob, DeliveredWasSent, DuplicatesAreExplained,
     FailedWasNotSent, BeingRecorded, JobAtHand, JobsHaveMessage, StillToSend, UnrecordedWasSent

(* What dc_mdn_from_ext() takes for enough is half of the members.         *)
LEMMA MajorityOfReceipts ==
  ASSUME TypeOK, ReceiptAtHand, MarkRead,
         NEW m \in Msgs, row[m] = "chat", state[m] # "read", state'[m] = "read"
  PROVE  2 * Cardinality(mdns'[m]) >= Cardinality(members)
<1> USE ConstantsAssumption DEF TypeOK, MarkRead
<1>1. receipt.msg \in Msgs /\ receipt.chat \in {"chat", "trash"}
  BY DEF NoReceipt
<1>2. m = receipt.msg /\ Cardinality(mdns'[m]) >= EnoughReceipts(receipt.chat)
  BY <1>1
<1>3. receipt.chat = "chat"
  BY <1>1, <1>2 DEF ReceiptAtHand
<1>4. Cardinality(mdns'[m]) >= (Cardinality(members) + 1) \div 2
  BY <1>2, <1>3 DEF EnoughReceipts
<1>5. IsFiniteSet(members) /\ IsFiniteSet(mdns'[m])
  <2>1. IsFiniteSet(Everybody)
    BY FS_AddElement DEF Everybody
  <2>2. receipt.from \in Recipients
    BY DEF NoReceipt
  <2>3. mdns'[m] = mdns[m] \cup {receipt.from} /\ mdns[m] \subseteq Recipients
    BY <1>2
  <2>4. mdns'[m] \subseteq Recipients
    BY <2>2, <2>3
  <2>5. QED
    BY <2>1, <2>4, FS_Subset
<1>6. Cardinality(members) \in Nat /\ Cardinality(mdns'[m]) \in Nat
  BY <1>5, FS_CardinalityType
<1>7. QED
  BY <1>4, <1>6

LEMMA MarkReadIInv == IInv /\ MarkRead => IInv'
<1> SUFFICES ASSUME IInv, MarkRead PROVE IInv'
  OBVIOUS
<1> USE ConstantsAssumption DEF IInv, TypeOK, SmtpState, jobs, thread, history, bounds
<1>1. receipt.msg \in Msgs /\ receipt.from \in Recipients
  BY DEF MarkRead, NoReceipt
<1>2. TypeOK'
  BY <1>1 DEF MarkRead
<1>3. \A m \in Msgs : state'[m] = state[m] \/ (m = receipt.msg /\ state'[m] = "read")
  <2>1. state' = state \/ state' = [state EXCEPT ![receipt.msg] = "read"]
    BY DEF MarkRead
  <2>2. QED
    BY <1>1, <2>1
<1>4. copies[receipt.msg] > 0 /\ InDb(receipt.msg) /\ row' = row
  BY DEF ReceiptAtHand, MarkRead
<1>5. PendingHasJob' /\ DeliveredWasSent' /\ DuplicatesAreExplained'
  BY <1>3, <1>4 DEF MarkRead, PendingHasJob, DeliveredWasSent, DuplicatesAreExplained, InDb
<1>6. FailedWasNotSent' /\ StillToSend' /\ UnrecordedWasSent'
  BY <1>3, <1>4 DEF MarkRead, FailedWasNotSent, StillToSend, UnrecordedWasSent, BeingRecorded, InDb
<1>7. JobAtHand' /\ JobsHaveMessage' /\ ReceiptAtHand'
  BY <1>1, <1>3, <1>4 DEF MarkRead, JobAtHand, JobsHaveMessage, ReceiptAtHand, InDb
<1>8. QED
  BY <1>2, <1>5, <1>6, <1>7

LEMMA ImapJobIInv ==
  ASSUME IInv, NEW m \in Msgs, RunUpload(m) \/ RunDelete(m)
  PROVE  IInv'
<1> USE ConstantsAssumption DEF IInv, TypeOK, SmtpState, msgs, thread, history, bounds,
        RunUpload, RunDelete
<1>1. TypeOK'
  OBVIOUS
<1>2. PendingHasJob' /\ DeliveredWasSent' /\ DuplicatesAreExplained'
  BY DEF PendingHasJob, DeliveredWasSent, DuplicatesAreExplained, InDb
<1>3. FailedWasNotSent' /\ StillToSend' /\ UnrecordedWasSent'
  BY DEF FailedWasNotSent, StillToSend, UnrecordedWasSent, BeingRecorded, InDb
<1>4. JobAtHand' /\ JobsHaveMessage' /\ ReceiptAtHand'
  BY DEF JobAtHand, JobsHaveMessage, ReceiptAtHand, InDb
<1>5. QED
  BY <1>1, <1>2, <1>3, <1>4

(* The network and the members change, or the process crashes.             *)
LEMMA EnvironmentIInv == IInv /\ (ChangeMembers \/ NetChange \/ Crash) => IInv'
<1> SUFFICES ASSUME IInv, ChangeMembers \/ NetChange \/ Crash PROVE IInv'
  OBVIOUS
<1> USE ConstantsAssumption DEF IInv, TypeOK, SmtpState, msgs, jobs, history, bounds
<1>1. CASE ChangeMembers \/ NetChange
  BY <1>1 DEF ChangeMembers, NetChange, thread, PendingHasJob, DeliveredWasSent,
     DuplicatesAreExplained, FailedWasNotSent, BeingRecorded, JobAtHand, JobsHaveMessage, StillToSend,
     ReceiptAtHand, UnrecordedWasSent, InDb, NoReceipt
<1>2. CASE Crash
  <2>1. TypeOK'
    <3>1. smtp \in {"done", "sent"} => cur \in Msgs
      BY DEF JobAtHand
    <3>2. unrecorded' \in [Msgs -> Nat]
      BY <1>2, <3>1 DEF Crash
    <3>3. torn' \in SUBSET Msgs /\ crashes' \in Nat
      BY <1>2 DEF Crash
    <3>4. QED
      BY <1>2, <3>2, <3>3 DEF Crash
  <2>2. PendingHasJob' /\ DeliveredWasSent'
    BY <1>2 DEF Crash, PendingHasJob, DeliveredWasSent, InDb
  <2>3. DuplicatesAreExplained' /\ FailedWasNotSent' /\ StillToSend'
    BY <1>2 DEF Crash, DuplicatesAreExplained, FailedWasNotSent, StillToSend, BeingRecorded,
       InDb, JobAtHand
  <2>4. JobAtHand' /\ JobsHaveMessage' /\ ReceiptAtHand'
    BY <1>2 DEF Crash, JobAtHand, JobsHaveMessage, ReceiptAtHand
  <2>5. UnrecordedWasSent'
    BY <1>2 DEF Crash, UnrecordedWasSent, BeingRecorded, JobAtHand
  <2>6. QED
    BY <2>1, <2>2, <2>3, <2>4, <2>5
<1>3. QED
  BY <1>1, <1>2

LEMMA StepIInv == IInv /\ [Next]_vars => IInv'
<1> SUFFICES ASSUME IInv, [Next]_vars PROVE IInv'
  OBVIOUS
<1>1. CASE UserStep
  BY <1>1, UserStepIInv
<1>2. CASE SmtpStep
  BY <1>2, LoadStepIInv, SendStepIInv, RecordStepIInv DEF SmtpStep
<1>3. CASE ImapStep
  BY <1>3, ReceiptStepIInv, MarkReadIInv, ImapJobIInv DEF ImapStep
<1>4. CASE ChangeMembers \/ NetChange \/ Crash
  BY <1>4, EnvironmentIInv
<1>5. CASE UNCHANGED vars
  BY <1>5 DEF vars, msgs, jobs, thread, history, bounds, IInv, TypeOK, SmtpState,
     PendingHasJob, DeliveredWasSent, DuplicatesAreExplained, FailedWasNotSent,
     BeingRecorded, JobAtHand, JobsHaveMessage, StillToSend, ReceiptAtHand, UnrecordedWasSent,
     InDb, NoReceipt
<1>6. QED
  BY <1>1, <1>2, <1>3, <1>4, <1>5 DEF Next

(* The inductive invariant holds in every reachable state.                 *)
THEOREM SpecIInv == Spec => []IInv
BY InitIInv, StepIInv, PTL DEF Spec

(* A pending message has somebody to send it, except after a crash between *)
(* the two statements of dc_send_msg_raw().                                *)
THEOREM PendingIsServed == Spec => []PendingHasJob
<1>1. IInv => PendingHasJob
  BY DEF IInv
<1>2. QED
  BY SpecIInv, <1>1, PTL

(* A message shown as delivered was accepted by the server, or the job     *)
(* found nobody else in the chat; one shown as read was accepted.          *)
THEOREM CheckmarkIsTrue == Spec => []DeliveredWasSent
<1>1. IInv => DeliveredWasSent
  BY DEF IInv
<1>2. QED
  BY SpecIInv, <1>1, PTL

(* Without lost replies and crashes nobody gets a message twice.           *)
THEOREM AtMostOnceUnlessUnrecorded == Spec => []DuplicatesAreExplained
<1>1. IInv => DuplicatesAreExplained
  BY DEF IInv
<1>2. QED
  BY SpecIInv, <1>1, PTL

(* Two checkmarks stand for half of the members at that time, SELF         *)
(* included: dc_mdn_from_ext() whatever the user, the SMTP thread and the  *)
(* other members do between its statements.                                *)
THEOREM ReadIsMajority == Spec => ReadByMajority
<1> DEFINE BecomesRead(m) == row[m] = "chat" /\ state[m] # "read" /\ state'[m] = "read"
<1>1. ASSUME IInv, [Next]_vars, NEW m \in Msgs, BecomesRead(m)
      PROVE  2 * Cardinality(mdns'[m]) >= Cardinality(members)
  <2> USE DEF msgs, jobs, thread
  <2>1. CASE UserStep \/ ChangeMembers \/ NetChange \/ Crash \/ UNCHANGED vars
    BY <1>1, <2>1 DEF UserStep, InsertMsg, AddSendJob, DeleteMsgs, ChangeMembers, NetChange,
       Crash, vars
  <2>2. CASE SmtpStep
    BY <1>1, <2>2 DEF SmtpStep, StartPass, EndPass, NextJob, CannotConnect, CannotLoad, InCreation,
       LoadMsg, Unrecoverable, Accepted, NotSent, ReplyLost, Delivered, DeleteJob, PollAgain,
       TryAgainLater, Goto, AfterFailedSend, SetFailed, IInv, TypeOK
  <2>3. CASE ImapStep /\ ~MarkRead
    BY <1>1, <2>3 DEF ImapStep, RunUpload, RunDelete, ReadReceipt
  <2>4. CASE MarkRead
    BY <1>1, <2>4, MajorityOfReceipts DEF IInv
  <2>5. QED
    BY <1>1, <2>1, <2>2, <2>3, <2>4 DEF Next
<1>2. IInv /\ [Next]_vars =>
        [\A m \in Msgs :
            row[m] = "chat" /\ state[m] # "read" /\ state'[m] = "read" =>
               2 * Cardinality(mdns'[m]) >= Cardinality(members)]_vars
  BY <1>1
<1>3. QED
  BY <1>2, SpecIInv, PTL DEF Spec, ReadByMajority

(* Every variable stays in its type.                                       *)
THEOREM TypeCorrect == Spec => []TypeOK
<1>1. IInv => TypeOK
  BY DEF IInv
<1>2. QED
  BY SpecIInv, <1>1, PTL

(* A message that failed and nevertheless went out was accepted unnoticed. *)
THEOREM FailureIsTrue == Spec => []FailedWasNotSent
<1>1. IInv => FailedWasNotSent
  BY DEF IInv
<1>2. QED
  BY SpecIInv, <1>1, PTL

-----------------------------------------------------------------------------
(* Of all steps only TryAgainLater writes the counter, and it has nothing  *)
(* to add.                                                                 *)
LEMMA StepNoTryIsCounted == IInv /\ NoTryIsCounted /\ [Next]_vars => NoTryIsCounted'
<1> SUFFICES ASSUME IInv, NoTryIsCounted, [Next]_vars PROVE NoTryIsCounted'
  OBVIOUS
<1> USE DEF jobs, thread
<1>1. CASE UserStep
  BY <1>1 DEF UserStep, InsertMsg, AddSendJob, DeleteMsgs, NoTryIsCounted
<1>2. CASE TryAgainLater
  <2>1. TriesWhileOnline = 0
    BY <1>2 DEF NoTryIsCounted, TriesWhileOnline, IInv, TypeOK, JobAtHand, TryAgainLater
  <2>2. QED
    BY <1>2, <2>1 DEF TryAgainLater, NoTryIsCounted, IInv, TypeOK
<1>3. CASE SmtpStep /\ ~TryAgainLater
  BY <1>3 DEF SmtpStep, StartPass, EndPass, NextJob, CannotConnect, CannotLoad, InCreation, LoadMsg,
              Unrecoverable, Accepted, NotSent, ReplyLost, Delivered, DeleteJob, PollAgain,
              Goto, AfterFailedSend, NoTryIsCounted
<1>4. CASE ImapStep
  BY <1>4 DEF ImapStep, MarkRead, RunUpload, RunDelete, ReadReceipt, NoTryIsCounted
<1>5. CASE ChangeMembers \/ NetChange \/ Crash \/ UNCHANGED vars
  BY <1>5 DEF ChangeMembers, NetChange, Crash, vars, NoTryIsCounted
<1>6. QED
  BY <1>1, <1>2, <1>3, <1>4, <1>5 DEF Next

(* dc_job_perform() counts no try: `last_online_state == is_online;`.      *)
THEOREM TriesAreNotCounted == Spec => []NoTryIsCounted
<1>1. Init => NoTryIsCounted
  BY DEF Init, NoTryIsCounted
<1>2. QED
  BY <1>1, SpecIInv, StepNoTryIsCounted, PTL DEF Spec

(* Hence it gives up no job, however large or small JOB_RETRIES is.        *)
THEOREM GivingUpIsDead == Spec => RetriesNeverGiveUp
<1>1. IInv /\ NoTryIsCounted /\ [Next]_vars => [smtp = "retry" => sendJobs \subseteq sendJobs']_vars
  <2> SUFFICES ASSUME IInv, NoTryIsCounted, smtp = "retry", Next
               PROVE  sendJobs \subseteq sendJobs'
    OBVIOUS
  <2> USE DEF jobs, thread
  <2>1. CASE UserStep
    BY <2>1 DEF UserStep, InsertMsg, AddSendJob, DeleteMsgs
  <2>2. CASE TryAgainLater
    <3>1. TriesWhileOnline < JobRetries
      BY <2>2, ConstantsAssumption DEF NoTryIsCounted, TriesWhileOnline, IInv, TypeOK, JobAtHand
    <3>2. JobRetries \in Nat /\ TriesWhileOnline \in Nat
      BY ConstantsAssumption DEF NoTryIsCounted, TriesWhileOnline, IInv, TypeOK, JobAtHand
    <3>3. QED
      BY <2>2, <3>1, <3>2 DEF TryAgainLater
  <2>3. CASE SmtpStep /\ ~TryAgainLater
    BY <2>3 DEF SmtpStep, StartPass, EndPass, NextJob, CannotConnect, CannotLoad, InCreation, LoadMsg,
                Unrecoverable, Accepted, NotSent, ReplyLost, Delivered, DeleteJob, PollAgain
  <2>4. CASE ImapStep
    BY <2>4 DEF ImapStep, MarkRead, RunUpload, RunDelete, ReadReceipt
  <2>5. CASE ChangeMembers \/ NetChange \/ Crash
    BY <2>5 DEF ChangeMembers, NetChange, Crash
  <2>6. QED
    BY <2>1, <2>2, <2>3, <2>4, <2>5 DEF Next
<1>2. QED
  BY <1>1, SpecIInv, TriesAreNotCounted, PTL DEF Spec, RetriesNeverGiveUp

-----------------------------------------------------------------------------
(* The refinement of Outbox.  A step changes what is shown of one message  *)
(* at most.                                                                *)
LEMMA ShownOfOne ==
  ASSUME NEW m \in Msgs, \A n \in Msgs \ {m} : Shown(n)' = Shown(n)
  PROVE  [n \in Msgs |-> Shown(n)]' = [[n \in Msgs |-> Shown(n)] EXCEPT ![m] = Shown(m)']
OBVIOUS

(* Neither what is shown nor how often it was sent changes; the members of *)
(* the chat may.                                                           *)
LEMMA NothingShown ==
  ASSUME UNCHANGED <<row, state, copies, unrecorded, Fresh>>
  PROVE  [Promise!Next]_(Promise!vars)
<1>1. [n \in Msgs |-> Shown(n)]' = [n \in Msgs |-> Shown(n)]
  BY DEF Shown
<1>2. QED
  BY <1>1 DEF Promise!Next, Promise!ChangeMembers

(* The user sends a message and deletes one.                               *)
LEMMA UserStepOutbox ==
  ASSUME IInv, NEW m \in Msgs, InsertMsg(m) \/ AddSendJob(m) \/ DeleteMsgs(m)
  PROVE  [Promise!Next]_(Promise!vars)
<1> USE DEF IInv, TypeOK, msgs, jobs, thread, history, bounds
<1>1. UNCHANGED <<Fresh, members, copies, unrecorded>>
  BY DEF InsertMsg, AddSendJob, DeleteMsgs, Fresh
<1>2. CASE InsertMsg(m)
  <2>1. Shown(m) = "unsent" /\ Shown(m)' = "pending" /\ \A n \in Msgs \ {m} : Shown(n)' = Shown(n)
    BY <1>2 DEF InsertMsg, Shown, JobsHaveMessage
  <2>2. Promise!Send(m)
    BY <1>1, <2>1, ShownOfOne DEF Promise!Send, Promise!Show
  <2>3. QED
    BY <2>2 DEF Promise!Next
<1>3. CASE AddSendJob(m)
  BY <1>1, <1>3, NothingShown DEF AddSendJob
<1>4. CASE DeleteMsgs(m)
  <2>1. /\ Shown(m) \notin {"unsent", "removed"} /\ Shown(m)' = "removed"
        /\ \A n \in Msgs \ {m} : Shown(n)' = Shown(n)
    BY <1>4 DEF DeleteMsgs, Shown
  <2>2. Promise!Remove(m)
    BY <1>1, <2>1, ShownOfOne DEF Promise!Remove, Promise!Visible, Promise!Show
  <2>3. QED
    BY <2>2 DEF Promise!Next
<1>5. QED
  BY <1>2, <1>3, <1>4

(* SetFailed() of a message whose copies all went unnoticed.               *)
LEMMA FailedOutbox ==
  ASSUME TypeOK, NEW m \in Msgs, row[m] # "none", copies[m] = unrecorded[m], m \notin Fresh,
         SetFailed(m), UNCHANGED <<row, copies, unrecorded, Fresh, members>>
  PROVE  [Promise!Next]_(Promise!vars)
<1> USE DEF TypeOK, SetFailed, InDb
<1>1. CASE row[m] = "chat"
  <2>1. state' = [state EXCEPT ![m] = "error"] /\ state[m] \notin {"unsent", "removed"}
    BY <1>1
  <2>2. /\ Shown(m) = state[m] /\ Shown(m)' = "error"
        /\ \A n \in Msgs \ {m} : Shown(n)' = Shown(n)
    BY <1>1, <2>1 DEF Shown
  <2>3. Promise!Visible(m) /\ Promise!Due(m)
    BY <1>1, <2>1, <2>2 DEF Promise!Visible, Promise!Due
  <2>4. Promise!Show(m, "error")
    BY <2>2, ShownOfOne DEF Promise!Show
  <2>5. QED
    BY <2>3, <2>4 DEF Promise!Fail, Promise!Next
<1>2. CASE row[m] # "chat"
  <2>1. \A n \in Msgs : Shown(n)' = Shown(n)
    BY <1>2 DEF Shown
  <2>2. QED
    BY <2>1 DEF Promise!Next, Promise!ChangeMembers
<1>3. QED
  BY <1>1, <1>2

(* The SMTP thread writes "delivered", whatever the state is by now.       *)
LEMMA DeliveredOutbox ==
  ASSUME IInv, Delivered, NEW m \in Msgs, m = cur
  PROVE  [Promise!Next]_(Promise!vars)
<1> USE DEF IInv, TypeOK, msgs, jobs, history, bounds
<1>1. /\ row[m] # "none" /\ m \in Fresh /\ Fresh' = Fresh \ {m}
      /\ UNCHANGED <<row, members, copies, unrecorded>>
  BY DEF Delivered, JobAtHand, JobsHaveMessage, Fresh
<1>2. /\ Shown(m)' = IF Shown(m) \notin {"unsent", "removed"} THEN "delivered" ELSE Shown(m)
      /\ \A n \in Msgs \ {m} : Shown(n)' = Shown(n)
  <2>1. CASE row[m] = "chat"
    <3>1. Shown(m) = state[m] /\ state[m] \notin {"unsent", "removed"}
      BY <1>1, <2>1 DEF Shown
    <3>2. state' = [state EXCEPT ![m] = "delivered"]
      BY <2>1 DEF Delivered, InDb
    <3>3. QED
      BY <1>1, <2>1, <3>1, <3>2 DEF Shown
  <2>2. CASE row[m] # "chat"
    <3>1. Shown(m) = "removed" /\ Shown(m)' = "removed"
      BY <1>1, <2>2 DEF Shown
    <3>2. state' = state \/ state' = [state EXCEPT ![m] = "delivered"]
      BY DEF Delivered
    <3>3. QED
      BY <1>1, <3>1, <3>2 DEF Shown
  <2>3. QED
    BY <2>1, <2>2
<1>3. Promise!Deliver(m)
  BY <1>1, <1>2, ShownOfOne DEF Promise!Deliver, Promise!Visible, Promise!Show
<1>4. QED
  BY <1>1, <1>3 DEF Promise!Next

(* A message is loaded: perhaps there is nobody to send it to.             *)
LEMMA LoadMsgOutbox ==
  ASSUME IInv, LoadMsg
  PROVE  [Promise!Next]_(Promise!vars)
<1> USE DEF IInv, TypeOK, msgs, jobs, history, bounds
<1>1. CASE HasRecipients(cur)
  BY <1>1, NothingShown DEF LoadMsg, Fresh
<1>2. CASE ~HasRecipients(cur)
  <2>1. /\ cur \in Msgs /\ InDb(cur) /\ cur \notin Fresh /\ Fresh' = Fresh \cup {cur}
        /\ copies[cur] = unrecorded[cur]
    BY <1>2 DEF LoadMsg, Fresh, JobAtHand, StillToSend, UnrecordedWasSent, BeingRecorded
  <2>2. Shown(cur) # "unsent" /\ (members \ {Self} = {} \/ Shown(cur) = "removed")
    BY <1>2, <2>1 DEF Shown, InDb, HasRecipients
  <2>3. UNCHANGED <<row, state, members, copies, unrecorded>>
    BY DEF LoadMsg
  <2>4. [n \in Msgs |-> Shown(n)]' = [n \in Msgs |-> Shown(n)]
    BY <2>3 DEF Shown
  <2>5. Promise!FindNobody(cur)
    BY <2>1, <2>2, <2>3, <2>4 DEF Promise!FindNobody, Promise!Due
  <2>6. QED
    BY <2>1, <2>5 DEF Promise!Next
<1>3. QED
  BY <1>1, <1>2

(* The SMTP thread: what it is about to send again is due.                 *)
LEMMA SmtpStepOutbox ==
  ASSUME IInv, SmtpStep
  PROVE  [Promise!Next]_(Promise!vars)
<1> USE DEF IInv, TypeOK, SmtpState, msgs, jobs, history, bounds
<1>1. CASE \/ StartPass \/ EndPass \/ \E m \in Msgs : NextJob(m)
           \/ CannotConnect \/ CannotLoad \/ InCreation
           \/ NotSent \/ DeleteJob \/ PollAgain
  <2>1. UNCHANGED <<row, state, copies, unrecorded, Fresh>>
    BY <1>1 DEF StartPass, EndPass, NextJob, CannotConnect, CannotLoad, InCreation,
       NotSent, AfterFailedSend, DeleteJob, PollAgain, Goto, Fresh
  <2>2. QED
    BY <2>1, NothingShown
<1>2. smtp \in {"send", "retry"} =>
        cur \in Msgs /\ row[cur] # "none" /\ copies[cur] = unrecorded[cur] /\ cur \notin Fresh
  BY DEF JobAtHand, JobsHaveMessage, StillToSend, UnrecordedWasSent, BeingRecorded, Fresh
<1>3. CASE Unrecoverable \/ TryAgainLater
  <2>1. smtp \in {"send", "retry"} /\ UNCHANGED <<row, copies, unrecorded, Fresh, members>>
    BY <1>3 DEF Unrecoverable, TryAgainLater, Fresh
  <2>2. SetFailed(cur) \/ UNCHANGED state
    BY <1>3 DEF Unrecoverable, TryAgainLater
  <2>3. QED
    BY <1>2, <2>1, <2>2, FailedOutbox, NothingShown
<1>4. CASE Accepted \/ ReplyLost
  <2>1. /\ smtp = "send" /\ UNCHANGED <<row, state, members>>
        /\ copies' = [copies EXCEPT ![cur] = @ + 1]
        /\ \/ Fresh' = Fresh \cup {cur} /\ unrecorded' = unrecorded
           \/ Fresh' = Fresh /\ unrecorded' = [unrecorded EXCEPT ![cur] = @ + 1]
    BY <1>2, <1>4 DEF Accepted, ReplyLost, AfterFailedSend, Fresh
  <2>2. Shown(cur) # "unsent"
    BY <1>2, <2>1 DEF Shown
  <2>3. [n \in Msgs |-> Shown(n)]' = [n \in Msgs |-> Shown(n)]
    BY <2>1 DEF Shown
  <2>4. Promise!Accept(cur) \/ Promise!AcceptUnnoticed(cur)
    BY <1>2, <2>1, <2>2, <2>3 DEF Promise!Accept, Promise!AcceptUnnoticed, Promise!Due
  <2>5. QED
    BY <1>2, <2>1, <2>4 DEF Promise!Next
<1>5. CASE Delivered
  <2>1. cur \in Msgs
    BY <1>5 DEF Delivered, JobAtHand
  <2>2. QED
    BY <1>5, <2>1, DeliveredOutbox
<1>6. QED
  BY <1>1, <1>3, <1>4, <1>5, LoadMsgOutbox DEF SmtpStep

(* The IMAP thread: a receipt is for a message that was sent, whatever     *)
(* became of its state since dc_mdn_from_ext() has looked at it.           *)
LEMMA MarkReadOutbox ==
  ASSUME IInv, MarkRead, NEW m \in Msgs, m = receipt.msg
  PROVE  [Promise!Next]_(Promise!vars)
<1> USE DEF IInv, TypeOK, jobs, thread, history, bounds
<1>1. /\ copies[m] > 0 /\ InDb(m)
      /\ UNCHANGED <<row, members, copies, unrecorded, Fresh>>
  BY DEF MarkRead, ReceiptAtHand, NoReceipt, Fresh
<1>2. CASE UNCHANGED state
  BY <1>1, <1>2, NothingShown
<1>3. CASE state' = [state EXCEPT ![m] = "read"]
  <2>1. \A n \in Msgs \ {m} : Shown(n)' = Shown(n)
    BY <1>1, <1>3 DEF Shown
  <2>2. CASE row[m] = "chat"
    <3>1. Shown(m) \notin {"unsent", "removed"} /\ Shown(m)' = "read"
      BY <1>1, <1>3, <2>2 DEF Shown
    <3>2. Promise!Read(m)
      BY <1>1, <2>1, <3>1, ShownOfOne DEF Promise!Read, Promise!Visible, Promise!Show
    <3>3. QED
      BY <1>1, <3>2 DEF Promise!Next
  <2>3. CASE row[m] # "chat"
    <3>1. \A n \in Msgs : Shown(n)' = Shown(n)
      BY <1>1, <2>1, <2>3 DEF Shown
    <3>2. QED
      BY <1>1, <3>1 DEF Promise!Next, Promise!ChangeMembers
  <2>4. QED
    BY <2>2, <2>3
<1>4. QED
  BY <1>2, <1>3 DEF MarkRead

LEMMA ImapStepOutbox ==
  ASSUME IInv, ImapStep
  PROVE  [Promise!Next]_(Promise!vars)
<1> USE DEF IInv, TypeOK, jobs, thread, history, bounds
<1>1. ASSUME NEW m \in Msgs, RunUpload(m) \/ \E r \in Recipients : ReadReceipt(m, r)
      PROVE  [Promise!Next]_(Promise!vars)
  <2>1. UNCHANGED <<row, state, copies, unrecorded, Fresh>>
    BY <1>1 DEF RunUpload, ReadReceipt, msgs, Fresh
  <2>2. QED
    BY <2>1, NothingShown
<1>2. ASSUME NEW m \in Msgs, RunDelete(m)
      PROVE  [Promise!Next]_(Promise!vars)
  <2>1. /\ row[m] # "none" /\ Shown(m)' = "removed"
        /\ UNCHANGED <<copies, unrecorded, Fresh, members>>
        /\ \A n \in Msgs \ {m} : Shown(n)' = Shown(n)
    BY <1>2 DEF RunDelete, Shown, JobsHaveMessage, Fresh
  <2>2. CASE Shown(m) = "removed"
    <3>1. \A n \in Msgs : Shown(n)' = Shown(n)
      BY <2>1, <2>2
    <3>2. QED
      BY <2>1, <3>1 DEF Promise!Next, Promise!ChangeMembers
  <2>3. CASE Shown(m) # "removed"
    <3>1. Shown(m) # "unsent"
      BY <2>1 DEF Shown
    <3>2. Promise!Remove(m)
      BY <2>1, <2>3, <3>1, ShownOfOne DEF Promise!Remove, Promise!Visible, Promise!Show
    <3>3. QED
      BY <3>2 DEF Promise!Next
  <2>4. QED
    BY <2>2, <2>3
<1>3. CASE MarkRead
  <2>1. receipt.msg \in Msgs
    BY <1>3 DEF MarkRead, NoReceipt
  <2>2. QED
    BY <1>3, <2>1, MarkReadOutbox
<1>4. QED
  BY <1>1, <1>2, <1>3 DEF ImapStep

(* A crash forgets what is being recorded.                                 *)
LEMMA CrashOutbox ==
  ASSUME IInv, Crash
  PROVE  [Promise!Next]_(Promise!vars)
<1> USE DEF IInv, TypeOK, msgs
<1>1. UNCHANGED <<row, state, copies, members>> /\ Fresh' = {}
  BY DEF Crash, Fresh
<1>2. CASE smtp = "done" \/ (smtp = "sent" /\ to = "somebody")
  <2>1. cur \in Msgs /\ cur \in sendJobs /\ Fresh \subseteq {cur}
    BY <1>2 DEF JobAtHand, Fresh
  <2>2. unrecorded' = [unrecorded EXCEPT ![cur] = copies[cur]]
    <3>1. CASE to = "somebody"
      <4>1. unrecorded[cur] < copies[cur] /\ copies[cur] <= 1 + unrecorded[cur]
        BY <1>2, <2>1, <3>1 DEF UnrecordedWasSent, BeingRecorded, DuplicatesAreExplained
      <4>2. copies[cur] = unrecorded[cur] + 1
        BY <2>1, <4>1
      <4>3. QED
        BY <1>2, <3>1, <4>2 DEF Crash
    <3>2. CASE to = "nobody"
      <4>1. copies[cur] = unrecorded[cur] /\ unrecorded' = unrecorded
        BY <2>1, <3>2 DEF Crash, StillToSend, UnrecordedWasSent, BeingRecorded
      <4>2. QED
        BY <2>1, <4>1
    <3>3. QED
      BY <3>1, <3>2
  <2>3. copies[cur] > unrecorded[cur] \/ cur \in Fresh
    BY <1>2, <2>1 DEF UnrecordedWasSent, BeingRecorded, Fresh
  <2>4. [n \in Msgs |-> Shown(n)]' = [n \in Msgs |-> Shown(n)]
    BY <1>1 DEF Shown
  <2>5. Promise!Forget(cur)
    BY <1>1, <2>1, <2>2, <2>3, <2>4 DEF Promise!Forget
  <2>6. QED
    BY <2>1, <2>5 DEF Promise!Next
<1>3. CASE smtp # "done" /\ ~(smtp = "sent" /\ to = "somebody")
  <2>1. Fresh = {} /\ UNCHANGED unrecorded
    BY <1>3 DEF Crash, Fresh
  <2>2. QED
    BY <1>1, <2>1, NothingShown
<1>4. QED
  BY <1>2, <1>3

(* Jobs, threads, retries, receipts and crashes keep what Outbox promises  *)
(* (dc_send_msg_raw(), dc_job_perform(), dc_mdn_from_ext()).               *)
THEOREM Implements == Spec => ImplementsOutbox
<1>1. Init => Promise!Init
  BY DEF Init, Promise!Init, Shown, Fresh
<1>2. IInv /\ [Next]_vars => [Promise!Next]_(Promise!vars)
  <2> SUFFICES ASSUME IInv, [Next]_vars PROVE [Promise!Next]_(Promise!vars)
    OBVIOUS
  <2>1. CASE UNCHANGED vars \/ ChangeMembers \/ NetChange
    <3>1. UNCHANGED <<row, state, copies, unrecorded, Fresh>>
      BY <2>1 DEF vars, ChangeMembers, NetChange, msgs, history, thread, Fresh
    <3>2. QED
      BY <3>1, NothingShown
  <2>2. QED
    BY <2>1, UserStepOutbox, SmtpStepOutbox, ImapStepOutbox, CrashOutbox DEF Next, UserStep
<1>3. QED
  BY SpecIInv, <1>1, <1>2, PTL DEF Spec, ImplementsOutbox, Promise!Spec
=============================================================================
