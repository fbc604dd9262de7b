-------------------------- MODULE ServerJobsProofs --------------------------
(***************************************************************************)
(* Theorems about ServerJobs, for every set of messages, with or without   *)
(* the flag $MDNSent and for every number of faults.                       *)
(***************************************************************************)
EXTENDS ServerJobs, TLAPS

LEMMA InitIInv == Init => IInv
<1> SUFFICES ASSUME Init PROVE IInv
  OBVIOUS
<1> USE ConstantsAssumption DEF Init, Msgs, Nothing
<1>1. TypeOK
  BY DEF TypeOK, AtState, Result
<1>2. RowsInv
  BY DEF RowsInv, AtState
<1>3. ReceiptInv
  BY DEF ReceiptInv, Remembered, MdnFlag, ToDo
<1>4. UploadInv
  BY DEF UploadInv, ToDo
<1>5. StreamInv
  BY DEF StreamInv
<1>6. PlaceInv
  BY DEF PlaceInv
<1>7. LocationIsKnown
  BY DEF LocationIsKnown
<1>8. ReadInv
  BY DEF ReadInv, ToDo
<1>9. ReadIsReported
  BY DEF ReadIsReported
<1>10. QED
  BY <1>1, <1>2, <1>3, <1>4, <1>5, <1>6, <1>7, <1>8, <1>9 DEF IInv

(* A job is its action and its message.                                    *)
LEMMA JobFields ==
  /\ \A a \in Actions, m \in Msgs :
        JobFor(a, m) \in Job /\ JobFor(a, m).action = a /\ JobFor(a, m).msg = m
  /\ \A j \in Job : j.action \in Actions /\ j.msg \in Msgs /\ j = JobFor(j.action, j.msg)
BY DEF Job, JobFor

(* The pass over the rows changes neither the database nor the server. *)
LEMMA PassIInv ==
  ASSUME IInv,
         \/ StartPass \/ EndPass \/ TryAgain \/ TryAgainLater \/ EndFetch \/ NoRow
         \/ \E j \in Job : NextJob(j)
  PROVE  IInv'
<1> USE ConstantsAssumption, NoJobAssumption, JobFields
        DEF IInv, TypeOK, AtState, Result, Actions, db, server, handle, control,
            StartPass, EndPass, TryAgain, TryAgainLater, EndFetch, NoRow, NextJob, RowIsGone
<1>a. Incoming \subseteq Msgs /\ Outgoing \subseteq Msgs
  BY DEF Msgs
<1>1. TypeOK'
  BY <1>a DEF TypeOK, AtState, Result
<1>2. RowsInv'
  BY <1>a DEF RowsInv, AtState
<1>3. ReceiptInv'
  BY <1>a DEF ReceiptInv, Remembered, ToDo, RowsInv
<1>4. UploadInv'
  BY <1>a DEF UploadInv, ToDo
<1>5. StreamInv'
  BY <1>a DEF StreamInv
<1>6. PlaceInv'
  BY <1>a DEF PlaceInv
<1>7. LocationIsKnown'
  BY <1>a DEF LocationIsKnown
<1>8. ReadInv'
  BY <1>a DEF ReadInv, ToDo, RowsInv
<1>9. ReadIsReported'
  BY <1>a DEF ReadIsReported
<1>10. QED
  BY <1>1, <1>2, <1>3, <1>4, <1>5, <1>6, <1>7, <1>8, <1>9

(* Nor does the connection. *)
LEMMA ConnectionIInv ==
  ASSUME IInv,
         \/ LoseStream
         \/ \E s \in {"none", "open"} : ConnectForJob(s) \/ SetupHandle(s)
  PROVE  IInv'
<1> USE ConstantsAssumption, NoJobAssumption, JobFields
        DEF IInv, TypeOK, AtState, Result, Actions, db, server, handle, control,
            LoseStream, ConnectForJob, SetupHandle, Connect
<1>a. Incoming \subseteq Msgs /\ Outgoing \subseteq Msgs
  BY DEF Msgs
<1>1. TypeOK'
  BY <1>a DEF TypeOK, AtState, Result
<1>2. RowsInv'
  BY <1>a DEF RowsInv, AtState
<1>3. ReceiptInv'
  BY <1>a DEF ReceiptInv, Remembered, ToDo, RowsInv
<1>4. UploadInv'
  BY <1>a DEF UploadInv, ToDo
<1>5. StreamInv'
  BY <1>a DEF StreamInv
<1>6. PlaceInv'
  BY <1>a DEF PlaceInv
<1>7. LocationIsKnown'
  BY <1>a DEF LocationIsKnown
<1>8. ReadInv'
  BY <1>a DEF ReadInv, ToDo, RowsInv
<1>9. ReadIsReported'
  BY <1>a DEF ReadIsReported
<1>10. QED
  BY <1>1, <1>2, <1>3, <1>4, <1>5, <1>6, <1>7, <1>8, <1>9

(* Other threads add jobs. *)
LEMMA OthersIInv ==
  ASSUME IInv,
         \E m \in Msgs : Request(m) \/ DeleteMsgs(m)
  PROVE  IInv'
<1> USE ConstantsAssumption, NoJobAssumption, JobFields
        DEF IInv, TypeOK, AtState, Result, Actions, db, server, handle, control,
            Request, DeleteMsgs
<1>a. Incoming \subseteq Msgs /\ Outgoing \subseteq Msgs
  BY DEF Msgs
<1>1. TypeOK'
  BY <1>a DEF TypeOK, AtState, Result
<1>2. RowsInv'
  <2>1. PICK m \in Msgs : Request(m) \/ DeleteMsgs(m)
    OBVIOUS
  <2>2. CASE Request(m)
    BY <1>a, <2>2 DEF RowsInv, Msgs
  <2>3. CASE DeleteMsgs(m)
    BY <1>a, <2>3 DEF RowsInv
  <2>4. QED
    BY <2>1, <2>2, <2>3
<1>3. ReceiptInv'
  BY <1>a DEF ReceiptInv, Remembered, ToDo, RowsInv
<1>4. UploadInv'
  BY <1>a DEF UploadInv, ToDo
<1>5. StreamInv'
  BY <1>a DEF StreamInv
<1>6. PlaceInv'
  BY <1>a DEF PlaceInv
<1>7. LocationIsKnown'
  BY <1>a DEF LocationIsKnown
<1>8. ReadInv'
  BY <1>a DEF ReadInv, ToDo, RowsInv
<1>9. ReadIsReported'
  BY <1>a DEF ReadIsReported
<1>10. QED
  BY <1>1, <1>2, <1>3, <1>4, <1>5, <1>6, <1>7, <1>8, <1>9

(* A row is removed when its job was executed. *)
LEMMA DeleteJobIInv ==
  ASSUME IInv,
         DeleteJob
  PROVE  IInv'
<1> USE ConstantsAssumption, NoJobAssumption, JobFields
        DEF IInv, TypeOK, AtState, Result, Actions, db, server, handle, control,
            DeleteJob
<1>a. Incoming \subseteq Msgs /\ Outgoing \subseteq Msgs
  BY DEF Msgs
<1>1. TypeOK'
  BY <1>a DEF TypeOK, AtState, Result
<1>2. RowsInv'
  BY <1>a DEF RowsInv, AtState
<1>3. ReceiptInv'
  BY <1>a DEF ReceiptInv, Remembered, ToDo
<1>4. UploadInv'
  BY <1>a DEF UploadInv, ToDo
<1>5. StreamInv'
  BY <1>a DEF StreamInv
<1>6. PlaceInv'
  BY <1>a DEF PlaceInv
<1>7. LocationIsKnown'
  BY <1>a DEF LocationIsKnown
<1>8. ReadInv'
  BY <1>a DEF ReadInv, ToDo
<1>9. ReadIsReported'
  BY <1>a DEF ReadIsReported, ReadInv, RowsInv, ToDo
<1>10. QED
  BY <1>1, <1>2, <1>3, <1>4, <1>5, <1>6, <1>7, <1>8, <1>9

(* Without a fault a fetch tells nothing new. *)
LEMMA FetchIInv ==
  ASSUME IInv,
         \E m \in Msgs : FetchMsg(m)
  PROVE  IInv'
<1> USE ConstantsAssumption, NoJobAssumption, JobFields
        DEF IInv, TypeOK, AtState, Result, Actions, db, server, handle, control,
            FetchMsg
<1>a. Incoming \subseteq Msgs /\ Outgoing \subseteq Msgs
  BY DEF Msgs
<1>1. TypeOK'
  BY <1>a DEF TypeOK, AtState, Result
<1>2. RowsInv'
  BY <1>a DEF RowsInv, AtState
<1>3. ReceiptInv'
  BY <1>a DEF ReceiptInv, Remembered, ToDo, RowsInv
<1>4. UploadInv'
  BY <1>a DEF UploadInv, ToDo
<1>5. StreamInv'
  BY <1>a DEF StreamInv
<1>6. PlaceInv'
  BY <1>a DEF PlaceInv
<1>7. LocationIsKnown'
  BY <1>a DEF LocationIsKnown
<1>8. ReadInv'
  BY <1>a DEF ReadInv, ToDo
<1>9. ReadIsReported'
  BY <1>a DEF ReadIsReported
<1>10. QED
  BY <1>1, <1>2, <1>3, <1>4, <1>5, <1>6, <1>7, <1>8, <1>9

(* The upload. *)
LEMMA UploadIInv ==
  ASSUME IInv,
         Append \/ AppendFails \/ NoteUpload
  PROVE  IInv'
<1> USE ConstantsAssumption, NoJobAssumption, JobFields
        DEF IInv, TypeOK, AtState, Result, Actions, db, server, handle, control,
            Append, AppendFails, NoteUpload, AppendCopy, CommandFails, StreamDies, Running,
            RowIsGone
<1>a. Incoming \subseteq Msgs /\ Outgoing \subseteq Msgs
  BY DEF Msgs
<1>b. cur \in Job /\ cur.msg \in Msgs
  BY DEF RowsInv
<1>1. TypeOK'
  <2>1. CASE Append
    BY <1>b, <2>1
  <2>2. CASE AppendFails
    BY <1>b, <2>2
  <2>3. CASE NoteUpload
    BY <1>b, <2>3
  <2>4. QED
    BY <2>1, <2>2, <2>3
<1>2. RowsInv'
  BY <1>a DEF RowsInv, AtState
<1>3. ReceiptInv'
  BY <1>a DEF ReceiptInv, Remembered, ToDo, RowsInv
<1>4. UploadInv'
  BY <1>a DEF UploadInv, ToDo, RowsInv
<1>5. StreamInv'
  BY <1>a DEF StreamInv
<1>6. PlaceInv'
  BY <1>a DEF PlaceInv
<1>7. LocationIsKnown'
  BY <1>a DEF LocationIsKnown, PlaceInv, UploadInv, RowsInv, StreamInv
<1>8. ReadInv'
  BY <1>a DEF ReadInv, ToDo, RowsInv
<1>9. ReadIsReported'
  BY <1>a DEF ReadIsReported
<1>10. QED
  BY <1>1, <1>2, <1>3, <1>4, <1>5, <1>6, <1>7, <1>8, <1>9

(* The deletion. *)
LEMMA DeleteIInv ==
  ASSUME IInv,
         Delete \/ DeleteFails \/ DeleteRow
  PROVE  IInv'
<1> USE ConstantsAssumption, NoJobAssumption, JobFields
        DEF IInv, TypeOK, AtState, Result, Actions, db, server, handle, control,
            Delete, DeleteFails, DeleteRow, CommandFails, StreamDies, Running, RowIsGone
<1>a. Incoming \subseteq Msgs /\ Outgoing \subseteq Msgs
  BY DEF Msgs
<1>b. cur \in Job /\ cur.msg \in Msgs
  BY DEF RowsInv
<1>1. TypeOK'
  <2>1. CASE Delete
    <3>1. copies[cur.msg] \in Nat /\ (copies[cur.msg] # 0 => copies[cur.msg] - 1 \in Nat)
      BY <1>b
    <3>2. copies' \in [Msgs -> Nat]
      BY <2>1, <1>b, <3>1
    <3>3. QED
      BY <2>1, <3>2
  <2>2. CASE DeleteFails
    BY <1>b, <2>2
  <2>3. CASE DeleteRow
    BY <1>b, <2>3
  <2>4. QED
    BY <2>1, <2>2, <2>3
<1>2. RowsInv'
  BY <1>a DEF RowsInv, AtState
<1>3. ReceiptInv'
  BY <1>a DEF ReceiptInv, Remembered, ToDo, RowsInv
<1>4. UploadInv'
  BY <1>a DEF UploadInv, ToDo
<1>5. StreamInv'
  BY <1>a DEF StreamInv
<1>6. PlaceInv'
  <2>1. \A m \in Msgs : copies[m] <= 1 + faults
    BY DEF UploadInv, Msgs
  <2>2. QED
    BY <2>1 DEF PlaceInv, LocationIsKnown, RowsInv, StreamInv
<1>7. LocationIsKnown'
  BY <1>a DEF LocationIsKnown
<1>8. ReadInv'
  BY <1>a DEF ReadInv, ToDo, RowsInv
<1>9. ReadIsReported'
  BY <1>a DEF ReadIsReported
<1>10. QED
  BY <1>1, <1>2, <1>3, <1>4, <1>5, <1>6, <1>7, <1>8, <1>9

(* Marking a message as seen. *)
LEMMA MarkSeenIInv ==
  ASSUME IInv,
         \/ MarkSeenNothing \/ NoteMarkSeen
         \/ \E moved \in {0, 1} : MarkSeen(moved) \/ MarkSeenRefused(moved)
         \/ \E steps \in 0..3 : MarkSeenFails(steps)
  PROVE  IInv'
<1> USE ConstantsAssumption, NoJobAssumption, JobFields
        DEF IInv, TypeOK, AtState, Result, Actions, db, server, handle, control,
            MarkSeenNothing, MarkSeen, MarkSeenRefused, MarkSeenFails, NoteMarkSeen, MarkOnServer,
            MoveOnServer, MdnJustSet, MdnFlag, InPlace, Movable, CommandFails, StreamDies, Running,
            RowIsGone, Nothing
<1>a. Incoming \subseteq Msgs /\ Outgoing \subseteq Msgs
  BY DEF Msgs
<1>b. cur \in Job /\ cur.msg \in Msgs
  BY DEF RowsInv
<1>1. TypeOK'
  <2>1. CASE MarkSeenNothing
    BY <1>b, <2>1
  <2>2. CASE NoteMarkSeen
    BY <1>b, <2>2
  <2>3. CASE \E moved \in {0, 1} : MarkSeen(moved)
    BY <1>b, <2>3
  <2>4. CASE \E moved \in {0, 1} : MarkSeenRefused(moved)
    BY <1>b, <2>4
  <2>5. CASE \E steps \in 0..3 : MarkSeenFails(steps)
    BY <1>b, <2>5
  <2>6. QED
    BY <2>1, <2>2, <2>3, <2>4, <2>5
<1>2. RowsInv'
  BY <1>a DEF RowsInv, AtState
<1>3. ReceiptInv'
  <2>1. CASE MarkSeenNothing
    BY <2>1 DEF ReceiptInv, Remembered, ToDo, RowsInv
  <2>2. CASE NoteMarkSeen
    <3> SUFFICES ASSUME NEW m \in Msgs PROVE ReceiptInv!(m)'
      BY DEF ReceiptInv
    <3>1. cur = JobFor("markseen", cur.msg) /\ cur.msg \in requested /\ result.mdn \in {0, 1}
      BY <1>b, <2>2 DEF RowsInv
    <3>2. mdnJobs'[m] = IF m = cur.msg THEN mdnJobs[m] + result.mdn ELSE mdnJobs[m]
      BY <1>b, <2>2
    <3>a. Remembered(m)' = Remembered(m)
      BY <2>2 DEF Remembered
    <3>3. CASE Remembered(m)
      BY <2>2, <3>1, <3>2, <3>3, <3>a DEF ReceiptInv
    <3>4. CASE ~Remembered(m)
      BY <2>2, <3>1, <3>2, <3>4, <3>a DEF ReceiptInv, ToDo
    <3>5. QED
      BY <3>3, <3>4
  <2>3. CASE \E moved \in {0, 1} : MarkSeen(moved)
    BY <2>3 DEF ReceiptInv, Remembered, ToDo, RowsInv
  <2>4. CASE \E moved \in {0, 1} : MarkSeenRefused(moved)
    BY <2>4 DEF ReceiptInv, Remembered, ToDo, RowsInv
  <2>5. CASE \E steps \in 0..3 : MarkSeenFails(steps)
    BY <2>5 DEF ReceiptInv, Remembered, ToDo, RowsInv
  <2>6. QED
    BY <2>1, <2>2, <2>3, <2>4, <2>5
<1>4. UploadInv'
  BY <1>a DEF UploadInv, ToDo
<1>5. StreamInv'
  BY <1>a DEF StreamInv
<1>6. PlaceInv'
  BY <1>a DEF PlaceInv, LocationIsKnown, UploadInv, RowsInv, StreamInv
<1>7. LocationIsKnown'
  BY <1>a DEF LocationIsKnown, PlaceInv, UploadInv, RowsInv, StreamInv
<1>8. ReadInv'
  BY <1>a DEF ReadInv, Receipts, PlaceInv, LocationIsKnown, ToDo, RowsInv, StreamInv
<1>9. ReadIsReported'
  BY <1>a DEF ReadIsReported, ReadInv, RowsInv, ToDo
<1>10. QED
  BY <1>1, <1>2, <1>3, <1>4, <1>5, <1>6, <1>7, <1>8, <1>9

(* A crash keeps the rows and what was done, and is counted. *)
LEMMA CrashIInv ==
  ASSUME IInv,
         Crash
  PROVE  IInv'
<1> USE ConstantsAssumption, NoJobAssumption, JobFields
        DEF IInv, TypeOK, AtState, Result, Actions, db, server, handle, control,
            Crash, Nothing
<1>a. Incoming \subseteq Msgs /\ Outgoing \subseteq Msgs
  BY DEF Msgs
<1>1. TypeOK'
  BY <1>a DEF TypeOK, AtState, Result
<1>2. RowsInv'
  BY <1>a DEF RowsInv, AtState
<1>3. ReceiptInv'
  BY <1>a DEF ReceiptInv, Remembered, ToDo, RowsInv
<1>4. UploadInv'
  BY <1>a DEF UploadInv, ToDo
<1>5. StreamInv'
  BY <1>a DEF StreamInv
<1>6. PlaceInv'
  BY <1>a DEF PlaceInv
<1>7. LocationIsKnown'
  BY <1>a DEF LocationIsKnown
<1>8. ReadInv'
  BY <1>a DEF ReadInv, ToDo, RowsInv
<1>9. ReadIsReported'
  BY <1>a DEF ReadIsReported
<1>10. QED
  BY <1>1, <1>2, <1>3, <1>4, <1>5, <1>6, <1>7, <1>8, <1>9

LEMMA StepIInv == IInv /\ [Next]_vars => IInv'
<1> SUFFICES ASSUME IInv, [Next]_vars PROVE IInv'
  OBVIOUS
<1>1. CASE ImapStep
  BY <1>1, PassIInv, ConnectionIInv, DeleteJobIInv, UploadIInv, DeleteIInv, MarkSeenIInv
     DEF ImapStep
<1>2. CASE \E m \in Msgs : FetchMsg(m) \/ Request(m) \/ DeleteMsgs(m)
  BY <1>2, FetchIInv, OthersIInv
<1>3. CASE LoseStream \/ Crash
  BY <1>3, ConnectionIInv, CrashIInv
<1>4. CASE UNCHANGED vars
  BY <1>4 DEF vars, db, server, handle, control, IInv, TypeOK, RowsInv, ReceiptInv, Remembered, UploadInv,
     StreamInv, PlaceInv, LocationIsKnown, ReadInv, ReadIsReported, ToDo
<1>5. QED
  BY <1>1, <1>2, <1>3, <1>4 DEF Next

(* The inductive invariant holds in every reachable state.                 *)
THEOREM SpecIInv == Spec => []IInv
BY InitIInv, StepIInv, PTL DEF Spec

(* A sender gets one receipt; where $MDNSent cannot be stored or a flag    *)
(* was refused, one more per fault at most.                                *)
THEOREM ReceiptIsSentOnce == Spec => []OneReceipt
<1>1. IInv => OneReceipt
  BY DEF IInv, TypeOK, ReceiptInv, OneReceipt
<1>2. QED
  BY SpecIInv, <1>1, PTL

(* One copy is uploaded, one more per fault at most.                       *)
THEOREM UploadIsDoneOnce == Spec => []OneUpload
<1>1. IInv => OneUpload
  BY DEF IInv, TypeOK, UploadInv, OneUpload, Msgs
<1>2. QED
  BY SpecIInv, <1>1, PTL

(* Without a fault, a message deleted here is deleted on the server,       *)
THEOREM DeletedEverywhere == Spec => []DeletedFromServer
<1>1. IInv => DeletedFromServer
  BY DEF IInv, PlaceInv, DeletedFromServer
<1>2. QED
  BY SpecIInv, <1>1, PTL

(* and one read here is marked there, and its receipt under way.           *)
THEOREM ReadEverywhere == Spec => []ReadIsReported
<1>1. IInv => ReadIsReported
  BY DEF IInv
<1>2. QED
  BY SpecIInv, <1>1, PTL

(* Every variable stays in its type.                                       *)
THEOREM TypeCorrect == Spec => []TypeOK
<1>1. IInv => TypeOK
  BY DEF IInv
<1>2. QED
  BY SpecIInv, <1>1, PTL

(* Without a fault the database names the folder a message is in.          *)
THEOREM PlaceIsKnown == Spec => []LocationIsKnown
<1>1. IInv => LocationIsKnown
  BY DEF IInv
<1>2. QED
  BY SpecIInv, <1>1, PTL

-----------------------------------------------------------------------------
(* The refinement of Mailbox.  The two flags are set in this order, by the *)
(* one command after the other of dc_imap_markseen_msg().                  *)
LEMMA StepSeenFirst == SeenFirst /\ [Next]_vars => SeenFirst'
<1> SUFFICES ASSUME SeenFirst, [Next]_vars PROVE SeenFirst'
  OBVIOUS
<1> USE DEF SeenFirst, server
<1>1. CASE \/ \E moved \in {0, 1} : MarkSeen(moved) \/ MarkSeenRefused(moved)
           \/ \E steps \in 0..3 : MarkSeenFails(steps)
  BY <1>1 DEF MarkSeen, MarkSeenRefused, MarkSeenFails, MarkOnServer
<1>2. CASE Append \/ AppendFails \/ Delete \/ DeleteFails
  BY <1>2 DEF Append, AppendFails, AppendCopy, Delete, DeleteFails
<1>3. CASE \/ StartPass \/ EndPass \/ TryAgain \/ TryAgainLater \/ DeleteJob \/ EndFetch \/ NoRow
           \/ NoteUpload \/ DeleteRow \/ MarkSeenNothing \/ NoteMarkSeen \/ LoseStream \/ Crash
           \/ UNCHANGED vars
  BY <1>3 DEF StartPass, EndPass, TryAgain, TryAgainLater, DeleteJob, EndFetch, NoRow, NoteUpload,
              DeleteRow, MarkSeenNothing, NoteMarkSeen, LoseStream, Crash, vars
<1>4. CASE \/ \E j \in Job : NextJob(j)
           \/ \E s \in {"none", "open"} : ConnectForJob(s) \/ SetupHandle(s)
           \/ \E m \in Msgs : FetchMsg(m) \/ Request(m) \/ DeleteMsgs(m)
  BY <1>4 DEF NextJob, ConnectForJob, SetupHandle, FetchMsg, Request, DeleteMsgs
<1>5. QED
  BY <1>1, <1>2, <1>3, <1>4 DEF Next, ImapStep

(* $MDNSent is never set on a message that is not \Seen.                   *)
THEOREM SeenComesFirst == Spec => []SeenFirst
<1>1. Init => SeenFirst
  BY DEF Init, SeenFirst
<1>2. QED
  BY <1>1, StepSeenFirst, PTL DEF Spec

(* The messages the user has deleted.                                      *)
Dropped == {m \in Msgs : row[m] # "chat"}

LEMMA NothingAsked ==
  ASSUME UNCHANGED <<requested, row, copies, seen, mdnJobs, refused, faults>>
  PROVE  UNCHANGED Promise!vars
BY DEF Promise!vars

(* The passes, the connection and the fetch leave the promise alone.       *)
LEMMA QuietPromise ==
  ASSUME IInv,
         \/ StartPass \/ EndPass \/ TryAgain \/ TryAgainLater \/ DeleteJob \/ EndFetch \/ NoRow
         \/ NoteUpload \/ MarkSeenNothing
         \/ \E j \in Job : NextJob(j)
         \/ \E s \in {"none", "open"} : ConnectForJob(s) \/ SetupHandle(s)
  PROVE  UNCHANGED Promise!vars
BY NothingAsked DEF db, server, StartPass, EndPass, TryAgain, TryAgainLater, DeleteJob, EndFetch,
   NoRow, NoteUpload, MarkSeenNothing, NextJob, ConnectForJob, SetupHandle

(* A message that is downloaded once more, or whose row is deleted, was    *)
(* dropped before.                                                         *)
LEMMA RowPromise ==
  ASSUME IInv, DeleteRow \/ \E m \in Msgs : FetchMsg(m)
  PROVE  UNCHANGED Promise!vars
<1>1. UNCHANGED <<requested, copies, seen, mdnJobs, refused, faults>>
  BY DEF DeleteRow, FetchMsg, server
<1>2. \A m \in Msgs : (row'[m] # "chat") = (row[m] # "chat")
  <2>1. CASE DeleteRow
    <3>1. cur \in jobs /\ row[cur.msg] # "chat" /\ row \in [Msgs -> {"chat", "trash", "gone", "again"}]
      BY <2>1 DEF IInv, TypeOK, RowsInv, AtState, DeleteRow
    <3>2. QED
      BY <2>1, <3>1 DEF DeleteRow
  <2>2. CASE \E m \in Msgs : FetchMsg(m)
    BY <2>2 DEF IInv, TypeOK, FetchMsg
  <2>3. QED
    BY <2>1, <2>2
<1>3. Dropped' = Dropped
  BY <1>2 DEF Dropped
<1>4. QED
  BY <1>1, <1>3 DEF Promise!vars, Dropped

(* The user reads, sends and deletes.                                      *)
LEMMA UserPromise ==
  ASSUME IInv, NEW m \in Msgs, Request(m) \/ DeleteMsgs(m)
  PROVE  Promise!Next
<1> USE DEF server
<1>1. CASE Request(m)
  <2>1. Promise!Ask(m)
    BY <1>1 DEF Request, Promise!Ask
  <2>2. QED
    BY <2>1 DEF Promise!Next, Msgs
<1>2. CASE DeleteMsgs(m)
  <2>1. Dropped' = Dropped \cup {m}
    BY <1>2 DEF DeleteMsgs, Dropped, IInv, TypeOK
  <2>2. Promise!Drop(m)
    BY <1>2, <2>1 DEF DeleteMsgs, Dropped, Promise!Drop
  <2>3. QED
    BY <2>2 DEF Promise!Next, Msgs
<1>3. QED
  BY <1>1, <1>2

(* What is broken on the way counts as one fault.                          *)
LEMMA FaultPromise ==
  ASSUME faults' = faults + 1, UNCHANGED <<requested, row, copies, seen, mdnJobs, refused>>
  PROVE  Promise!Next
BY DEF Promise!Fault, Promise!Next

(* The upload is of a message the user has sent.                           *)
LEMMA UploadPromise ==
  ASSUME IInv, Append \/ AppendFails
  PROVE  [Promise!Next]_(Promise!vars)
<1> USE DEF db, server
<1>1. /\ cur \in jobs /\ cur \in Job /\ at = "run" /\ cur.action = "upload"
      /\ cur.msg \in Outgoing \cap requested /\ cur.msg \in Msgs
  BY DEF IInv, TypeOK, RowsInv, AtState, Append, AppendFails, Running, Msgs
<1>2. copies[cur.msg] <= faults
  BY <1>1, JobFields DEF IInv, UploadInv, ToDo
<1>3. ASSUME AppendCopy(cur.msg), UNCHANGED <<requested, row, mdnJobs>>, Promise!Answer
      PROVE  Promise!Next
  <2>1. Promise!Upload(cur.msg)
    BY <1>1, <1>2, <1>3 DEF AppendCopy, Promise!Upload
  <2>2. QED
    BY <1>1, <2>1 DEF Promise!Next, Msgs
<1>4. CASE Append
  BY <1>3, <1>4 DEF Append, Promise!Answer
<1>5. CASE AppendFails
  <2>1. CASE CommandFails /\ UNCHANGED server
    BY <1>5, <2>1, NothingAsked DEF AppendFails, CommandFails
  <2>2. CASE StreamDies /\ UNCHANGED server
    BY <1>5, <2>2, FaultPromise DEF AppendFails, StreamDies
  <2>3. CASE StreamDies /\ AppendCopy(cur.msg)
    BY <1>3, <1>5, <2>3 DEF AppendFails, StreamDies, Promise!Answer
  <2>4. QED
    BY <1>5, <2>1, <2>2, <2>3 DEF AppendFails
<1>6. QED
  BY <1>4, <1>5

(* The deletion is of a message the user has deleted.                      *)
LEMMA DeletePromise ==
  ASSUME IInv, Delete \/ DeleteFails
  PROVE  [Promise!Next]_(Promise!vars)
<1> USE DEF db, server
<1>1. /\ cur \in jobs /\ cur.msg \in Msgs /\ row[cur.msg] # "chat"
  BY DEF IInv, TypeOK, RowsInv, AtState, Delete, DeleteFails, Running, Job
<1>2. ASSUME copies[cur.msg] > 0, copies' = [copies EXCEPT ![cur.msg] = @ - 1],
             UNCHANGED <<requested, row, seen, mdnJobs, refused>>, Promise!Answer
      PROVE  Promise!Next
  <2>1. Promise!Delete(cur.msg)
    BY <1>1, <1>2 DEF Promise!Delete
  <2>2. QED
    BY <1>1, <2>1 DEF Promise!Next, Msgs
<1>3. CASE Delete
  <2>1. UNCHANGED <<requested, row, seen, mdnJobs, refused, faults>>
    BY <1>3 DEF Delete
  <2>2. CASE copies' = copies
    BY <2>1, <2>2, NothingAsked
  <2>3. CASE copies' # copies
    <3>1. copies[cur.msg] > 0 /\ copies' = [copies EXCEPT ![cur.msg] = @ - 1]
      BY <1>1, <1>3, <2>3 DEF Delete, IInv, TypeOK
    <3>2. QED
      BY <1>2, <2>1, <3>1 DEF Promise!Answer
  <2>4. QED
    BY <2>2, <2>3
<1>4. CASE DeleteFails
  <2>1. UNCHANGED <<requested, row, seen, mdnJobs, refused>>
    BY <1>4 DEF DeleteFails
  <2>2. CASE CommandFails /\ UNCHANGED copies
    BY <2>1, <2>2, NothingAsked DEF CommandFails
  <2>3. CASE StreamDies /\ UNCHANGED copies
    BY <2>1, <2>3, FaultPromise DEF StreamDies
  <2>4. CASE StreamDies /\ copies[cur.msg] > 0 /\ copies' = [copies EXCEPT ![cur.msg] = @ - 1]
    BY <1>2, <2>1, <2>4 DEF StreamDies, Promise!Answer
  <2>5. QED
    BY <1>4, <2>2, <2>3, <2>4 DEF DeleteFails
<1>5. QED
  BY <1>3, <1>4

(* The marks are of a message the user has read,                           *)
LEMMA MarkPromise ==
  ASSUME IInv,
         \/ \E moved \in {0, 1} : MarkSeen(moved) \/ MarkSeenRefused(moved)
         \/ \E steps \in 0..3 : MarkSeenFails(steps)
  PROVE  [Promise!Next]_(Promise!vars)
<1> USE DEF db, server
<1>1. cur \in jobs /\ cur.msg \in Msgs /\ cur.msg \in Incoming \cap requested
  BY DEF IInv, TypeOK, RowsInv, AtState, MarkSeen, MarkSeenRefused, MarkSeenFails, Running, Job
<1>2. ASSUME seen' = seen \cup {cur.msg}, UNCHANGED <<requested, row, copies, mdnJobs, refused>>, Promise!Answer
      PROVE  Promise!Next
  <2>1. Promise!MarkSeen(cur.msg)
    BY <1>1, <1>2 DEF Promise!MarkSeen
  <2>2. QED
    BY <1>1, <2>1 DEF Promise!Next, Msgs
<1>3. ASSUME seen' = seen \/ seen' = seen \cup {cur.msg}, UNCHANGED <<requested, row, copies, mdnJobs, refused>>,
             Promise!Answer
      PROVE  [Promise!Next]_(Promise!vars)
  BY <1>2, <1>3, NothingAsked, FaultPromise DEF Promise!Answer
<1>4. ASSUME NEW moved \in {0, 1}, MarkSeen(moved)
      PROVE  [Promise!Next]_(Promise!vars)
  BY <1>3, <1>4 DEF MarkSeen, MarkOnServer, MoveOnServer, Promise!Answer
<1>5. ASSUME NEW steps \in 0..3, MarkSeenFails(steps)
      PROVE  [Promise!Next]_(Promise!vars)
  BY <1>3, <1>5 DEF MarkSeenFails, MarkOnServer, MoveOnServer, CommandFails, StreamDies,
                    Promise!Answer
<1>6. ASSUME NEW moved \in {0, 1}, MarkSeenRefused(moved)
      PROVE  [Promise!Next]_(Promise!vars)
  <2>1. Promise!Refuse(cur.msg)
    BY <1>1, <1>6 DEF MarkSeenRefused, MoveOnServer, Promise!Refuse
  <2>2. QED
    BY <1>1, <2>1 DEF Promise!Next, Msgs
<1>7. QED
  BY <1>4, <1>5, <1>6

(* and so is the receipt.                                                  *)
LEMMA ReceiptPromise ==
  ASSUME IInv, SeenFirst, NoteMarkSeen
  PROVE  [Promise!Next]_(Promise!vars)
<1> USE DEF server
<1>1. /\ cur \in jobs /\ cur.msg \in Msgs /\ cur.msg \in Incoming \cap requested
      /\ result.mdn \in {0, 1} /\ mdnJobs \in [Msgs -> Nat]
  BY DEF IInv, TypeOK, RowsInv, AtState, NoteMarkSeen, Job, Result
<1>2. UNCHANGED <<requested, row, copies, seen, refused, faults>>
  BY DEF NoteMarkSeen
<1>3. CASE result.mdn = 0
  <2>1. mdnJobs' = mdnJobs
    BY <1>1, <1>3 DEF NoteMarkSeen
  <2>2. QED
    BY <1>2, <2>1, NothingAsked
<1>4. CASE result.mdn = 1
  <2>1. IF Remembered(cur.msg) THEN cur.msg \in seen /\ mdnJobs[cur.msg] = 0
                               ELSE mdnJobs[cur.msg] <= faults
    BY <1>1, <1>4 DEF IInv, ReceiptInv, Remembered, SeenFirst, NoteMarkSeen
  <2>2. mdnJobs' = [mdnJobs EXCEPT ![cur.msg] = @ + 1]
    BY <1>4 DEF NoteMarkSeen
  <2>3. Promise!SendReceipt(cur.msg)
    BY <1>1, <1>2, <2>1, <2>2 DEF Remembered, Promise!SendReceipt
  <2>4. QED
    BY <1>1, <2>3 DEF Promise!Next, Msgs
<1>5. QED
  BY <1>1, <1>3, <1>4

(* The jobs of the IMAP thread change the server as Mailbox allows, with   *)
(* every fault and deletion in between (dc_job_do_DC_JOB_*()).             *)
THEOREM Implements == Spec => ImplementsMailbox
<1>1. Init => Promise!Init
  BY DEF Init, Promise!Init, Msgs
<1>2. IInv /\ SeenFirst /\ [Next]_vars => [Promise!Next]_(Promise!vars)
  <2> SUFFICES ASSUME IInv, SeenFirst, [Next]_vars PROVE [Promise!Next]_(Promise!vars)
    OBVIOUS
  <2>1. CASE UNCHANGED vars
    BY <2>1, NothingAsked DEF vars, db, server
  <2>2. CASE LoseStream \/ Crash
    BY <2>2, FaultPromise DEF LoseStream, Crash, db, server
  <2>3. CASE ImapStep
    BY <2>3, QuietPromise, RowPromise, UploadPromise, DeletePromise, MarkPromise, ReceiptPromise
       DEF ImapStep
  <2>4. CASE \E m \in Msgs : FetchMsg(m) \/ Request(m) \/ DeleteMsgs(m)
    BY <2>4, RowPromise, UserPromise
  <2>5. QED
    BY <2>1, <2>2, <2>3, <2>4 DEF Next
<1>3. QED
  BY SpecIInv, SeenComesFirst, <1>1, <1>2, PTL DEF Spec, ImplementsMailbox, Promise!Spec
=============================================================================
