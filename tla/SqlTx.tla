-------------------------------- MODULE SqlTx --------------------------------
(***************************************************************************)
(* Transactions on the one database connection (src/src/dc_sqlite3.c).     *)
(*                                                                         *)
(* All threads of a context share one SQLite handle, opened in serialized  *)
(* mode: a statement is atomic, but a transaction belongs to the handle    *)
(* and not to a thread.  A BEGIN within a transaction fails (the busy      *)
(* timeout is for other connections), the thread goes on all the same, and *)
(* its statements take part in the transaction somebody else opened.       *)
(*                                                                         *)
(* An operation of the core is modelled by the statements it executes that *)
(* write or that delimit a transaction, in their order; what the rows hold *)
(* is left out: the statement at a place of an operation writes the row    *)
(* <<thread, operation, place>>.                                           *)
(***************************************************************************)
EXTENDS Naturals, Sequences

CONSTANTS
    Imap,       \* the thread that receives messages
    Smtp,       \* the thread that sends messages
    Users,      \* the threads the user interface calls the dc_*() functions from
    NoThread,   \* no thread
    MaxOps,     \* bound: operations of all threads
    MaxCrashes  \* bound: crashes

Threads == {Imap, Smtp} \cup Users

ASSUME ConstantsAssumption ==
    /\ Imap # Smtp /\ {Imap, Smtp} \cap Users = {}
    /\ NoThread \notin Threads
    /\ MaxOps \in Nat /\ MaxCrashes \in Nat

VARIABLES
    disk,    \* rows in the database file
    pending, \* rows written in the open transaction: the handle sees them
    open,    \* 1: the handle is in a transaction (autocommit is off)
    opener,  \* history: the thread whose BEGIN opened it
    prog,    \* [Threads -> statements of the running operation, <<>> when idle]
    pc,      \* [Threads -> place of its next statement]
    op,      \* [Threads -> number of its operation, or of its last one]
    started, \* operations started
    mine,    \* history: [Threads -> rows written since the operation's own BEGIN]
    within,  \* history: [Threads -> 1 between its own BEGIN and COMMIT or ROLLBACK]
    kept,    \* history: rows the operations would leave if each had its own handle
    mixed,   \* history: operations that overlapped a transaction of another thread
    crashes  \* crashes so far

database == <<disk, pending, open, opener>>
control  == <<prog, pc, op, started>>
history  == <<mine, within, kept, mixed>>
vars     == <<database, control, history, crashes>>

-----------------------------------------------------------------------------
(* The operations: B is BEGIN IMMEDIATE, W a statement that writes, C      *)
(* COMMIT and R ROLLBACK.                                                  *)
B == "begin"
W == "write"
C == "commit"
R == "rollback"
Statement == {B, W, C, R}

(* Mutant: the way out for a known message misses the rollback.            *)
ReceiveKnownLeftOpen == {<<B, W>>, <<B, W, R, W>>}

(* dc_receive_imf(): contacts, the message, jobs; on an error and for a    *)
(* mail with a Message-ID that is known all of it is rolled back, and the  *)
(* known message gets its new folder and UID after that.  A Secure-Join    *)
(* mail is handled between two transactions.                               *)
ReceiveMsg       == {<<B, W, W, C>>, <<B, W, R>>}
ReceiveKnown     == {<<B, W, R>>, <<B, W, R, W>>}
ReceiveHandshake == {<<B, W, C, W, B, W, C>>, <<B, W, C, W, B, W, R>>}

(* The SMTP thread records that a message was accepted, adds the job for   *)
(* the upload, and deletes its job.                                        *)
Delivered == {<<B, W, W, C>>}
DeleteJob == {<<W>>}

(* dc_send_msg_raw() inserts the message and its job without transaction.  *)
SendMsgRaw == {<<W, W>>}

(* dc_delete_msgs(), dc_markseen_msgs(), dc_star_msgs() and                *)
(* dc_add_address_book(): there is no way out before the COMMIT.           *)
DeleteMsgs     == {<<B, W, W, C>>}
MarkSeenMsgs   == {<<B, C>>, <<B, W, W, C>>}
StarMsgs       == {<<B, W, C>>}
AddAddressBook == {<<B, C>>, <<B, W, C>>}

(* dc_forward_msgs() sends in a transaction, and rolls back when the chat  *)
(* or a message cannot be loaded; dc_delete_chat() rolls back when a       *)
(* statement fails.                                                        *)
ForwardMsgs == {<<B, W, R>>, <<B, W, W, W, C>>, <<B, W, W, W, R>>}
DeleteChat  == {<<B, W, W, C>>, <<B, R>>, <<B, W, R>>}

Operations(t) ==
    IF t = Imap THEN ReceiveMsg \cup ReceiveKnown \cup ReceiveHandshake
    ELSE IF t = Smtp THEN Delivered \cup DeleteJob
    ELSE SendMsgRaw \cup DeleteMsgs \cup MarkSeenMsgs \cup StarMsgs
            \cup AddAddressBook \cup ForwardMsgs \cup DeleteChat

Programs == UNION {Operations(t) : t \in Threads}

Transactional(p) == \E i \in 1..Len(p) : p[i] = B
Idle(t)          == prog[t] = <<>>
At(t, s)         == ~Idle(t) /\ pc[t] \in 1..Len(prog[t]) /\ prog[t][pc[t]] = s
Row(t)           == <<t, op[t], pc[t]>>
Of(rows, t, n)   == {r \in rows : r[1] = t /\ r[2] = n}

-----------------------------------------------------------------------------
RowId == Threads \X Nat \X Nat

TypeOK ==
    /\ disk \in SUBSET RowId /\ pending \in SUBSET RowId /\ kept \in SUBSET RowId
    /\ open \in {0, 1} /\ opener \in Threads \cup {NoThread}
    /\ prog \in [Threads -> Programs \cup {<<>>}]
    /\ \A t \in Threads : prog[t] \in Operations(t) \cup {<<>>}
    /\ pc \in [Threads -> Nat]
    /\ \A t \in Threads : pc[t] \in 1..Len(prog[t]) + 1
    /\ started \in Nat /\ crashes \in Nat
    /\ op \in [Threads -> 0..started]
    /\ within \in [Threads -> {0, 1}]
    /\ mine \in [Threads -> SUBSET RowId]
    /\ \A t \in Threads : mine[t] = Of(mine[t], t, op[t])
    /\ mixed \in SUBSET (Threads \X Nat)

Init ==
    /\ disk = {} /\ pending = {} /\ open = 0 /\ opener = NoThread
    /\ prog = [t \in Threads |-> <<>>]
    /\ pc = [t \in Threads |-> 1]
    /\ op = [t \in Threads |-> 0] /\ started = 0
    /\ mine = [t \in Threads |-> {}]
    /\ within = [t \in Threads |-> 0]
    /\ kept = {} /\ mixed = {} /\ crashes = 0

-----------------------------------------------------------------------------
(* A thread calls an operation of the core.                                *)
Start(t, p) ==
    /\ Idle(t) /\ started < MaxOps
    /\ prog' = [prog EXCEPT ![t] = p]
    /\ started' = started + 1
    /\ op' = [op EXCEPT ![t] = started + 1]
    /\ mixed' = mixed
          \cup {<<t, started + 1>> : u \in {v \in Threads : ~Idle(v) /\ Transactional(prog[v])}}
          \cup {<<u, op[u]>> : u \in {v \in Threads : ~Idle(v) /\ Transactional(p)}}
    /\ UNCHANGED <<database, pc, mine, within, kept, crashes>>

Step(t) == pc' = [pc EXCEPT ![t] = @ + 1] /\ UNCHANGED <<prog, op, started, mixed, crashes>>

(* dc_sqlite3_begin_transaction(): an error is logged, nothing else.       *)
Begin(t) ==
    /\ At(t, B)
    /\ open' = 1
    /\ opener' = IF open = 0 THEN t ELSE opener
    /\ within' = [within EXCEPT ![t] = 1]
    /\ mine' = [mine EXCEPT ![t] = {}]
    /\ Step(t)
    /\ UNCHANGED <<disk, pending, kept>>

(* A statement outside of a transaction commits by itself.                 *)
Write(t) ==
    /\ At(t, W)
    /\ \/ open = 1 /\ pending' = pending \cup {Row(t)} /\ UNCHANGED disk
       \/ open = 0 /\ disk' = disk \cup {Row(t)} /\ UNCHANGED pending
    /\ \/ within[t] = 1 /\ mine' = [mine EXCEPT ![t] = @ \cup {Row(t)}] /\ UNCHANGED kept
       \/ within[t] = 0 /\ kept' = kept \cup {Row(t)} /\ UNCHANGED mine
    /\ Step(t)
    /\ UNCHANGED <<open, opener, within>>

EndTransaction(t) ==
    /\ pending' = {} /\ open' = 0 /\ opener' = NoThread
    /\ within' = [within EXCEPT ![t] = 0]
    /\ mine' = [mine EXCEPT ![t] = {}]
    /\ Step(t)

(* COMMIT and ROLLBACK end the transaction of the handle, whoever opened   *)
(* it; without one they fail, which is logged.                             *)
Commit(t) ==
    /\ At(t, C)
    /\ disk' = disk \cup pending
    /\ kept' = kept \cup mine[t]
    /\ EndTransaction(t)

(* Mutant: the rollback executes END, which commits.                       *)
RollbackCommits(t) ==
    /\ At(t, R)
    /\ disk' = disk \cup pending
    /\ EndTransaction(t)
    /\ UNCHANGED kept

Rollback(t) ==
    /\ At(t, R)
    /\ EndTransaction(t)
    /\ UNCHANGED <<disk, kept>>

(* Mutant: the place of the last operation is kept.                        *)
ReturnAndKeepPlace(t) ==
    /\ ~Idle(t) /\ pc[t] = Len(prog[t]) + 1
    /\ prog' = [prog EXCEPT ![t] = <<>>]
    /\ UNCHANGED <<database, pc, op, started, history, crashes>>

Return(t) ==
    /\ ~Idle(t) /\ pc[t] = Len(prog[t]) + 1
    /\ prog' = [prog EXCEPT ![t] = <<>>]
    /\ pc' = [pc EXCEPT ![t] = 1]
    /\ UNCHANGED <<database, op, started, history, crashes>>

(* The process ends; what was not committed is rolled back at the next     *)
(* start.                                                                  *)
Crash ==
    /\ crashes < MaxCrashes /\ crashes' = crashes + 1
    /\ pending' = {} /\ open' = 0 /\ opener' = NoThread
    /\ prog' = [t \in Threads |-> <<>>]
    /\ pc' = [t \in Threads |-> 1]
    /\ mine' = [t \in Threads |-> {}]
    /\ within' = [t \in Threads |-> 0]
    /\ UNCHANGED <<disk, op, started, kept, mixed>>

ThreadStep(t) ==
    \/ \E p \in Operations(t) : Start(t, p)
    \/ Begin(t) \/ Write(t) \/ Commit(t) \/ Rollback(t) \/ Return(t)

Next == Crash \/ \E t \in Threads : ThreadStep(t)

Spec == Init /\ [][Next]_vars

-----------------------------------------------------------------------------
(* A transaction is ended by the operation that opened it, if by no other  *)
(* before: when no thread is in an operation there is none, and all that   *)
(* the operations wrote and did not roll back is in the file.  A way out   *)
(* of an operation that misses its rollback would leave the handle in a    *)
(* transaction for ever, and the next crash would take all that came       *)
(* after it.                                                               *)
NoTransactionLeftOpen ==
    /\ open = 0 => pending = {}
    /\ open = 1 =>
          /\ opener \in Threads /\ ~Idle(opener)
          /\ \E i \in pc[opener]..Len(prog[opener]) : prog[opener][i] \in {C, R}

(* What an operation leaves in the database is what it would leave with a  *)
(* handle of its own - all of a transaction or nothing, whether it ends,   *)
(* fails, or the process does - unless it overlapped a transaction of      *)
(* another thread.  Operations without transaction may overlap each other. *)
AsOnItsOwn ==
    \A t \in Threads : \A n \in 1..started :
        <<t, n>> \notin mixed => Of(disk, t, n) = Of(kept, t, n)

(* The parts of the inductive invariant.                                   *)
Overlaps ==
    \A t, u \in Threads :
        t # u /\ ~Idle(t) /\ ~Idle(u) /\ Transactional(prog[u]) => <<t, op[t]>> \in mixed

SectionEnds ==
    \A t \in Threads :
        /\ within[t] = 0 => mine[t] = {}
        /\ within[t] = 1 =>
              /\ ~Idle(t)
              /\ \E i \in pc[t]..Len(prog[t]) :
                    prog[t][i] \in {C, R} /\ \A j \in pc[t]..i - 1 : prog[t][j] = W

OpenedByRunning == open = 1 => Transactional(prog[opener])

OwnTransaction ==
    \A t \in Threads :
        ~Idle(t) /\ <<t, op[t]>> \notin mixed =>
            open = within[t] /\ Of(pending, t, op[t]) = mine[t]

NothingPending ==
    \A t \in Threads : \A n \in 1..started :
        <<t, n>> \notin mixed /\ (Idle(t) \/ n # op[t]) => Of(pending, t, n) = {}

RowsOfStarted == \A r \in disk \cup pending \cup kept : r[2] \in 0..started

IInv ==
    /\ TypeOK /\ NoTransactionLeftOpen /\ AsOnItsOwn
    /\ Overlaps /\ SectionEnds /\ OpenedByRunning /\ OwnTransaction
    /\ NothingPending /\ RowsOfStarted
=============================================================================
