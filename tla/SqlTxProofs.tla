----------------------------- MODULE SqlTxProofs -----------------------------
(***************************************************************************)
(* Theorems about SqlTx, for every number of user threads, operations and  *)
(* crashes.                                                                *)
(***************************************************************************)
EXTENDS SqlTx, TLAPS

Ended(p, i) ==
    \E j \in i..Len(p) : p[j] \in {C, R} /\ \A k \in i..j - 1 : p[k] = W

(* What the programs have in common, and all the proof needs to know of    *)
(* them: the first after a BEGIN that is no write is a COMMIT or ROLLBACK, *)
(* and where those are there is a BEGIN.                                   *)
Closed(p) ==
    /\ p \in Seq(Statement) /\ p # <<>>
    /\ \A i \in 1..Len(p) : p[i] = B => Ended(p, i + 1)
    /\ \A i \in 1..Len(p) : p[i] \in {C, R} => Transactional(p)

LEMMA Shapes ==
  ASSUME NEW e \in {C, R}
  PROVE  /\ Closed(<<W>>)
         /\ Closed(<<W, W>>)
         /\ Closed(<<B, e>>)
         /\ Closed(<<B, W, e>>)
         /\ Closed(<<B, W, W, e>>)
         /\ Closed(<<B, W, W, W, e>>)
         /\ Closed(<<B, W, e, W>>)
         /\ Closed(<<B, W, C, W, B, W, e>>)
<1> USE DEF Statement, B, W, C, R
<1>1. Closed(<<W>>)
  <2> DEFINE p == <<W>>
  <2>1. p \in Seq(Statement) /\ Len(p) = 1 /\ p # <<>>
    OBVIOUS
  <2>2. p[1] = W
    OBVIOUS
  <2> HIDE DEF p
  <2>3. QED
    <3>1. Closed(p)
      BY <2>1, <2>2 DEF Closed
    <3>2. QED
      BY <3>1 DEF p
<1>2. Closed(<<W, W>>)
  <2> DEFINE p == <<W, W>>
  <2>1. p \in Seq(Statement) /\ Len(p) = 2 /\ p # <<>>
    OBVIOUS
  <2>2. p[1] = W /\ p[2] = W
    OBVIOUS
  <2> HIDE DEF p
  <2>3. QED
    <3>1. Closed(p)
      BY <2>1, <2>2 DEF Closed
    <3>2. QED
      BY <3>1 DEF p
<1>3. Closed(<<B, e>>)
  <2> DEFINE p == <<B, e>>
  <2>1. p \in Seq(Statement) /\ Len(p) = 2 /\ p # <<>>
    OBVIOUS
  <2>2. p[1] = B /\ p[2] = e
    OBVIOUS
  <2> HIDE DEF p
  <2>3. Ended(p, 2)
    BY <2>1, <2>2, 2 \in 2..Len(p) DEF Ended
  <2>4. Transactional(p)
    BY <2>1, <2>2, 1 \in 1..Len(p) DEF Transactional
  <2>5. QED
    <3>1. Closed(p)
      BY <2>1, <2>2, <2>3, <2>4 DEF Closed
    <3>2. QED
      BY <3>1 DEF p
<1>4. Closed(<<B, W, e>>)
  <2> DEFINE p == <<B, W, e>>
  <2>1. p \in Seq(Statement) /\ Len(p) = 3 /\ p # <<>>
    OBVIOUS
  <2>2. p[1] = B /\ p[2] = W /\ p[3] = e
    OBVIOUS
  <2> HIDE DEF p
  <2>3. Ended(p, 2)
    BY <2>1, <2>2, 3 \in 2..Len(p) DEF Ended
  <2>4. Transactional(p)
    BY <2>1, <2>2, 1 \in 1..Len(p) DEF Transactional
  <2>5. QED
    <3>1. Closed(p)
      BY <2>1, <2>2, <2>3, <2>4 DEF Closed
    <3>2. QED
      BY <3>1 DEF p
<1>5. Closed(<<B, W, W, e>>)
  <2> DEFINE p == <<B, W, W, e>>
  <2>1. p \in Seq(Statement) /\ Len(p) = 4 /\ p # <<>>
    OBVIOUS
  <2>2. p[1] = B /\ p[2] = W /\ p[3] = W /\ p[4] = e
    OBVIOUS
  <2> HIDE DEF p
  <2>3. Ended(p, 2)
    BY <2>1, <2>2, 4 \in 2..Len(p) DEF Ended
  <2>4. Transactional(p)
    BY <2>1, <2>2, 1 \in 1..Len(p) DEF Transactional
  <2>5. QED
    <3>1. Closed(p)
      BY <2>1, <2>2, <2>3, <2>4 DEF Closed
    <3>2. QED
      BY <3>1 DEF p
<1>6. Closed(<<B, W, W, W, e>>)
  <2> DEFINE p == <<B, W, W, W, e>>
  <2>1. p \in Seq(Statement) /\ Len(p) = 5 /\ p # <<>>
    OBVIOUS
  <2>2. p[1] = B /\ p[2] = W /\ p[3] = W /\ p[4] = W /\ p[5] = e
    OBVIOUS
  <2> HIDE DEF p
  <2>3. Ended(p, 2)
    BY <2>1, <2>2, 5 \in 2..Len(p) DEF Ended
  <2>4. Transactional(p)
    BY <2>1, <2>2, 1 \in 1..Len(p) DEF Transactional
  <2>5. QED
    <3>1. Closed(p)
      BY <2>1, <2>2, <2>3, <2>4 DEF Closed
    <3>2. QED
      BY <3>1 DEF p
<1>7. Closed(<<B, W, e, W>>)
  <2> DEFINE p == <<B, W, e, W>>
  <2>1. p \in Seq(Statement) /\ Len(p) = 4 /\ p # <<>>
    OBVIOUS
  <2>2. p[1] = B /\ p[2] = W /\ p[3] = e /\ p[4] = W
    OBVIOUS
  <2> HIDE DEF p
  <2>3. Ended(p, 2)
    BY <2>1, <2>2, 3 \in 2..Len(p) DEF Ended
  <2>4. Transactional(p)
    BY <2>1, <2>2, 1 \in 1..Len(p) DEF Transactional
  <2>5. QED
    <3>1. Closed(p)
      BY <2>1, <2>2, <2>3, <2>4 DEF Closed
    <3>2. QED
      BY <3>1 DEF p
<1>8. Closed(<<B, W, C, W, B, W, e>>)
  <2> DEFINE p == <<B, W, C, W, B, W, e>>
  <2>1. p \in Seq(Statement) /\ Len(p) = 7 /\ p # <<>>
    OBVIOUS
  <2>2. p[1] = B /\ p[2] = W /\ p[3] = C /\ p[4] = W /\ p[5] = B /\ p[6] = W /\ p[7] = e
    OBVIOUS
  <2> HIDE DEF p
  <2>3. Ended(p, 2)
    BY <2>1, <2>2, 3 \in 2..Len(p) DEF Ended
  <2>4. Ended(p, 6)
    BY <2>1, <2>2, 7 \in 6..Len(p) DEF Ended
  <2>5. Transactional(p)
    BY <2>1, <2>2, 1 \in 1..Len(p) DEF Transactional
  <2>6. QED
    <3>1. Closed(p)
      BY <2>1, <2>2, <2>3, <2>4, <2>5 DEF Closed
    <3>2. QED
      BY <3>1 DEF p
<1>9. QED
  BY <1>1, <1>2, <1>3, <1>4, <1>5, <1>6, <1>7, <1>8

LEMMA ProgramsClosed ==
  ASSUME NEW t \in Threads, NEW p \in Operations(t)
  PROVE  Closed(p)
<1>1. p \in ReceiveMsg \cup ReceiveKnown \cup ReceiveHandshake \cup Delivered \cup DeleteJob
         \cup SendMsgRaw \cup DeleteMsgs \cup MarkSeenMsgs \cup StarMsgs
         \cup AddAddressBook \cup ForwardMsgs \cup DeleteChat
  BY DEF Operations
<1>2. QED
  BY <1>1, Shapes
     DEF ReceiveMsg, ReceiveKnown, ReceiveHandshake, Delivered, DeleteJob, SendMsgRaw,
         DeleteMsgs, MarkSeenMsgs, StarMsgs, AddAddressBook, ForwardMsgs, DeleteChat
LEMMA AtFacts ==
  ASSUME TypeOK, NEW t \in Threads, ~Idle(t)
  PROVE  /\ prog[t] \in Operations(t) /\ Closed(prog[t])
         /\ Len(prog[t]) \in Nat /\ pc[t] \in 1..Len(prog[t]) + 1
<1>1. prog[t] \in Operations(t)
  BY DEF TypeOK, Idle
<1>2. QED
  BY <1>1, ProgramsClosed DEF TypeOK, Closed

LEMMA InitIInv == Init => IInv
<1> SUFFICES ASSUME Init PROVE IInv
  OBVIOUS
<1> USE ConstantsAssumption DEF Init
<1>1. Len(<<>>) = 0
  OBVIOUS
<1>2. TypeOK
  BY <1>1 DEF TypeOK, Of
<1>3. NoTransactionLeftOpen /\ AsOnItsOwn /\ Overlaps /\ SectionEnds /\ OpenedByRunning
  BY DEF NoTransactionLeftOpen, AsOnItsOwn, Overlaps, SectionEnds, OpenedByRunning, Idle
<1>4. OwnTransaction /\ NothingPending /\ RowsOfStarted
  BY DEF OwnTransaction, NothingPending, RowsOfStarted, Idle
<1>5. QED
  BY <1>2, <1>3, <1>4 DEF IInv

LEMMA StartIInv ==
  ASSUME IInv, NEW t \in Threads, NEW p \in Operations(t), Start(t, p)
  PROVE  IInv'
<1> USE ConstantsAssumption DEF IInv, Start, database
<1>1. Closed(p) /\ p # <<>> /\ Len(p) \in Nat
  BY ProgramsClosed DEF Closed
<1>2. TypeOK'
  <2>1. mine[t] = {}
    BY DEF SectionEnds, TypeOK
  <2>2. /\ prog' \in [Threads -> Programs \cup {<<>>}]
        /\ \A u \in Threads : prog'[u] \in Operations(u) \cup {<<>>}
    BY DEF TypeOK, Programs
  <2>3. pc[t] = 1
    <3>1. Len(<<>>) = 0
      OBVIOUS
    <3>2. QED
      BY <3>1 DEF TypeOK, Idle
  <2>4. pc' \in [Threads -> Nat] /\ \A u \in Threads : pc'[u] \in 1..Len(prog'[u]) + 1
    BY <1>1, <2>3 DEF TypeOK
  <2>5. started' \in Nat /\ op' \in [Threads -> 0..started']
    BY DEF TypeOK
  <2>6. \A u \in Threads : mine'[u] = Of(mine'[u], u, op'[u])
    BY <2>1 DEF TypeOK, Of
  <2>7. mixed' \in SUBSET (Threads \X Nat)
    BY DEF TypeOK
  <2>8. QED
    BY <2>2, <2>4, <2>5, <2>6, <2>7 DEF TypeOK
<1>3. NoTransactionLeftOpen'
  BY DEF NoTransactionLeftOpen, Idle, TypeOK
<1>4. open = 1 => <<t, started + 1>> \in mixed'
  BY DEF NoTransactionLeftOpen, OpenedByRunning
<1>5. AsOnItsOwn' /\ RowsOfStarted'
  BY DEF AsOnItsOwn, RowsOfStarted, TypeOK, Of
<1>6. Overlaps'
  BY DEF Overlaps, TypeOK, Idle
<1>7. SectionEnds'
  BY DEF SectionEnds, TypeOK, Idle
<1>8. OpenedByRunning'
  BY DEF OpenedByRunning, NoTransactionLeftOpen, TypeOK, Idle
<1>9. OwnTransaction'
  BY <1>4 DEF OwnTransaction, TypeOK, Idle, RowsOfStarted, SectionEnds, NoTransactionLeftOpen, Of
<1>10. NothingPending'
  BY <1>4 DEF NothingPending, TypeOK, Idle, RowsOfStarted, Of, OwnTransaction
<1>11. QED
  BY <1>2, <1>3, <1>5, <1>6, <1>7, <1>8, <1>9, <1>10

LEMMA BeginIInv ==
  ASSUME IInv, NEW t \in Threads, Begin(t)
  PROVE  IInv'
<1> USE ConstantsAssumption DEF IInv, Begin, Step
<1>1. /\ ~Idle(t) /\ pc[t] \in 1..Len(prog[t]) /\ prog[t][pc[t]] = B
      /\ Len(prog[t]) \in Nat /\ Ended(prog[t], pc[t] + 1) /\ Transactional(prog[t])
  BY AtFacts DEF At, Closed, Transactional
<1>2. TypeOK'
  BY <1>1 DEF TypeOK, Of
<1>3. NoTransactionLeftOpen'
  BY <1>1 DEF NoTransactionLeftOpen, Idle, TypeOK, Ended
<1>4. <<t, op[t]>> \notin mixed => open = 0 \/ opener = t
  BY <1>1 DEF NoTransactionLeftOpen, Overlaps, OpenedByRunning, TypeOK
<1>5. AsOnItsOwn' /\ RowsOfStarted' /\ Overlaps' /\ OpenedByRunning'
  BY <1>1 DEF AsOnItsOwn, RowsOfStarted, TypeOK, Of, Overlaps, OpenedByRunning, Idle
<1>6. SectionEnds'
  <2> SUFFICES ASSUME NEW u \in Threads PROVE SectionEnds!(u)'
    BY DEF SectionEnds
  <2>1. CASE u = t
    <3>1. within'[t] = 1 /\ pc'[t] = pc[t] + 1 /\ prog' = prog
      BY DEF TypeOK
    <3>2. QED
      BY <1>1, <2>1, <3>1 DEF Ended, Idle
  <2>2. CASE u # t
    BY <2>2 DEF SectionEnds, Idle, TypeOK
  <2>3. QED
    BY <2>1, <2>2
<1>7. OwnTransaction'
  <2> SUFFICES ASSUME NEW u \in Threads, ~Idle(u), <<u, op[u]>> \notin mixed
               PROVE  open' = within'[u] /\ Of(pending', u, op[u]) = mine'[u]
    BY DEF OwnTransaction, Idle
  <2>1. u = t
    BY <1>1 DEF Overlaps
  <2>2. within' [t] = 1 /\ mine'[t] = {}
    BY DEF TypeOK
  <2>3. within[t] = 0
    <3>1. SUFFICES ASSUME within[t] = 1 PROVE FALSE
      BY DEF TypeOK
    <3>2. PICK i \in pc[t]..Len(prog[t]) :
                 prog[t][i] \in {C, R} /\ \A j \in pc[t]..i - 1 : prog[t][j] = W
      BY <3>1 DEF SectionEnds
    <3>3. CASE i = pc[t]
      BY <1>1, <3>2, <3>3 DEF B, C, R
    <3>4. CASE i # pc[t]
      BY <1>1, <3>2, <3>4, pc[t] \in pc[t]..i - 1 DEF B, W
    <3>5. QED
      BY <3>3, <3>4
  <2>4. Of(pending, t, op[t]) = {}
    BY <1>1, <2>1, <2>3 DEF OwnTransaction, SectionEnds
  <2>5. QED
    BY <1>1, <2>1, <2>2, <2>4
<1>8. NothingPending'
  BY DEF NothingPending, TypeOK, Idle, Of
<1>9. QED
  BY <1>2, <1>3, <1>5, <1>6, <1>7, <1>8

LEMMA WriteIInv ==
  ASSUME IInv, NEW t \in Threads, Write(t)
  PROVE  IInv'
<1> USE ConstantsAssumption DEF IInv, Write, Step
<1>1. /\ ~Idle(t) /\ pc[t] \in 1..Len(prog[t]) /\ prog[t][pc[t]] \notin {C, R}
      /\ Len(prog[t]) \in Nat /\ Row(t) \in RowId
  BY AtFacts DEF At, B, W, C, R, Row, RowId, TypeOK
<1>2. TypeOK'
  <2>1. /\ disk' \in SUBSET RowId /\ pending' \in SUBSET RowId /\ kept' \in SUBSET RowId
    BY <1>1 DEF TypeOK
  <2>5. mine' \in [Threads -> SUBSET RowId]
    <3>1. mine[t] \cup {Row(t)} \in SUBSET RowId
      BY <1>1 DEF TypeOK
    <3>2. QED
      BY <3>1 DEF TypeOK
  <2>2. \A u \in Threads : mine'[u] = Of(mine'[u], u, op'[u])
    BY DEF TypeOK, Of, Row
  <2>3. pc' \in [Threads -> Nat] /\ \A u \in Threads : pc'[u] \in 1..Len(prog'[u]) + 1
    BY <1>1 DEF TypeOK
  <2>6. QED
    BY <2>1, <2>2, <2>3, <2>5 DEF TypeOK
<1>3. NoTransactionLeftOpen'
  BY <1>1 DEF NoTransactionLeftOpen, Idle, TypeOK
<1>4. <<t, op[t]>> \notin mixed => open = within[t]
  BY <1>1 DEF OwnTransaction
<1>5. AsOnItsOwn'
  <2> SUFFICES ASSUME NEW u \in Threads, NEW n \in 1..started, <<u, n>> \notin mixed
               PROVE  Of(disk', u, n) = Of(kept', u, n)
    BY DEF AsOnItsOwn
  <2>1. Of(disk, u, n) = Of(kept, u, n)
    BY DEF AsOnItsOwn
  <2>2. CASE u = t /\ n = op[t]
    BY <1>4, <2>1, <2>2 DEF Of, Row, TypeOK
  <2>3. CASE u # t \/ n # op[t]
    BY <2>1, <2>3 DEF Of, Row
  <2>4. QED
    BY <2>2, <2>3
<1>6. RowsOfStarted' /\ Overlaps' /\ OpenedByRunning'
  BY <1>1 DEF RowsOfStarted, TypeOK, Row, Overlaps, OpenedByRunning, Idle
<1>7. SectionEnds'
  <2> SUFFICES ASSUME NEW u \in Threads PROVE SectionEnds!(u)'
    BY DEF SectionEnds
  <2>1. CASE u = t
    <3>1. within' = within /\ pc'[t] = pc[t] + 1 /\ prog' = prog
      BY DEF TypeOK
    <3>2. within[t] = 0 => mine'[t] = {}
      BY DEF SectionEnds
    <3>3. ASSUME within[t] = 1
          PROVE  /\ ~Idle(t)'
                 /\ \E i \in pc'[t]..Len(prog[t]) :
                       prog[t][i] \in {C, R} /\ \A j \in pc'[t]..i - 1 : prog[t][j] = W
      <4>1. PICK i \in pc[t]..Len(prog[t]) :
                   prog[t][i] \in {C, R} /\ \A j \in pc[t]..i - 1 : prog[t][j] = W
        BY <3>3 DEF SectionEnds
      <4>2. i \in pc'[t]..Len(prog[t]) /\ \A j \in pc'[t]..i - 1 : j \in pc[t]..i - 1
        BY <1>1, <3>1, <4>1
      <4>3. QED
        BY <1>1, <3>1, <4>1, <4>2 DEF Idle
    <3>4. QED
      BY <2>1, <3>1, <3>2, <3>3
  <2>2. CASE u # t
    BY <2>2 DEF SectionEnds, Idle, TypeOK
  <2>3. QED
    BY <2>1, <2>2
<1>8. OwnTransaction'
  <2> SUFFICES ASSUME NEW u \in Threads, ~Idle(u), <<u, op[u]>> \notin mixed
               PROVE  open' = within'[u] /\ Of(pending', u, op[u]) = mine'[u]
    BY DEF OwnTransaction, Idle
  <2>1. open = within[u] /\ Of(pending, u, op[u]) = mine[u]
    BY DEF OwnTransaction
  <2>2. CASE u = t
    BY <1>4, <2>1, <2>2 DEF Of, Row, TypeOK
  <2>3. CASE u # t
    BY <2>1, <2>3 DEF Of, Row, TypeOK
  <2>4. QED
    BY <2>2, <2>3
<1>9. NothingPending'
  BY <1>1 DEF NothingPending, TypeOK, Idle, Of, Row
<1>10. QED
  BY <1>2, <1>3, <1>5, <1>6, <1>7, <1>8, <1>9

(* COMMIT and ROLLBACK of one thread leave the operations of the others    *)
(* alone that are not mixed: they have nothing pending.                    *)
LEMMA EndIInv ==
  ASSUME IInv, NEW t \in Threads, Commit(t) \/ Rollback(t)
  PROVE  IInv'
<1> USE ConstantsAssumption DEF IInv, EndTransaction, Step
<1>1. /\ ~Idle(t) /\ pc[t] \in 1..Len(prog[t])
      /\ Len(prog[t]) \in Nat /\ Transactional(prog[t])
  BY AtFacts DEF At, Closed, Commit, Rollback
<1>2. /\ UNCHANGED <<prog, op, started, mixed, crashes>>
      /\ pending' = {} /\ open' = 0 /\ opener' = NoThread
      /\ within' = [within EXCEPT ![t] = 0]
      /\ mine' = [mine EXCEPT ![t] = {}]
      /\ pc' = [pc EXCEPT ![t] = @ + 1]
      /\ \/ disk' = disk \cup pending /\ kept' = kept \cup mine[t]
         \/ UNCHANGED <<disk, kept>>
  BY DEF Commit, Rollback
<1>3. TypeOK'
  BY <1>1, <1>2 DEF TypeOK, Of
<1>4. NoTransactionLeftOpen' /\ OpenedByRunning'
  BY <1>2 DEF NoTransactionLeftOpen, OpenedByRunning
<1>5. AsOnItsOwn'
  <2> SUFFICES ASSUME NEW u \in Threads, NEW n \in 1..started, <<u, n>> \notin mixed
               PROVE  Of(disk', u, n) = Of(kept', u, n)
    BY <1>2 DEF AsOnItsOwn
  <2>1. Of(disk, u, n) = Of(kept, u, n)
    BY DEF AsOnItsOwn
  <2>2. CASE u = t /\ n = op[t]
    <3>1. Of(pending, u, n) = mine[t]
      BY <1>1, <2>2 DEF OwnTransaction
    <3>2. QED
      BY <1>2, <2>1, <2>2, <3>1 DEF Of, TypeOK
  <2>3. CASE u # t \/ n # op[t]
    <3>1. Of(pending, u, n) = {}
      BY <1>1, <2>3 DEF NothingPending, Overlaps, TypeOK
    <3>2. \A r \in mine[t] : r[1] = t /\ r[2] = op[t]
      BY DEF TypeOK, Of
    <3>3. QED
      BY <1>2, <2>1, <2>3, <3>1, <3>2 DEF Of
  <2>4. QED
    BY <2>2, <2>3
<1>6. RowsOfStarted'
  BY <1>2 DEF RowsOfStarted, TypeOK, Of
<1>7. Overlaps'
  BY <1>2 DEF Overlaps, Idle
<1>8. SectionEnds'
  <2> SUFFICES ASSUME NEW u \in Threads PROVE SectionEnds!(u)'
    BY DEF SectionEnds
  <2>1. CASE u = t
    BY <1>2, <2>1 DEF TypeOK
  <2>2. CASE u # t
    <3>1. /\ within'[u] = within[u] /\ mine'[u] = mine[u] /\ pc'[u] = pc[u]
          /\ prog' = prog /\ Idle(u)' = Idle(u)
      BY <1>2, <2>2 DEF TypeOK, Idle
    <3>2. QED
      BY <3>1 DEF SectionEnds
  <2>3. QED
    BY <2>1, <2>2
<1>9. OwnTransaction' /\ NothingPending'
  BY <1>1, <1>2 DEF OwnTransaction, NothingPending, Overlaps, TypeOK, Idle, Of
<1>10. QED
  BY <1>3, <1>4, <1>5, <1>6, <1>7, <1>8, <1>9

LEMMA ReturnIInv ==
  ASSUME IInv, NEW t \in Threads, Return(t)
  PROVE  IInv'
<1> USE ConstantsAssumption DEF IInv, Return, database, history
<1>1. Len(<<>>) = 0 /\ Len(prog[t]) \in Nat
  BY AtFacts
<1>2. within[t] = 0 /\ (open = 1 => opener # t)
  BY <1>1 DEF SectionEnds, NoTransactionLeftOpen, TypeOK
<1>3. TypeOK'
  BY <1>1 DEF TypeOK, Of
<1>4. NoTransactionLeftOpen' /\ OpenedByRunning'
  BY <1>2 DEF NoTransactionLeftOpen, OpenedByRunning, Idle, TypeOK
<1>5. AsOnItsOwn' /\ RowsOfStarted'
  BY DEF AsOnItsOwn, RowsOfStarted, Of
<1>6. Overlaps' /\ OwnTransaction'
  BY <1>2 DEF Overlaps, OwnTransaction, Idle, TypeOK
<1>9. SectionEnds'
  <2> SUFFICES ASSUME NEW u \in Threads
               PROVE  SectionEnds!(u)'
    BY DEF SectionEnds
  <2>1. CASE u = t
    BY <1>2, <2>1 DEF SectionEnds
  <2>2. CASE u # t
    BY <2>2 DEF SectionEnds, Idle, TypeOK
  <2>3. QED
    BY <2>1, <2>2
<1>7. NothingPending'
  <2>1. <<t, op[t]>> \notin mixed => Of(pending, t, op[t]) = {}
    BY <1>2 DEF OwnTransaction, SectionEnds, TypeOK
  <2>2. QED
    BY <2>1 DEF NothingPending, Idle, TypeOK
<1>8. QED
  BY <1>3, <1>4, <1>5, <1>6, <1>7, <1>9

LEMMA CrashIInv == IInv /\ Crash => IInv'
<1> SUFFICES ASSUME IInv, Crash PROVE IInv'
  OBVIOUS
<1> USE ConstantsAssumption DEF IInv, Crash
<1>1. Len(<<>>) = 0
  OBVIOUS
<1>2. TypeOK'
  BY <1>1 DEF TypeOK, Of
<1>3. NoTransactionLeftOpen' /\ OpenedByRunning'
  BY DEF NoTransactionLeftOpen, OpenedByRunning
<1>4. AsOnItsOwn' /\ RowsOfStarted'
  BY DEF AsOnItsOwn, RowsOfStarted, Of
<1>5. Overlaps' /\ SectionEnds' /\ OwnTransaction' /\ NothingPending'
  BY DEF Overlaps, SectionEnds, OwnTransaction, NothingPending, Idle, Of
<1>6. QED
  BY <1>2, <1>3, <1>4, <1>5

LEMMA StutterIInv == IInv /\ UNCHANGED vars => IInv'
<1> SUFFICES ASSUME IInv, UNCHANGED vars PROVE IInv'
  OBVIOUS
<1> USE DEF IInv, vars, database, control, history
<1>1. TypeOK' /\ NoTransactionLeftOpen' /\ AsOnItsOwn'
  BY DEF TypeOK, NoTransactionLeftOpen, AsOnItsOwn, Idle
<1>2. Overlaps' /\ SectionEnds' /\ OpenedByRunning'
  BY DEF Overlaps, SectionEnds, OpenedByRunning, Idle
<1>3. OwnTransaction' /\ NothingPending' /\ RowsOfStarted'
  BY DEF OwnTransaction, NothingPending, RowsOfStarted, Idle
<1>4. QED
  BY <1>1, <1>2, <1>3

THEOREM InductiveInvariant == Spec => []IInv
<1>1. IInv /\ [Next]_vars => IInv'
  BY StartIInv, BeginIInv, WriteIInv, EndIInv, ReturnIInv, CrashIInv, StutterIInv
     DEF Next, ThreadStep
<1>2. QED
  BY InitIInv, <1>1, PTL DEF Spec

(* The types of SqlTx.                                                     *)
THEOREM TypeCorrect == Spec => []TypeOK
<1>1. IInv => TypeOK
  BY DEF IInv
<1>2. QED
  BY InductiveInvariant, <1>1, PTL

(* No operation of dc_receive_imf.c, dc_chat.c, dc_msg.c, dc_contact.c and *)
(* dc_job.c leaves the handle in a transaction, however many run at once.  *)
THEOREM TransactionsEnd == Spec => []NoTransactionLeftOpen
<1>1. IInv => NoTransactionLeftOpen
  BY DEF IInv
<1>2. QED
  BY InductiveInvariant, <1>1, PTL

(* An operation that overlaps no transaction of another thread is atomic   *)
(* and durable, and so are any number of operations without transaction.   *)
THEOREM AtomicWhenNotMixed == Spec => []AsOnItsOwn
<1>1. IInv => AsOnItsOwn
  BY DEF IInv
<1>2. QED
  BY InductiveInvariant, <1>1, PTL
=============================================================================
