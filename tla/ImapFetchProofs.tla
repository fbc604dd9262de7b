-------------------------- MODULE ImapFetchProofs --------------------------
(***************************************************************************)
(* Theorems about ImapFetch, for every set of messages and every number of *)
(* UIDs, UIDVALIDITYs, expunges and faults.                                *)
(***************************************************************************)
EXTENDS ImapFetch, TLAPS

LEMMA InitIInv == Init => IInv
<1> SUFFICES ASSUME Init PROVE IInv
  OBVIOUS
<1> USE ConstantsAssumption DEF Init
<1>1. TypeOK
  BY DEF TypeOK
<1>2. UidsInv
  BY <1>1 DEF UidsInv, Numbering, Present, TypeOK
<1>3. ConfigInv /\ ListInv /\ NothingSkipped
  BY <1>1 DEF ConfigInv, ListInv, NothingSkipped, TypeOK
<1>4. QED
  BY <1>1, <1>2, <1>3 DEF IInv

(* A message arrives or disappears.                                        *)
LEMMA FolderIInv ==
  ASSUME IInv, NEW m \in Msgs, Arrive(m) \/ Expunge(m)
  PROVE  IInv'
<1> USE ConstantsAssumption DEF IInv, TypeOK, folder, config, control, history, bounds,
        Present, Done, Received
<1>1. TypeOK'
  <2>1. CASE Arrive(m)
    BY <2>1 DEF Arrive
  <2>2. CASE Expunge(m)
    BY <2>2 DEF Expunge
  <2>3. QED
    BY <2>1, <2>2
<1>2. CASE Arrive(m)
  <2>1. UidsInv' /\ ConfigInv'
    BY <1>2 DEF Arrive, UidsInv, ConfigInv
  <2>2. NothingSkipped'
    BY <1>2 DEF Arrive, ConfigInv, NothingSkipped
  <2>3. ListInv'
    BY <1>2 DEF Arrive, ListInv
  <2>4. QED
    BY <1>1, <2>1, <2>2, <2>3
<1>3. CASE Expunge(m)
  BY <1>1, <1>3 DEF Expunge, UidsInv, ConfigInv, NothingSkipped, ListInv
<1>4. QED
  BY <1>2, <1>3

(* After a change of UIDVALIDITY the config entry is void.                 *)
LEMMA ChangeValidityIInv == ASSUME IInv, ChangeValidity PROVE IInv'
<1> USE ConstantsAssumption DEF IInv, ChangeValidity, folder, config, control, history, bounds
<1>1. PICK f \in [Msgs -> 0..MaxUid], next \in 1..(MaxUid + 1) :
        Numbering(Present, f, next) /\ uid' = f /\ nextUid' = next
  OBVIOUS
<1>2. TypeOK'
  BY <1>1 DEF TypeOK
<1>3. UidsInv'
  BY <1>1, <1>2 DEF UidsInv, Numbering, Present, TypeOK
<1>4. dbValidity' # validity' /\ dbValidity' <= validity' /\ stream' = 0
  BY DEF TypeOK, ConfigInv
<1>5. ConfigInv' /\ ListInv' /\ NothingSkipped'
  BY <1>4 DEF ConfigInv, ListInv, NothingSkipped
<1>6. QED
  BY <1>2, <1>3, <1>5

(* The connection, a crash, and the steps that end a fetch early.          *)
LEMMA ConnectionIInv ==
  ASSUME IInv,
         \/ \E s \in {0, 1} : StartFetch(s)
         \/ NoStream \/ SameValidity \/ EmptyFolder \/ LoseStream \/ Crash
  PROVE  IInv'
<1> USE ConstantsAssumption DEF IInv, TypeOK, folder, config, control, history, bounds,
        Present, Done, Received, StartFetch, NoStream, SameValidity, EmptyFolder, LoseStream, Crash
<1>1. TypeOK'
  <2>1. CASE \E s \in {0, 1} : StartFetch(s)
    BY <2>1
  <2>2. CASE NoStream \/ SameValidity \/ EmptyFolder
    BY <2>2
  <2>3. CASE LoseStream
    BY <2>3
  <2>4. CASE Crash
    BY <2>4
  <2>5. QED
    BY <2>1, <2>2, <2>3, <2>4
<1>2. UidsInv' /\ ConfigInv' /\ NothingSkipped'
  BY DEF UidsInv, ConfigInv, NothingSkipped
<1>3. ListInv'
  BY DEF ListInv
<1>4. QED
  BY <1>1, <1>2, <1>3

(* What is at or below the first lastseenuid was left out (LeftOut).       *)
LEMMA NewValidityIInv ==
  ASSUME IInv, NEW largest \in Uids, NewValidity(largest)
  PROVE  IInv'
<1> USE ConstantsAssumption DEF IInv, NewValidity, folder, config, control, history, bounds
<1>1. largest \in Nat /\ largest < nextUid /\ StartWith(largest) \in Nat
      /\ StartWith(largest) <= largest
  BY DEF TypeOK, Uids, Present, UidsInv, StartWith
<1>2. TypeOK'
  BY <1>1 DEF TypeOK, Present, LeftOut
<1>3. UidsInv' /\ ConfigInv'
  BY <1>1 DEF UidsInv, ConfigInv, Present, TypeOK
<1>4. ListInv'
  BY DEF ListInv
<1>5. NothingSkipped'
  <2>1. SUFFICES ASSUME NEW m \in Present, uid[m] <= StartWith(largest)
                 PROVE  m \in Done \cup old' \cup gaps'
    BY DEF NothingSkipped, Present, Done, Received
  <2>2. m \in Msgs /\ uid[m] \in Nat /\ uid[m] > 0 /\ uid[m] <= largest
    BY <1>1, <2>1 DEF TypeOK, Present
  <2>3. m \in LeftOut(largest)
    BY <1>1, <2>1, <2>2 DEF LeftOut, StartWith, TypeOK
  <2>4. QED
    BY <2>3
<1>6. QED
  BY <1>2, <1>3, <1>4, <1>5

(* The list holds everything above lastseenuid.                            *)
LEMMA ListIInv == ASSUME IInv, List PROVE IInv'
<1> USE ConstantsAssumption DEF IInv, List, folder, config, control, history, bounds
<1>1. todo' \subseteq Uids /\ Uids \subseteq Nat /\ \A u \in Uids : u < nextUid
  BY DEF TypeOK, Uids, Present, UidsInv
<1>2. TypeOK'
  BY <1>1 DEF TypeOK
<1>3. UidsInv' /\ ConfigInv' /\ NothingSkipped'
  BY DEF UidsInv, ConfigInv, NothingSkipped, Present, Done, Received
<1>4. ListInv'
  <2>1. SUFFICES ASSUME dbValidity = validity
                 PROVE  /\ newLast' < nextUid /\ \A u \in todo' : u < nextUid
                        /\ \A m \in Present : uid[m] > lastSeen => uid[m] \in todo'
    BY DEF ListInv, Present
  <2>2. nextUid > 0
    BY DEF TypeOK, UidsInv, ConfigInv
  <2>3. \A m \in Present : uid[m] \in Uids /\ uid[m] \in Nat
    BY DEF Uids, Present, TypeOK
  <2>4. QED
    BY <1>1, <2>2, <2>3 DEF TypeOK
<1>5. QED
  BY <1>2, <1>3, <1>4

(* What is taken from the list was read, is gone, or counts as an error.   *)
LEMMA ReadIInv ==
  ASSUME IInv, NEW u \in todo, ReadMsg(u) \/ ReadGone(u) \/ ReadFails(u)
  PROVE  IInv'
<1> USE ConstantsAssumption DEF IInv, Reading, AsRead, folder, config, control, history, bounds
<1>1. TypeOK' /\ UidsInv' /\ ConfigInv' /\ Done \subseteq Done'
  <2>1. CASE ReadMsg(u)
    BY <2>1 DEF ReadMsg, TypeOK, UidsInv, ConfigInv, Present, Done, Received
  <2>2. CASE ReadGone(u)
    BY <2>2 DEF ReadGone, TypeOK, UidsInv, ConfigInv, Present, Done, Received
  <2>3. CASE ReadFails(u)
    BY <2>3 DEF ReadFails, TypeOK, UidsInv, ConfigInv, Present, Done, Received
  <2>4. QED
    BY <2>1, <2>2, <2>3
<1>2. NothingSkipped'
  BY <1>1 DEF ReadMsg, ReadGone, ReadFails, NothingSkipped, Present
<1>3. ListInv'
  <2>1. CASE ReadMsg(u)
    <3>1. \A m \in Present : uid[m] = u => m \in Done'
      BY <2>1 DEF ReadMsg, TypeOK, UidsInv, Present, Done, Received
    <3>2. QED
      BY <1>1, <2>1, <3>1 DEF ReadMsg, ListInv, Present, TypeOK
  <2>2. CASE ReadGone(u)
    BY <1>1, <2>2 DEF ReadGone, ListInv, Present, Uids, TypeOK
  <2>3. CASE ReadFails(u)
    BY <1>1, <2>3 DEF ReadFails, ListInv, TypeOK
  <2>4. QED
    BY <2>1, <2>2, <2>3
<1>4. QED
  BY <1>1, <1>2, <1>3

(* The end of a list without errors: nothing below the new lastseenuid is  *)
(* left.                                                                   *)
LEMMA EndOfListIInv == ASSUME IInv, EndOfList PROVE IInv'
<1> USE ConstantsAssumption DEF IInv, EndOfList, folder, history, bounds
<1>1. TypeOK' /\ UidsInv' /\ ListInv'
  BY DEF TypeOK, UidsInv, ListInv, Present
<1>2. ConfigInv'
  BY DEF ConfigInv, ListInv, TypeOK
<1>3. NothingSkipped'
  BY DEF NothingSkipped, ListInv, TypeOK, Present, Done, Received
<1>4. QED
  BY <1>1, <1>2, <1>3

LEMMA StepIInv == IInv /\ [Next]_vars => IInv'
<1> SUFFICES ASSUME IInv, [Next]_vars PROVE IInv'
  OBVIOUS
<1>1. CASE FetchStep
  BY <1>1, ConnectionIInv, NewValidityIInv, ListIInv, ReadIInv, EndOfListIInv DEF FetchStep
<1>2. CASE \E m \in Msgs : Arrive(m) \/ Expunge(m)
  BY <1>2, FolderIInv
<1>3. CASE ChangeValidity \/ LoseStream \/ Crash
  BY <1>3, ChangeValidityIInv, ConnectionIInv
<1>4. CASE UNCHANGED vars
  BY <1>4 DEF vars, folder, config, control, history, bounds, IInv, TypeOK, UidsInv, ConfigInv,
     ListInv, NothingSkipped, Present, Done, Received
<1>5. QED
  BY <1>1, <1>2, <1>3, <1>4 DEF Next

(* The inductive invariant holds in every reachable state.                 *)
THEOREM SpecIInv == Spec => []IInv
BY InitIInv, StepIInv, PTL DEF Spec

(* Nothing at or below lastseenuid is left unread, but for what LeftOut()  *)
(* names: fetch_from_single_folder() does not advance past a message.      *)
THEOREM BelowLastSeenIsDone == Spec => []NothingSkipped
<1>1. IInv => NothingSkipped
  BY DEF IInv
<1>2. QED
  BY SpecIInv, <1>1, PTL

(* Every variable stays in its type.                                       *)
THEOREM TypeCorrect == Spec => []TypeOK
<1>1. IInv => TypeOK
  BY DEF IInv
<1>2. QED
  BY SpecIInv, <1>1, PTL

-----------------------------------------------------------------------------
(* Downloads are paid for by what goes wrong.                              *)
LEMMA OwedIs ==
  TypeOK => \A m \in Msgs :
    /\ Owed(m) \in 0..2
    /\ stream = 0 \/ dbValidity # validity => Owed(m) = 1
    /\ at # "read" => Owed(m) \in 0..1
    /\ stream = 1 /\ dbValidity = validity /\ uid[m] = 0 => Owed(m) = 0
    /\ stream = 1 /\ dbValidity = validity /\ uid[m] # 0 =>
          /\ StillListed(m) /\ WillBeListed(m) => Owed(m) = 2
          /\ StillListed(m) /\ ~WillBeListed(m) => Owed(m) = 1
          /\ ~StillListed(m) /\ WillBeListed(m) => Owed(m) = 1
          /\ ~StillListed(m) /\ ~WillBeListed(m) => Owed(m) = 0
BY DEF TypeOK, Owed, StillListed

LEMMA OwedIsNext ==
  TypeOK' => \A m \in Msgs :
    /\ Owed(m)' \in 0..2
    /\ stream' = 0 \/ dbValidity' # validity' => Owed(m)' = 1
    /\ at' # "read" => Owed(m)' \in 0..1
    /\ stream' = 1 /\ dbValidity' = validity' /\ uid'[m] = 0 => Owed(m)' = 0
    /\ stream' = 1 /\ dbValidity' = validity' /\ uid'[m] # 0 =>
          /\ StillListed(m)' /\ WillBeListed(m)' => Owed(m)' = 2
          /\ StillListed(m)' /\ ~WillBeListed(m)' => Owed(m)' = 1
          /\ ~StillListed(m)' /\ WillBeListed(m)' => Owed(m)' = 1
          /\ ~StillListed(m)' /\ ~WillBeListed(m)' => Owed(m)' = 0
BY DEF TypeOK, Owed, StillListed

(* Nothing goes wrong and nothing is read: it is enough that no message is *)
(* owed more than before.                                                  *)
LEMMA NothingOwedMore ==
  ASSUME TypeOK, TypeOK', DownloadsInv,
         UNCHANGED <<validity, faults, expunges, downloads>>,
         at' = "read" /\ stream' = 1 => errors' = 0,
         0 \notin todo',
         \A m \in Msgs : Owed(m)' <= Owed(m)
  PROVE  DownloadsInv'
<1>1. \A m \in Msgs : Owed(m) \in Nat /\ Owed(m)' \in Nat /\ downloads[m] \in Nat
  BY OwedIs, OwedIsNext DEF TypeOK
<1>2. \A m \in Msgs : downloads'[m] + Owed(m)' <= validity' + faults' + expunges'
  BY <1>1 DEF DownloadsInv, TypeOK
<1>3. QED
  BY <1>2 DEF DownloadsInv

(* Something goes wrong, and there is no stream afterwards.                *)
LEMMA OneMoreFault ==
  ASSUME TypeOK, TypeOK', DownloadsInv, stream' = 0, todo' \subseteq todo,
         UNCHANGED <<expunges, downloads>>,
         \/ validity' = validity + 1 /\ UNCHANGED faults
         \/ faults' = faults + 1 /\ UNCHANGED validity
  PROVE  DownloadsInv'
<1>1. \A m \in Msgs : Owed(m) \in Nat /\ Owed(m)' = 1 /\ downloads[m] \in Nat
  BY OwedIs, OwedIsNext DEF TypeOK
<1>2. \A m \in Msgs : downloads'[m] + Owed(m)' <= validity' + faults' + expunges'
  BY <1>1 DEF DownloadsInv, TypeOK
<1>3. QED
  BY <1>2 DEF DownloadsInv, TypeOK

(* What arrives was not downloaded yet, and is the last of the folder.     *)
LEMMA ArriveDownloads ==
  ASSUME IInv, IInv', DownloadsInv, NEW a \in Msgs, Arrive(a)
  PROVE  DownloadsInv'
<1> USE DEF folder, config, control, history, bounds
<1>a. TypeOK /\ TypeOK' /\ UidsInv /\ ConfigInv /\ ListInv
  BY DEF IInv
<1>1. /\ uid' = [uid EXCEPT ![a] = nextUid] /\ uid[a] = 0 /\ downloads[a] = 0 /\ nextUid > 0
      /\ UNCHANGED <<validity, faults, expunges, downloads, at, todo, newLast, lastSeen,
                     stream, dbValidity, errors>>
  BY <1>a DEF Arrive, Done, Received, UidsInv, TypeOK
<1>2. Marks' = Marks
  BY <1>1 DEF Marks
<1>3. ASSUME NEW m \in Msgs PROVE downloads'[m] + Owed(m)' <= validity' + faults' + expunges'
  <2>1. CASE stream = 0 \/ dbValidity # validity
    BY <2>1, <1>a, <1>1, OwedIs, OwedIsNext DEF DownloadsInv
  <2>2. CASE stream = 1 /\ dbValidity = validity /\ m # a
    <3>1. uid'[m] = uid[m] /\ StillListed(m)' = StillListed(m)
      BY <1>a, <1>1, <2>2 DEF TypeOK, StillListed
    <3>2. ~IsLargest(uid[m])'
      <4>1. uid'[a] = nextUid /\ a \in Present'
        BY <1>a, <1>1 DEF Present, TypeOK
      <4>2. nextUid \in Uids'
        BY <4>1 DEF Uids
      <4>3. uid'[m] < nextUid /\ uid'[m] \in Nat /\ nextUid \in Nat
        BY <1>a, <3>1 DEF UidsInv, TypeOK
      <4>4. QED
        BY <4>2, <4>3 DEF IsLargest
    <3>3. WillBeListed(m)' => WillBeListed(m)
      BY <1>2, <3>1, <3>2 DEF WillBeListed
    <3>4. Owed(m)' <= Owed(m)
      BY <1>1, <3>1, <3>3 DEF Owed
    <3>5. QED
      BY <1>a, <1>1, <3>4, OwedIs, OwedIsNext DEF DownloadsInv, TypeOK
  <2>3. CASE stream = 1 /\ dbValidity = validity /\ m = a
    <3>1. uid'[m] = nextUid /\ nextUid \in Nat
      BY <1>a, <1>1, <2>3 DEF TypeOK
    <3>2. ~StillListed(m)'
      BY <1>a, <1>1, <2>3, <3>1 DEF StillListed, ListInv, TypeOK
    <3>3. Owed(m)' <= 1
      BY <3>2 DEF Owed
    <3>4. QED
      BY <1>a, <1>1, <2>3, <3>3, OwedIsNext DEF DownloadsInv, TypeOK
  <2>4. QED
    BY <1>a, <2>1, <2>2, <2>3 DEF TypeOK
<1>4. QED
  BY <1>1, <1>3 DEF DownloadsInv

(* What disappears may make another message the last of the folder.        *)
LEMMA ExpungeDownloads ==
  ASSUME IInv, IInv', DownloadsInv, NEW a \in Msgs, Expunge(a)
  PROVE  DownloadsInv'
<1> USE DEF folder, config, control, history, bounds
<1>a. TypeOK /\ TypeOK'
  BY DEF IInv
<1>1. /\ uid' = [uid EXCEPT ![a] = 0] /\ expunges' = expunges + 1
      /\ UNCHANGED <<validity, faults, downloads, at, todo, newLast, lastSeen, stream,
                     dbValidity, errors>>
  BY DEF Expunge
<1>2. ASSUME NEW m \in Msgs PROVE Owed(m)' <= Owed(m) + 1
  <2>1. CASE stream = 0 \/ dbValidity # validity
    BY <2>1, <1>a, <1>1, OwedIs, OwedIsNext
  <2>2. CASE stream = 1 /\ dbValidity = validity /\ m # a
    <3>1. uid'[m] = uid[m] /\ StillListed(m)' = StillListed(m)
      BY <1>a, <1>1, <2>2 DEF TypeOK, StillListed
    <3>2. QED
      BY <1>1, <2>2, <3>1 DEF Owed
  <2>3. CASE stream = 1 /\ dbValidity = validity /\ m = a
    BY <1>a, <1>1, <2>3, OwedIs, OwedIsNext DEF TypeOK
  <2>4. QED
    BY <1>a, <2>1, <2>2, <2>3 DEF TypeOK
<1>3. \A m \in Msgs : downloads'[m] + Owed(m)' <= validity' + faults' + expunges'
  BY <1>a, <1>1, <1>2, OwedIs, OwedIsNext DEF DownloadsInv, TypeOK
<1>4. QED
  BY <1>1, <1>3 DEF DownloadsInv

(* The list has every message that is owed a listing, and its largest UID  *)
(* is that of a message in the folder.                                     *)
LEMMA ListDownloads ==
  ASSUME IInv, IInv', DownloadsInv, List
  PROVE  DownloadsInv'
<1> USE DEF folder, config, history, bounds
<1>a. TypeOK /\ TypeOK' /\ ConfigInv /\ dbValidity = validity
  BY DEF IInv, List, ConfigInv
<1>1. /\ at = "list" /\ at' = "read" /\ stream = 1 /\ newLast' = 0 /\ errors' = 0
      /\ todo' = {u \in Uids : u > lastSeen \/ IsLargest(u)} \ {lastSeen}
      /\ UNCHANGED <<uid, validity, faults, expunges, downloads, lastSeen, stream, dbValidity>>
  BY DEF List
<1>2. \A u \in Uids : u \in Nat /\ u > 0
  BY <1>a DEF Uids, Present, TypeOK
<1>3. ASSUME NEW m \in Msgs PROVE Owed(m)' <= Owed(m)
  <2>1. CASE uid[m] = 0
    BY <1>a, <1>1, <2>1, OwedIs, OwedIsNext
  <2>2. CASE uid[m] # 0
    <3>1. uid[m] \in Uids /\ uid[m] \in Nat /\ lastSeen \in Nat
      BY <1>a, <2>2 DEF Uids, Present, TypeOK
    <3>2. Marks = {lastSeen} /\ ~StillListed(m)
      BY <1>1 DEF Marks, StillListed
    <3>3. Owed(m) = IF uid[m] \in todo' THEN 1 ELSE 0
      BY <1>a, <1>1, <2>2, <3>1, <3>2, OwedIs DEF WillBeListed, IsLargest
    <3>4. CASE todo' = {}
      <4>1. Marks' = Marks /\ IsLargest(uid[m])' = IsLargest(uid[m])
        BY <1>1, <3>2, <3>4 DEF Marks, IsLargest, Uids, Present
      <4>2. WillBeListed(m)' = WillBeListed(m) /\ ~StillListed(m)'
        BY <1>1, <3>4, <4>1 DEF WillBeListed, StillListed
      <4>3. QED
        BY <1>a, <1>1, <2>2, <3>2, <4>2, OwedIs, OwedIsNext
    <3>5. CASE todo' # {}
      <4>1. Marks' = todo' \cup {0} /\ todo' \subseteq Uids
        BY <1>1, <3>5 DEF Marks
      <4>2. ~(\A u \in Marks' : u < uid[m])
        <5>1. CASE uid[m] \in todo'
          BY <4>1, <5>1, <3>1
        <5>2. CASE uid[m] \notin todo'
          <6>1. PICK u \in todo' : TRUE
            BY <3>5
          <6>2. uid[m] <= lastSeen /\ (IsLargest(u) \/ u > lastSeen)
            BY <1>1, <3>1, <5>2, <6>1
          <6>3. u >= uid[m]
            BY <1>2, <3>1, <4>1, <6>2 DEF IsLargest
          <6>4. QED
            BY <1>2, <3>1, <4>1, <6>3
        <5>3. QED
          BY <5>1, <5>2
      <4>3. IsLargest(uid[m])' => ~(\E u \in Marks' : u > uid[m])
        <5>1. IsLargest(uid[m])' => \A v \in Uids : v <= uid[m]
          BY <1>1 DEF IsLargest, Uids, Present
        <5>2. QED
          BY <1>2, <3>1, <4>1, <5>1
      <4>4. ~WillBeListed(m)'
        BY <1>1, <4>2, <4>3 DEF WillBeListed
      <4>5. StillListed(m)' <=> uid[m] \in todo'
        BY <1>1 DEF StillListed
      <4>6. Owed(m)' = IF uid[m] \in todo' THEN 1 ELSE 0
        BY <1>a, <1>1, <2>2, <4>4, <4>5, OwedIsNext
      <4>7. QED
        BY <3>3, <4>6
    <3>6. QED
      BY <3>4, <3>5
  <2>3. QED
    BY <2>1, <2>2
<1>4. 0 \notin todo'
  BY <1>1, <1>2
<1>5. QED
  BY <1>a, <1>1, <1>3, <1>4, NothingOwedMore

(* A number u that leaves the set S does not change how a number k lies to *)
(* it, if the larger one of u and n stays.                                 *)
LEMMA LargerStays ==
  ASSUME NEW S \in SUBSET Nat, NEW u \in S, NEW n \in Nat, NEW k \in Nat,
         NEW larger \in {u, n}, u <= larger, n <= larger
  PROVE  /\ (\A v \in (S \ {u}) \cup {larger} : v < k) <=> (\A v \in S \cup {n} : v < k)
         /\ (\E v \in (S \ {u}) \cup {larger} : v > k) <=> (\E v \in S \cup {n} : v > k)
<1>1. \A v \in S \cup {n} : v \in Nat /\ \E w \in (S \ {u}) \cup {larger} : w \in Nat /\ v <= w
  <2> TAKE v \in S \cup {n}
  <2>1. CASE v \in S \ {u}
    BY <2>1
  <2>2. CASE v \in {u, n}
    BY <2>2
  <2>3. QED
    BY <2>1, <2>2
<1>2. (S \ {u}) \cup {larger} \subseteq S \cup {n}
  OBVIOUS
<1>3. ASSUME \A v \in (S \ {u}) \cup {larger} : v < k, NEW v \in S \cup {n} PROVE v < k
  <2>1. PICK w \in (S \ {u}) \cup {larger} : w \in Nat /\ v <= w
    BY <1>1
  <2>2. QED
    BY <1>1, <1>3, <2>1
<1>4. ASSUME NEW v \in S \cup {n}, v > k PROVE \E w \in (S \ {u}) \cup {larger} : w > k
  <2>1. PICK w \in (S \ {u}) \cup {larger} : w \in Nat /\ v <= w
    BY <1>1
  <2>2. QED
    BY <1>1, <1>4, <2>1
<1>5. QED
  BY <1>2, <1>3, <1>4

(* A message that is read leaves the list; the largest UID of the list     *)
(* stays known.                                                            *)
LEMMA ReadDownloads ==
  ASSUME IInv, IInv', DownloadsInv, NEW u \in todo, ReadMsg(u) \/ ReadGone(u) \/ ReadFails(u)
  PROVE  DownloadsInv'
<1> USE DEF folder, config, bounds
<1>a. TypeOK /\ TypeOK' /\ UidsInv /\ ConfigInv
  BY DEF IInv
<1>1. /\ at = "read" /\ at' = "read" /\ todo' = todo \ {u}
      /\ UNCHANGED <<uid, validity, faults, expunges, lastSeen, stream, dbValidity>>
  BY DEF ReadMsg, ReadGone, ReadFails, Reading
<1>2. CASE ReadFails(u)
  <2>1. stream = 0 /\ UNCHANGED downloads
    BY <1>2 DEF ReadFails
  <2>2. 0 \notin todo' /\ \A m \in Msgs : Owed(m)' <= Owed(m)
    BY <1>a, <1>1, <2>1, OwedIs, OwedIsNext DEF DownloadsInv
  <2>3. QED
    BY <1>a, <1>1, <2>1, <2>2, NothingOwedMore
<1>3. CASE ReadMsg(u) \/ ReadGone(u)
  <2>1. /\ stream = 1 /\ dbValidity = validity /\ errors' = errors
        /\ newLast' = IF u > newLast THEN u ELSE newLast
    BY <1>3, <1>1, <1>a DEF ReadMsg, ReadGone, AsRead, ConfigInv
  <2>2. u \in Nat /\ newLast \in Nat /\ todo \subseteq Nat
    BY <1>a DEF TypeOK
  <2>3. Marks = todo \cup {newLast}
    BY <1>1 DEF Marks
  <2>4. Marks' = todo' \cup {newLast'} \/ (newLast' = 0 /\ u = 0 /\ newLast = 0)
    BY <1>1, <2>1, <2>2 DEF Marks
  <2>5. ASSUME NEW m \in Msgs, uid[m] # 0, u # 0
        PROVE  WillBeListed(m)' = WillBeListed(m)
    <3>1. uid[m] \in Nat /\ IsLargest(uid[m])' = IsLargest(uid[m])
      BY <1>a, <1>1 DEF TypeOK, IsLargest, Uids, Present
    <3>2. Marks' = (todo \ {u}) \cup {IF u > newLast THEN u ELSE newLast}
      BY <1>1, <2>1, <2>4, <2>5
    <3>3. /\ (\A v \in Marks' : v < uid[m]) <=> (\A v \in Marks : v < uid[m])
          /\ (\E v \in Marks' : v > uid[m]) <=> (\E v \in Marks : v > uid[m])
      <4> DEFINE larger == IF u > newLast THEN u ELSE newLast
      <4>1. larger \in {u, newLast} /\ u <= larger /\ newLast <= larger
        BY <2>2
      <4>2. Marks' = (todo \ {u}) \cup {larger}
        BY <3>2
      <4>3. todo \in SUBSET Nat
        BY <2>2
      <4> HIDE DEF larger
      <4>4. /\ (\A v \in (todo \ {u}) \cup {larger} : v < uid[m])
                  <=> (\A v \in todo \cup {newLast} : v < uid[m])
            /\ (\E v \in (todo \ {u}) \cup {larger} : v > uid[m])
                  <=> (\E v \in todo \cup {newLast} : v > uid[m])
        BY <2>2, <3>1, <4>1, <4>3, LargerStays
      <4>5. QED
        BY <2>3, <4>2, <4>4, Zenon
    <3>4. QED
      BY <1>1, <3>1, <3>3 DEF WillBeListed
  <2>6. ASSUME NEW m \in Msgs
        PROVE  downloads'[m] + Owed(m)' <= downloads[m] + Owed(m)
    <3>1. CASE uid[m] # 0 /\ uid[m] = u
      <4>1. StillListed(m) /\ ~StillListed(m)' /\ WillBeListed(m)' = WillBeListed(m)
        BY <1>1, <2>5, <3>1 DEF StillListed
      <4>2. Owed(m) = Owed(m)' + 1
        BY <1>a, <1>1, <2>1, <3>1, <4>1, OwedIs, OwedIsNext
      <4>3. downloads'[m] <= downloads[m] + 1 /\ downloads'[m] \in Nat /\ downloads[m] \in Nat
        BY <1>a, <1>3 DEF ReadMsg, ReadGone, TypeOK
      <4>4. QED
        BY <1>a, <4>2, <4>3, OwedIsNext
    <3>2. CASE uid[m] # 0 /\ uid[m] # u
      <4>1. downloads'[m] = downloads[m]
        BY <1>a, <1>3, <3>2 DEF ReadMsg, ReadGone, TypeOK
      <4>2. u # 0 => WillBeListed(m)' = WillBeListed(m)
        BY <2>5, <3>2
      <4>3. StillListed(m)' = StillListed(m)
        BY <1>1, <3>2 DEF StillListed
      <4>4. u # 0
        BY DEF DownloadsInv
      <4>5. QED
        BY <1>a, <1>1, <2>1, <3>2, <4>1, <4>2, <4>3, <4>4, OwedIs, OwedIsNext DEF TypeOK
    <3>3. CASE uid[m] = 0
      <4>1. Owed(m) = 0 /\ Owed(m)' = 0
        BY <1>a, <1>1, <2>1, <3>3, OwedIs, OwedIsNext
      <4>2. u # 0
        BY DEF DownloadsInv
      <4>3. downloads'[m] = downloads[m]
        BY <1>a, <1>3, <3>3, <4>2 DEF ReadMsg, ReadGone, TypeOK
      <4>4. QED
        BY <1>a, <4>1, <4>3 DEF TypeOK
    <3>4. QED
      BY <3>1, <3>2, <3>3
  <2>7. \A m \in Msgs : downloads'[m] + Owed(m)' <= validity' + faults' + expunges'
    BY <1>a, <1>1, <2>6, OwedIs, OwedIsNext DEF DownloadsInv, TypeOK
  <2>8. QED
    BY <1>1, <2>1, <2>7 DEF DownloadsInv
<1>4. QED
  BY <1>2, <1>3

(* Between two lists: the thread moves on, or nothing happens at all.  A   *)
(* stream that is opened does not bring back what it cost to lose it.      *)
LEMMA MoveOnDownloads ==
  ASSUME IInv, IInv', DownloadsInv, at # "read", at' # "read",
         stream' = stream \/ stream = 0,
         UNCHANGED <<folder, config, todo, newLast, downloads, bounds>>
  PROVE  DownloadsInv'
<1> USE DEF folder, config, bounds
<1>a. TypeOK /\ TypeOK'
  BY DEF IInv
<1>1. UNCHANGED <<uid, nextUid, validity, dbValidity, lastSeen, expunges, faults>>
  OBVIOUS
<1>2. ASSUME NEW m \in Msgs PROVE Owed(m)' <= Owed(m)
  <2>1. CASE stream = 0 \/ dbValidity # validity
    BY <1>a, <2>1, OwedIs, OwedIsNext
  <2>2. CASE stream = 1 /\ dbValidity = validity
    <3>1. Marks' = Marks /\ StillListed(m)' = StillListed(m)
      BY <1>1 DEF Marks, StillListed
    <3>2. WillBeListed(m)' = WillBeListed(m)
      BY <1>1, <3>1 DEF WillBeListed, IsLargest, Uids, Present
    <3>3. Owed(m)' = Owed(m)
      BY <1>1, <2>2, <3>1, <3>2 DEF Owed
    <3>4. QED
      BY <1>a, <3>3, OwedIs
  <2>3. QED
    BY <1>a, <2>1, <2>2 DEF TypeOK
<1>3. 0 \notin todo'
  BY DEF DownloadsInv
<1>4. QED
  BY <1>a, <1>1, <1>2, <1>3, NothingOwedMore

(* lastseenuid of a new UIDVALIDITY: at most one listing is owed, and one  *)
(* was before.                                                             *)
LEMMA NewValidityDownloads ==
  ASSUME IInv, IInv', DownloadsInv, NEW largest \in Uids, NewValidity(largest)
  PROVE  DownloadsInv'
<1> USE DEF folder, bounds
<1>a. TypeOK /\ TypeOK'
  BY DEF IInv
<1>1. /\ dbValidity # validity /\ at' = "list"
      /\ UNCHANGED <<validity, faults, expunges, downloads, todo>>
  BY DEF NewValidity
<1>2. \A m \in Msgs : Owed(m)' <= Owed(m)
  BY <1>a, <1>1, OwedIs, OwedIsNext
<1>3. 0 \notin todo'
  BY <1>1 DEF DownloadsInv
<1>4. QED
  BY <1>a, <1>1, <1>2, <1>3, NothingOwedMore

(* The end of a list: the largest of Marks becomes lastseenuid.            *)
LEMMA EndOfListDownloads ==
  ASSUME IInv, IInv', DownloadsInv, EndOfList
  PROVE  DownloadsInv'
<1> USE DEF folder, history, bounds
<1>a. TypeOK /\ TypeOK'
  BY DEF IInv
<1>1. /\ at = "read" /\ at' # "read" /\ todo = {} /\ todo' = {}
      /\ lastSeen' = IF errors = 0 /\ newLast > 0 THEN newLast ELSE lastSeen
      /\ UNCHANGED <<uid, validity, dbValidity, stream, newLast, faults, expunges, downloads>>
  BY DEF EndOfList
<1>2. ASSUME NEW m \in Msgs PROVE Owed(m)' <= Owed(m)
  <2>1. CASE stream = 0 \/ dbValidity # validity
    BY <1>a, <1>1, <2>1, OwedIs, OwedIsNext
  <2>2. CASE stream = 1 /\ dbValidity = validity
    <3>1. errors = 0
      BY <1>1, <2>2 DEF DownloadsInv
    <3>2. Marks' = Marks
      BY <1>a, <1>1, <3>1 DEF Marks, TypeOK
    <3>3. WillBeListed(m)' = WillBeListed(m)
      BY <1>1, <3>2 DEF WillBeListed, IsLargest, Uids, Present
    <3>4. ~StillListed(m) /\ ~StillListed(m)'
      BY <1>1 DEF StillListed
    <3>5. Owed(m)' = Owed(m)
      BY <1>1, <2>2, <3>3, <3>4 DEF Owed
    <3>6. QED
      BY <1>a, <3>5, OwedIs
  <2>3. QED
    BY <1>a, <2>1, <2>2 DEF TypeOK
<1>3. QED
  BY <1>a, <1>1, <1>2, NothingOwedMore

LEMMA InitDownloads == Init => DownloadsInv
<1> SUFFICES ASSUME Init PROVE DownloadsInv
  OBVIOUS
<1>1. TypeOK
  BY InitIInv DEF IInv
<1>2. \A m \in Msgs : Owed(m) = 1
  BY <1>1, OwedIs DEF Init
<1>3. QED
  BY <1>2 DEF Init, DownloadsInv

LEMMA NextDownloads == IInv /\ IInv' /\ DownloadsInv /\ [Next]_vars => DownloadsInv'
<1> SUFFICES ASSUME IInv, IInv', DownloadsInv, [Next]_vars PROVE DownloadsInv'
  OBVIOUS
<1> USE DEF folder, config, control, history, bounds
<1>a. TypeOK /\ TypeOK'
  BY DEF IInv
<1>1. ASSUME NEW s \in {0, 1}, StartFetch(s) PROVE DownloadsInv'
  BY <1>1, <1>a, MoveOnDownloads DEF StartFetch, TypeOK
<1>2. CASE NoStream \/ SameValidity \/ EmptyFolder
  BY <1>2, MoveOnDownloads DEF NoStream, SameValidity, EmptyFolder
<1>3. CASE ChangeValidity
  <2>1. stream' = 0 /\ validity' = validity + 1 /\ UNCHANGED <<faults, expunges, downloads, todo>>
    BY <1>3 DEF ChangeValidity
  <2>2. QED
    BY <1>a, <2>1, OneMoreFault
<1>4. CASE LoseStream \/ Crash
  <2>1. /\ stream' = 0 /\ faults' = faults + 1 /\ UNCHANGED <<validity, expunges, downloads>>
        /\ todo' \subseteq todo
    BY <1>4 DEF LoseStream, Crash
  <2>2. QED
    BY <1>a, <2>1, OneMoreFault
<1>5. CASE UNCHANGED vars
  <2>1. DownloadsInv <=> DownloadsInv'
    BY <1>5 DEF vars, DownloadsInv, Owed, StillListed, WillBeListed, Marks, IsLargest, Uids, Present
  <2>2. QED
    BY <2>1
<1>6. QED
  BY <1>1, <1>2, <1>3, <1>4, <1>5, NewValidityDownloads, ListDownloads, ReadDownloads,
     EndOfListDownloads, ArriveDownloads, ExpungeDownloads
  DEF Next, FetchStep

(* However often the stream breaks, the process crashes, the folder is     *)
(* renumbered and its last message is expunged: a message is downloaded    *)
(* at most once for each of these events, the first UIDVALIDITY included   *)
(* (dc_imap.c: fetch_from_single_folder(), set_config_lastseenuid()).      *)
THEOREM ReadAgainOnlyForAReason == Spec => []ReadAgainForAReason
<1>1. Spec => []DownloadsInv
  BY SpecIInv, InitDownloads, NextDownloads, PTL DEF Spec
<1>2. IInv /\ DownloadsInv => ReadAgainForAReason
  <2> SUFFICES ASSUME IInv, DownloadsInv, NEW m \in Msgs
               PROVE  downloads[m] <= validity + faults + expunges
    BY DEF ReadAgainForAReason
  <2>1. TypeOK
    BY DEF IInv
  <2>2. QED
    BY <2>1, OwedIs DEF DownloadsInv, TypeOK
<1>3. QED
  BY SpecIInv, <1>1, <1>2, PTL
=============================================================================
