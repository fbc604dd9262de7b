--------------------------- MODULE SecureJoinProofs ---------------------------
(***************************************************************************)
(* Theorems about SecureJoin, for any number of inviters, calls and        *)
(* troubles.                                                               *)
(***************************************************************************)
EXTENDS SecureJoin, TLAPS

LEMMA MailFields ==
  ASSUME NEW m \in Mail
  PROVE  /\ m.with \in Inviters /\ m.key \in {"qr", "new"}
         /\ m.kind \in FromBob \cup ToBob
         /\ m.kind \in ToBob => m \in [kind : ToBob, with : Inviters, key : {"qr", "new"}]
BY DEF Mail, FromBob, ToBob

LEMMA NewMail ==
  ASSUME NEW a \in Inviters, NEW k \in {"qr", "new"}
  PROVE  /\ \A s \in FromBob : [kind |-> s, with |-> a, key |-> "qr"] \in Mail
         /\ \A s \in ToBob : [kind |-> s, with |-> a, key |-> k] \in Mail
BY DEF Mail

LEMMA HandFields ==
  ASSUME TypeOK, hand.step \in {"act", "file"}
  PROVE  /\ hand.mail \in Mail /\ hand.scan \in Inviters \cup {NoOne} /\ hand.signed \in {0, 1}
         /\ hand \in [step : {"act", "file"}, mail : Mail, scan : Inviters \cup {NoOne}, signed : {0, 1}]
BY DEF TypeOK, NoMail

LEMMA Filed ==
  ASSUME TypeOK, hand.step = "act", File
  PROVE  /\ hand' \in [step : {"act", "file"}, mail : Mail, scan : Inviters \cup {NoOne}, signed : {0, 1}]
         /\ hand'.step = "file"
BY HandFields DEF File

(* A step of a call changes the count of mails in SendFirst only, and      *)
(* neither the hand nor the inviters.                                      *)
LEMMA CallTypeOK ==
  ASSUME TypeOK, NEW u \in Users, CallStep(u) \/ Offline(u)
  PROVE  TypeOK'
<1> USE ConstantsAssumption
<1>1. mails' \in [Mail -> Nat]
  <2>1. CASE SendFirst(u)
    BY <2>1, NewMail DEF TypeOK, SendFirst, Put, FromBob
  <2>2. CASE ~SendFirst(u)
    BY <2>2 DEF TypeOK, CallStep, AllocTest, AllocSet, CheckQr, Online, SetScan, Wait,
                Cleanup, Result, Unscan, FreeOngoing, Offline
  <2>3. QED
    BY <2>1, <2>2
<1>2. UNCHANGED <<peers, inviter, others, disturbed, joins, qr>> /\ troubles' \in Nat
  BY DEF TypeOK, CallStep, AllocTest, AllocSet, CheckQr, Online, SetScan, SendFirst, Wait,
         Cleanup, Result, Unscan, FreeOngoing, Offline, Trouble, history, bounds
<1>3. /\ at' \in [Users -> Place] /\ allocated' \in [Users -> {0, 1}]
      /\ chat' \in [Users -> {0, 1}] /\ asked' \in [Users -> {0, 1}]
      /\ result' \in [Users -> {0, 1}]
  BY DEF TypeOK, CallStep, AllocTest, AllocSet, CheckQr, Online, SetScan, SendFirst, Wait,
         Cleanup, Result, Unscan, FreeOngoing, Offline, Go, Place
<1>4. /\ running' \in {0, 1} /\ shallStop' \in {0, 1}
      /\ expects' \in {"no", "auth", "confirm"} /\ status' \in {0, 1}
      /\ scan' \in Users \cup {NoOne} /\ scanned' \subseteq Inviters
  BY DEF TypeOK, CallStep, AllocTest, AllocSet, CheckQr, Online, SetScan, SendFirst, Wait,
         Cleanup, Result, Unscan, FreeOngoing, Offline, ongoing, joiner, history
<1>5. QED
  BY <1>1, <1>2, <1>3, <1>4 DEF TypeOK, peers, inviter

LEMMA JoinTypeOK ==
  ASSUME TypeOK, NEW u \in Users, NEW a \in Inviters, Join(u, a)
  PROVE  TypeOK'
<1>1. /\ at' \in [Users -> Place] /\ qr' \in [Users -> Inviters]
      /\ asked' \in [Users -> {0, 1}] /\ result' \in [Users -> {0, 1}]
  BY DEF TypeOK, Join, Go, Place
<1>2. disturbed' \in [Users -> {0, 1}] /\ joins' \in Nat
  BY DEF TypeOK, Join
<1>3. QED
  BY <1>1, <1>2 DEF TypeOK, Join, ongoing, joiner, peers, inviter

LEMMA HandTypeOK == TypeOK /\ HandStep => TypeOK'
<1> SUFFICES ASSUME TypeOK, HandStep PROVE TypeOK'
  OBVIOUS
<1> USE DEF calls, ongoing, joiner, history, bounds, inviter
<1>1. CASE NotSigned
  BY <1>1, Filed DEF TypeOK, NotSigned, EndJoining, StopFlag
<1>2. CASE AuthRequired
  <2>1. mails' \in [Mail -> Nat]
    <3>1. hand.mail.with \in Inviters
      BY <1>2, HandFields, MailFields DEF AuthRequired
    <3>2. [kind |-> "with-auth", with |-> hand.mail.with, key |-> "qr"] \in Mail
      BY <3>1, NewMail DEF FromBob
    <3>3. QED
      BY <1>2, <3>2 DEF TypeOK, AuthRequired, Put
  <2>2. QED
    BY <1>2, <2>1, Filed DEF TypeOK, AuthRequired
<1>3. CASE OtherAdded
  BY <1>3, Filed DEF TypeOK, OtherAdded
<1>4. CASE Confirm
  BY <1>4, Filed DEF TypeOK, Confirm, EndJoining, StopFlag
<1>5. CASE FileMail
  BY <1>5 DEF TypeOK, FileMail
<1>6. QED
  BY <1>1, <1>2, <1>3, <1>4, <1>5 DEF HandStep

LEMMA MailTypeOK ==
  ASSUME TypeOK, NEW m \in Mail,
         Receive(m) \/ AnswerRequest(m) \/ AnswerWithAuth(m) \/ Lose(m)
  PROVE  TypeOK'
<1> USE MailFields DEF calls, ongoing, joiner, peers, inviter, history, bounds
<1>1. CASE Receive(m)
  <2>1. mails' \in [Mail -> Nat] /\ peerKey' \in [Inviters -> {"none", "qr", "new"}]
    BY <1>1 DEF TypeOK, Receive
  <2>2. scan # NoOne => qr[scan] \in Inviters
    BY DEF TypeOK
  <2>3. hand' \in [step : {"act", "file"}, mail : Mail, scan : Inviters \cup {NoOne}, signed : {0, 1}]
    BY <1>1, <2>2 DEF Receive, InSync
  <2>4. QED
    BY <1>1, <2>1, <2>3 DEF TypeOK, Receive
<1>2. CASE AnswerRequest(m)
  <2>1. [kind |-> "auth-required", with |-> m.with, key |-> key[m.with]] \in Mail
    BY NewMail DEF TypeOK, ToBob
  <2>2. QED
    BY <1>2, <2>1 DEF TypeOK, AnswerRequest
<1>3. CASE AnswerWithAuth(m)
  <2>1. [kind |-> "confirm", with |-> m.with, key |-> key[m.with]] \in Mail
    BY NewMail DEF TypeOK, ToBob
  <2>2. QED
    BY <1>3, <2>1 DEF TypeOK, AnswerWithAuth
<1>4. CASE Lose(m)
  BY <1>4 DEF TypeOK, Lose, Trouble, Disturb
<1>5. QED
  BY <1>1, <1>2, <1>3, <1>4

LEMMA OtherTypeOK ==
  ASSUME TypeOK, StopOngoing \/ NotMarked \/ \E a \in Inviters : NewKey(a) \/ AddOther(a)
  PROVE  TypeOK'
<1> USE DEF calls, ongoing, joiner, peers, inviter, history, bounds, Trouble, Disturb
<1>1. CASE StopOngoing
  BY <1>1 DEF TypeOK, StopOngoing, StopFlag
<1>5. CASE NotMarked
  BY <1>5, Filed DEF TypeOK, NotMarked
<1>2. ASSUME NEW a \in Inviters, NewKey(a) PROVE TypeOK'
  BY <1>2 DEF TypeOK, NewKey
<1>3. ASSUME NEW a \in Inviters, AddOther(a) PROVE TypeOK'
  <2>1. [kind |-> "other-added", with |-> a, key |-> key[a]] \in Mail
    BY NewMail DEF TypeOK, ToBob
  <2>2. QED
    BY <1>3, <2>1 DEF TypeOK, AddOther, Put
<1>4. QED
  BY <1>1, <1>2, <1>3, <1>5

LEMMA TypeStep == TypeOK /\ [Next]_vars => TypeOK'
<1>1. ASSUME TypeOK, UNCHANGED vars PROVE TypeOK'
  BY <1>1 DEF TypeOK, vars, calls, ongoing, joiner, peers, inviter, history, bounds
<1>2. QED
  BY <1>1, CallTypeOK, JoinTypeOK, HandTypeOK, MailTypeOK, OtherTypeOK DEF Next

-----------------------------------------------------------------------------
(* The process and the scanned code: only calls and the stop flag matter.  *)
LEMMA OngoingStep ==
  ASSUME TypeOK, NothingLeftBehind, RunsForACall, [Next]_vars
  PROVE  NothingLeftBehind' /\ RunsForACall'
<1> USE ConstantsAssumption
<1>1. ASSUME UNCHANGED <<at, allocated, running, scan>>, shallStop' = shallStop \/ (running = 1 /\ shallStop' = 1)
      PROVE  NothingLeftBehind' /\ RunsForACall'
  BY <1>1 DEF NothingLeftBehind, RunsForACall, TypeOK
<1>2. ASSUME NEW u \in Users, CallStep(u) \/ Offline(u) \/ \E a \in Inviters : Join(u, a)
      PROVE  NothingLeftBehind' /\ RunsForACall'
  <2>1. RunsForACall'
    <3>1. \A v \in Users : allocated'[v] = 1 => at'[v] \notin {"idle", "test", "set"}
      BY <1>2 DEF RunsForACall, TypeOK, CallStep, AllocTest, AllocSet, CheckQr, Online, SetScan,
             SendFirst, Wait, Cleanup, Result, Unscan, FreeOngoing, Offline, Join, Go
    <3>2. (running' = 1 => \E v \in Users : allocated'[v] = 1) /\ (shallStop' = 0 => running' = 1)
      BY <1>2 DEF RunsForACall, TypeOK, CallStep, AllocTest, AllocSet, CheckQr, Online, SetScan,
             SendFirst, Wait, Cleanup, Result, Unscan, FreeOngoing, Offline, Join, Go, ongoing
    <3>3. QED
      BY <3>1, <3>2 DEF RunsForACall
  <2>2. scan' # NoOne => at'[scan'] \in {"send", "wait", "cleanup", "result", "unscan"}
    BY <1>2 DEF NothingLeftBehind, TypeOK, CallStep, AllocTest, AllocSet, CheckQr, Online, SetScan,
           SendFirst, Wait, Cleanup, Result, Unscan, FreeOngoing, Offline, Join, Go, joiner
  <2>3. TypeOK'
    BY <1>2, CallTypeOK, JoinTypeOK
  <2>4. QED
    BY <2>1, <2>2, <2>3 DEF NothingLeftBehind, RunsForACall, TypeOK
<1>3. CASE StopOngoing \/ HandStep \/ NotMarked
  BY <1>1, <1>3 DEF StopOngoing, StopFlag, HandStep, NotMarked, NotSigned, AuthRequired, OtherAdded, Confirm,
        FileMail, EndJoining, calls, ongoing, joiner, TypeOK
<1>4. ASSUME NEW m \in Mail, Receive(m) \/ AnswerRequest(m) \/ AnswerWithAuth(m) \/ Lose(m)
      PROVE  NothingLeftBehind' /\ RunsForACall'
  BY <1>1, <1>4 DEF Receive, AnswerRequest, AnswerWithAuth, Lose, calls, ongoing, joiner
<1>5. ASSUME NEW a \in Inviters, NewKey(a) \/ AddOther(a)
      PROVE  NothingLeftBehind' /\ RunsForACall'
  BY <1>1, <1>5 DEF NewKey, AddOther, calls, ongoing, joiner
<1>6. CASE UNCHANGED vars
  BY <1>1, <1>6 DEF vars, calls, ongoing, joiner
<1>7. QED
  BY <1>2, <1>3, <1>4, <1>5, <1>6 DEF Next

-----------------------------------------------------------------------------
(* What the mails tell, and what is verified by them.                      *)
Told == VerifiedBothWays /\ MailsTell

LEMMA CallTold ==
  ASSUME TypeOK, NothingLeftBehind, Told, NEW u \in Users,
         CallStep(u) \/ Offline(u) \/ \E a \in Inviters : Join(u, a)
  PROVE  Told'
<1> USE ConstantsAssumption DEF Told
<1>1. /\ UNCHANGED <<verified, hand, bobVerified, others>>
      /\ scanned \subseteq scanned'
  BY DEF CallStep, AllocTest, AllocSet, CheckQr, Online, SetScan, SendFirst, Wait, Cleanup,
         Result, Unscan, FreeOngoing, Offline, Join, peers, inviter, history
<1>2. scan' # NoOne => qr'[scan'] \in scanned'
  BY DEF MailsTell, NothingLeftBehind, TypeOK, CallStep, AllocTest, AllocSet, CheckQr, Online,
         SetScan, SendFirst, Wait, Cleanup, Result, Unscan, FreeOngoing, Offline, Join,
         joiner, history
<1>3. \A m \in Mail : m.kind \in {"confirm", "other-added"} => mails'[m] = mails[m]
  <2>1. CASE SendFirst(u)
    BY <2>1 DEF SendFirst, Put, TypeOK
  <2>2. CASE ~SendFirst(u)
    BY <2>2 DEF CallStep, AllocTest, AllocSet, CheckQr, Online, SetScan, Wait, Cleanup,
           Result, Unscan, FreeOngoing, Offline, Join
  <2>3. QED
    BY <2>1, <2>2
<1>4. QED
  BY <1>1, <1>2, <1>3 DEF VerifiedBothWays, MailsTell

LEMMA HandTold == TypeOK /\ Told /\ HandStep => Told'
<1> SUFFICES ASSUME TypeOK, Told, HandStep PROVE Told'
  OBVIOUS
<1> USE DEF Told, calls, ongoing, joiner, inviter, history
<1>1. UNCHANGED <<qr, scan, bobVerified, scanned, others>> /\ hand'.step # "act"
  BY Filed DEF HandStep, NotSigned, AuthRequired, OtherAdded, Confirm, FileMail, NoMail
<1>2. \A m \in Mail : m.kind \in {"confirm", "other-added"} => mails'[m] = mails[m]
  BY DEF HandStep, NotSigned, AuthRequired, OtherAdded, Confirm, FileMail, Put, TypeOK
<1>3. MailsTell'
  BY <1>1, <1>2 DEF MailsTell
<1>4. VerifiedBothWays'
  <2>1. CASE OtherAdded \/ Confirm
    BY <1>1, <2>1 DEF VerifiedBothWays, MailsTell, OtherAdded, Confirm, TypeOK
  <2>2. CASE NotSigned \/ AuthRequired \/ FileMail
    BY <1>1, <2>2 DEF VerifiedBothWays, NotSigned, AuthRequired, FileMail
  <2>3. QED
    BY <2>1, <2>2 DEF HandStep
<1>5. QED
  BY <1>3, <1>4

LEMMA MailTold ==
  ASSUME TypeOK, Told, NEW m \in Mail,
         Receive(m) \/ AnswerRequest(m) \/ AnswerWithAuth(m) \/ Lose(m)
  PROVE  Told'
<1> USE ConstantsAssumption, MailFields DEF Told, calls, joiner, inviter, history
<1>1. CASE Receive(m)
  <2>1. UNCHANGED <<qr, scan, verified, bobVerified, scanned, others>>
    BY <1>1 DEF Receive
  <2>2. \A n \in Mail : mails'[n] > 0 => mails[n] > 0
    BY <1>1 DEF Receive, TypeOK
  <2>3. hand'.step = "act" /\ hand'.signed = 1 =>
          scan # NoOne /\ hand'.scan = qr[scan] /\ hand'.scan = m.with /\ hand'.mail = m
    BY <1>1 DEF Receive, InSync
  <2>4. QED
    BY <1>1, <2>1, <2>2, <2>3 DEF VerifiedBothWays, MailsTell, Receive
<1>2. CASE AnswerRequest(m)
  <2>1. \A n \in Mail : n.kind \in {"confirm", "other-added"} => mails'[n] = mails[n]
    BY <1>2 DEF AnswerRequest, TypeOK
  <2>2. QED
    BY <1>2, <2>1 DEF VerifiedBothWays, MailsTell, AnswerRequest, peers
<1>3. CASE AnswerWithAuth(m)
  <2>1. \A n \in Mail : mails'[n] > 0 =>
           mails[n] > 0 \/ (n.kind = "confirm" /\ n.with = m.with)
    BY <1>3 DEF AnswerWithAuth, TypeOK
  <2>2. bobVerified'[m.with] = 1 /\ \A a \in Inviters : bobVerified[a] = 1 => bobVerified'[a] = 1
    BY <1>3 DEF AnswerWithAuth, TypeOK
  <2>3. UNCHANGED <<qr, scan, verified, scanned, others, hand>>
    BY <1>3 DEF AnswerWithAuth, peers
  <2>4. VerifiedBothWays'
    BY <2>2, <2>3 DEF VerifiedBothWays
  <2>5. MailsTell'
    BY <2>1, <2>2, <2>3, HandFields DEF MailsTell
  <2>6. QED
    BY <2>4, <2>5
<1>4. CASE Lose(m)
  <2>1. \A n \in Mail : mails'[n] > 0 => mails[n] > 0
    BY <1>4 DEF Lose, TypeOK
  <2>2. QED
    BY <1>4, <2>1 DEF VerifiedBothWays, MailsTell, Lose, peers
<1>5. QED
  BY <1>1, <1>2, <1>3, <1>4

LEMMA OtherTold ==
  ASSUME TypeOK, Told, StopOngoing \/ NotMarked \/ \E a \in Inviters : NewKey(a) \/ AddOther(a)
  PROVE  Told'
<1> USE DEF Told, calls, joiner, peers, inviter, history
<1>1. CASE StopOngoing \/ NotMarked
  BY <1>1, Filed DEF VerifiedBothWays, MailsTell, StopOngoing, NotMarked
<1>2. ASSUME NEW a \in Inviters, NewKey(a) PROVE Told'
  BY <1>2 DEF VerifiedBothWays, MailsTell, NewKey
<1>3. ASSUME NEW a \in Inviters, AddOther(a) PROVE Told'
  <2>1. \A n \in Mail : mails'[n] > 0 =>
           mails[n] > 0 \/ (n.kind = "other-added" /\ n.with = a)
    BY <1>3 DEF AddOther, Put, TypeOK
  <2>2. QED
    BY <1>3, <2>1 DEF VerifiedBothWays, MailsTell, AddOther
<1>4. QED
  BY <1>1, <1>2, <1>3

-----------------------------------------------------------------------------
(* A call that nothing came in between.                                    *)
Kept == JoinedIsVerified /\ UndisturbedIsAlone

(* What no call and no success has a part in.                              *)
LEMMA AsideKept ==
  ASSUME TypeOK, TypeOK', Kept,
         UNCHANGED <<at, qr, asked, result, scan>>,
         \A v \in Users : disturbed'[v] = 0 => disturbed[v] = 0,
         hand'.step = "act" => hand' = hand,
         status' = 1 => status = 1,
         \A a \in Inviters : verified[a] = 1 => verified'[a] = 1
  PROVE  Kept'
<1> USE DEF Kept
<1>1. \A v \in Users : qr[v] \in Inviters
  BY DEF TypeOK
<1>2. JoinedIsVerified'
  BY <1>1 DEF JoinedIsVerified
<1>3. UndisturbedIsAlone'
  BY <1>1 DEF UndisturbedIsAlone
<1>4. QED
  BY <1>2, <1>3

LEMMA DisturbIs ==
  TypeOK /\ Disturb => \A v \in Users : disturbed'[v] = 0 => disturbed[v] = 0
BY DEF TypeOK, Disturb

(* An undisturbed call finds nobody at work.                               *)
LEMMA JoinKept ==
  ASSUME TypeOK, TypeOK', NothingLeftBehind, Kept,
         NEW u \in Users, NEW a \in Inviters, Join(u, a)
  PROVE  Kept'
<1> USE ConstantsAssumption DEF Kept, joiner, peers
<1>1. /\ at' = [at EXCEPT ![u] = "test"] /\ at[u] = "idle" /\ qr' = [qr EXCEPT ![u] = a]
      /\ asked' = [asked EXCEPT ![u] = 0] /\ result' = [result EXCEPT ![u] = 0]
      /\ UNCHANGED <<scan, status, hand, verified>>
  BY DEF Join, Go
<1>2. /\ \A v \in Users \ {u} : disturbed'[v] = 0 => at[v] = "idle" /\ disturbed[v] = 0
      /\ disturbed'[u] = 0 => hand = NoMail /\ \A v \in Users \ {u} : at[v] = "idle"
  BY DEF Join, Busy, TypeOK
<1>3. JoinedIsVerified'
  BY <1>1, <1>2 DEF JoinedIsVerified, TypeOK
<1>4. ASSUME NEW v \in Users, at'[v] # "idle", disturbed'[v] = 0
      PROVE  /\ v = u /\ \A w \in Users \ {v} : at'[w] = "idle"
             /\ result'[v] = 0 /\ scan' = NoOne /\ asked'[v] = 0 /\ hand'.step # "act"
  <2>1. v = u /\ hand' = NoMail
    BY <1>1, <1>2, <1>4 DEF TypeOK
  <2>2. \A w \in Users \ {v} : at[w] = "idle" /\ at'[w] = "idle"
    BY <1>1, <1>2, <1>4, <2>1 DEF TypeOK
  <2>3. scan = NoOne
    BY <1>1, <2>1, <2>2 DEF NothingLeftBehind, TypeOK
  <2>4. QED
    BY <1>1, <2>1, <2>2, <2>3 DEF NoMail, TypeOK
<1>5. UndisturbedIsAlone'
  BY <1>4 DEF UndisturbedIsAlone
<1>6. QED
  BY <1>3, <1>5

(* The steps of a call disturb no other: there is none.                    *)
LEMMA CallKept ==
  ASSUME TypeOK, TypeOK', Kept, NEW u \in Users, CallStep(u) \/ Offline(u)
  PROVE  Kept'
<1> USE ConstantsAssumption DEF Kept, joiner, peers, history
<1>1. /\ UNCHANGED <<qr, hand, verified, disturbed>> /\ at[u] # "idle"
      /\ \A v \in Users \ {u} : UNCHANGED <<at[v], asked[v], result[v]>>
  BY DEF TypeOK, CallStep, AllocTest, AllocSet, CheckQr, Online, SetScan, SendFirst, Wait,
         Cleanup, Result, Unscan, FreeOngoing, Offline, Go
<1>2. \/ at[u] = "scan" /\ scan' = u /\ asked'[u] = 1 /\ status' = 0 /\ UNCHANGED result
      \/ UNCHANGED <<asked, result, status>> /\ scan' \in {scan, NoOne}
      \/ /\ at'[u] = "unscan" /\ UNCHANGED <<asked, scan, status>>
         /\ result'[u] = 1 => status = 1
  BY DEF TypeOK, CallStep, AllocTest, AllocSet, CheckQr, Online, SetScan, SendFirst, Wait,
         Cleanup, Result, Unscan, FreeOngoing, Offline, Go
<1>3. at[u] \in {"unscan", "free"} => at'[u] \in {"free", "idle"}
  BY DEF TypeOK, CallStep, AllocTest, AllocSet, CheckQr, Online, SetScan, SendFirst, Wait,
         Cleanup, Result, Unscan, FreeOngoing, Offline, Go
<1>4. disturbed[u] = 0 =>
        /\ at[u] \notin {"unscan", "free"} => result[u] = 0
        /\ \A v \in Users \ {u} : at[v] = "idle" /\ at'[v] = "idle"
        /\ scan \in {NoOne, u}
        /\ asked[u] = 0 => scan = NoOne /\ hand.step # "act"
        /\ hand.step = "act" => hand.scan = qr[u]
        /\ asked[u] = 1 /\ status = 1 => verified[qr[u]] = 1
  BY <1>1 DEF UndisturbedIsAlone
<1>5. JoinedIsVerified'
  <2>1. ASSUME NEW v \in Users, v # u, result'[v] = 1, asked'[v] = 1, disturbed'[v] = 0
        PROVE  verified'[qr'[v]] = 1
    BY <1>1, <2>1 DEF JoinedIsVerified
  <2>2. ASSUME result'[u] = 1, asked'[u] = 1, disturbed'[u] = 0
        PROVE  verified'[qr'[u]] = 1
    <3>1. CASE UNCHANGED result /\ UNCHANGED asked
      BY <1>1, <2>2, <3>1 DEF JoinedIsVerified
    <3>2. CASE UNCHANGED <<asked, status>> /\ status = 1
      BY <1>1, <1>4, <2>2, <3>2
    <3>3. CASE at[u] = "scan" /\ UNCHANGED result
      BY <1>1, <1>4, <2>2, <3>3
    <3>4. QED
      BY <1>2, <2>2, <3>1, <3>2, <3>3
  <2>3. QED
    BY <2>1, <2>2 DEF JoinedIsVerified
<1>6. ASSUME NEW v \in Users, at'[v] # "idle", disturbed'[v] = 0
      PROVE  /\ \A w \in Users \ {v} : at'[w] = "idle"
             /\ at'[v] \notin {"unscan", "free"} => result'[v] = 0
             /\ scan' \in {NoOne, v}
             /\ asked'[v] = 0 => scan' = NoOne /\ hand'.step # "act"
             /\ hand'.step = "act" => hand'.scan = qr'[v]
             /\ asked'[v] = 1 /\ status' = 1 => verified'[qr'[v]] = 1
  <2>1. v = u
    BY <1>1, <1>6 DEF UndisturbedIsAlone
  <2>2. QED
    BY <1>1, <1>2, <1>3, <1>4, <1>6, <2>1 DEF TypeOK
<1>7. QED
  BY <1>5, <1>6 DEF UndisturbedIsAlone

(* The mail in the hand of the IMAP thread was asked for by the only call. *)
LEMMA HandKept == TypeOK /\ TypeOK' /\ Kept /\ HandStep => Kept'
<1> SUFFICES ASSUME TypeOK, TypeOK', Kept, HandStep PROVE Kept'
  OBVIOUS
<1> USE DEF calls, joiner, history
<1>1. UNCHANGED <<at, qr, asked, result, scan, disturbed>> /\ hand'.step # "act"
  BY Filed DEF HandStep, NotSigned, AuthRequired, OtherAdded, Confirm, FileMail, NoMail
<1>2. \A a \in Inviters : verified[a] = 1 => verified'[a] = 1
  BY DEF TypeOK, HandStep, NotSigned, AuthRequired, OtherAdded, Confirm, FileMail
<1>3. CASE Confirm
  <2>1. hand.step = "act" /\ verified' = [verified EXCEPT ![hand.scan] = 1]
    BY <1>3 DEF Confirm
  <2>2. JoinedIsVerified'
    BY <1>1, <1>2 DEF Kept, JoinedIsVerified, TypeOK
  <2>3. ASSUME NEW v \in Users, at[v] # "idle", disturbed[v] = 0
        PROVE  verified'[qr[v]] = 1
    <3>1. hand.scan = qr[v] /\ qr[v] \in Inviters
      BY <2>1, <2>3 DEF Kept, UndisturbedIsAlone, TypeOK
    <3>2. QED
      BY <2>1, <3>1 DEF TypeOK
  <2>4. UndisturbedIsAlone'
    BY <1>1, <2>3 DEF Kept, UndisturbedIsAlone
  <2>5. QED
    BY <2>2, <2>4 DEF Kept
<1>4. CASE ~Confirm
  <2>1. status' = 1 => status = 1
    BY <1>4 DEF HandStep, NotSigned, AuthRequired, OtherAdded, FileMail, EndJoining
  <2>2. QED
    BY <1>1, <1>2, <2>1, AsideKept
<1>5. QED
  BY <1>3, <1>4

LEMMA MailKept ==
  ASSUME TypeOK, TypeOK', Kept, NEW m \in Mail,
         Receive(m) \/ AnswerRequest(m) \/ AnswerWithAuth(m) \/ Lose(m)
  PROVE  Kept'
<1> USE DEF calls, joiner, peers, history
<1>1. CASE Receive(m)
  <2>1. /\ UNCHANGED <<at, qr, asked, result, scan, disturbed, status, verified>>
        /\ hand'.step = "act" => scan # NoOne /\ hand'.scan = qr[scan]
    BY <1>1 DEF Receive, InSync
  <2>2. JoinedIsVerified'
    BY <2>1 DEF Kept, JoinedIsVerified
  <2>3. UndisturbedIsAlone'
    BY <2>1 DEF Kept, UndisturbedIsAlone
  <2>4. QED
    BY <2>2, <2>3 DEF Kept
<1>2. CASE AnswerRequest(m) \/ AnswerWithAuth(m)
  BY <1>2, AsideKept DEF AnswerRequest, AnswerWithAuth
<1>3. CASE Lose(m)
  BY <1>3, AsideKept, DisturbIs DEF Lose
<1>4. QED
  BY <1>1, <1>2, <1>3

LEMMA OtherKept ==
  ASSUME TypeOK, TypeOK', Kept, StopOngoing \/ NotMarked \/ \E a \in Inviters : NewKey(a) \/ AddOther(a)
  PROVE  Kept'
BY AsideKept, DisturbIs, Filed DEF StopOngoing, NotMarked, NewKey, AddOther, calls, joiner, peers

-----------------------------------------------------------------------------
(* The code is scanned before the inviter hears of Bob.                    *)
LEMMA CallScanned ==
  ASSUME TypeOK, ScannedFirst, NEW u \in Users,
         CallStep(u) \/ Offline(u) \/ \E a \in Inviters : Join(u, a)
  PROVE  ScannedFirst'
<1>1. UNCHANGED <<hand, bobVerified>> /\ scanned \subseteq scanned'
  BY DEF CallStep, AllocTest, AllocSet, CheckQr, Online, SetScan, SendFirst, Wait, Cleanup,
         Result, Unscan, FreeOngoing, Offline, Join, peers, inviter, history
<1>2. \A v \in Users : at'[v] = "send" => qr'[v] \in scanned'
  BY DEF ScannedFirst, TypeOK, CallStep, AllocTest, AllocSet, CheckQr, Online, SetScan,
         SendFirst, Wait, Cleanup, Result, Unscan, FreeOngoing, Offline, Join, Go, history
<1>3. \A m \in Mail : m.kind = "with-auth" /\ mails'[m] > 0 =>
         mails[m] > 0 \/ m.with \in scanned
  <2>1. CASE SendFirst(u)
    BY <2>1 DEF SendFirst, Put, TypeOK, ScannedFirst
  <2>2. CASE ~SendFirst(u)
    BY <2>2 DEF CallStep, AllocTest, AllocSet, CheckQr, Online, SetScan, Wait, Cleanup,
           Result, Unscan, FreeOngoing, Offline, Join
  <2>3. QED
    BY <2>1, <2>2
<1>4. QED
  BY <1>1, <1>2, <1>3 DEF ScannedFirst

LEMMA HandScanned == TypeOK /\ MailsTell /\ ScannedFirst /\ HandStep => ScannedFirst'
<1> SUFFICES ASSUME TypeOK, MailsTell, ScannedFirst, HandStep PROVE ScannedFirst'
  OBVIOUS
<1> USE DEF calls, ongoing, joiner, inviter, history
<1>1. UNCHANGED <<at, qr, bobVerified, scanned>>
  BY DEF HandStep, NotSigned, AuthRequired, OtherAdded, Confirm, FileMail
<1>2. hand'.mail = hand.mail \/ hand'.mail.kind = "none"
  <2>1. CASE FileMail
    BY <2>1 DEF FileMail, NoMail
  <2>2. CASE ~FileMail
    <3>1. hand.step = "act" /\ File
      BY <2>2 DEF HandStep, NotSigned, AuthRequired, OtherAdded, Confirm
    <3>2. QED
      BY <3>1, HandFields DEF File
  <2>3. QED
    BY <2>1, <2>2
<1>3. \A m \in Mail : m.kind = "with-auth" /\ mails'[m] > 0 =>
         mails[m] > 0 \/ m.with \in scanned
  <2>1. CASE AuthRequired
    BY <2>1 DEF AuthRequired, Put, TypeOK, MailsTell
  <2>2. CASE ~AuthRequired
    BY <2>2 DEF HandStep, NotSigned, OtherAdded, Confirm, FileMail
  <2>3. QED
    BY <2>1, <2>2
<1>4. QED
  BY <1>1, <1>2, <1>3 DEF ScannedFirst

LEMMA MailScanned ==
  ASSUME TypeOK, MailsTell, ScannedFirst, NEW m \in Mail,
         Receive(m) \/ AnswerRequest(m) \/ AnswerWithAuth(m) \/ Lose(m)
  PROVE  ScannedFirst'
<1> USE MailFields DEF calls, history
<1>1. UNCHANGED <<at, qr, scanned>>
  BY DEF Receive, AnswerRequest, AnswerWithAuth, Lose
<1>2. \A n \in Mail : n.kind = "with-auth" /\ mails'[n] > 0 => mails[n] > 0
  BY DEF Receive, AnswerRequest, AnswerWithAuth, Lose, TypeOK
<1>3. \A a \in Inviters : bobVerified'[a] = 1 => bobVerified[a] = 1 \/ a \in scanned
  BY DEF Receive, AnswerRequest, AnswerWithAuth, Lose, inviter, TypeOK, ScannedFirst
<1>4. \A a \in Inviters : bobVerified[a] = 1 => bobVerified'[a] = 1
  BY DEF Receive, AnswerRequest, AnswerWithAuth, Lose, inviter, TypeOK
<1>5. hand'.mail.kind = "confirm" => bobVerified'[hand'.mail.with] = 1
  <2>1. CASE Receive(m)
    BY <2>1 DEF Receive, MailsTell, inviter
  <2>2. CASE ~Receive(m)
    <3>1. hand' = hand /\ (hand.mail.kind = "confirm" => hand.mail.with \in Inviters)
      BY <2>2, HandFields DEF AnswerRequest, AnswerWithAuth, Lose, peers, TypeOK, NoMail
    <3>2. QED
      BY <1>4, <3>1 DEF ScannedFirst
  <2>3. QED
    BY <2>1, <2>2
<1>6. QED
  BY <1>1, <1>2, <1>3, <1>5 DEF ScannedFirst

LEMMA OtherScanned ==
  ASSUME TypeOK, ScannedFirst, StopOngoing \/ NotMarked \/ \E a \in Inviters : NewKey(a) \/ AddOther(a)
  PROVE  ScannedFirst'
<1>1. UNCHANGED <<at, qr, scanned, bobVerified>> /\ hand'.mail = hand.mail
  <2>1. CASE NotMarked
    BY <2>1, HandFields DEF NotMarked, File, calls, inviter
  <2>2. CASE ~NotMarked
    BY <2>2 DEF StopOngoing, NewKey, AddOther, calls, peers, inviter
  <2>3. QED
    BY <2>1, <2>2
<1>2. \A m \in Mail : m.kind = "with-auth" => mails'[m] = mails[m]
  <2>1. ASSUME NEW a \in Inviters, AddOther(a), NEW m \in Mail, m.kind = "with-auth"
        PROVE  mails'[m] = mails[m]
    BY <2>1 DEF AddOther, Put, TypeOK
  <2>2. CASE StopOngoing \/ NotMarked \/ \E a \in Inviters : NewKey(a)
    BY <2>2 DEF StopOngoing, NotMarked, NewKey
  <2>3. QED
    BY <2>1, <2>2
<1>3. QED
  BY <1>1, <1>2 DEF ScannedFirst

-----------------------------------------------------------------------------
LEMMA InitIInv == Init => IInv
<1> SUFFICES ASSUME Init PROVE IInv
  OBVIOUS
<1> USE ConstantsAssumption DEF Init
<1>1. TypeOK
  BY DEF TypeOK, Place
<1>2. VerifiedBothWays /\ NothingLeftBehind /\ RunsForACall
  BY DEF VerifiedBothWays, NothingLeftBehind, RunsForACall
<1>3. MailsTell /\ JoinedIsVerified /\ UndisturbedIsAlone /\ ScannedFirst
  BY DEF MailsTell, NoMail, JoinedIsVerified, UndisturbedIsAlone, ScannedFirst
<1>4. QED
  BY <1>1, <1>2, <1>3 DEF IInv

THEOREM InductiveInvariant == Spec => []IInv
<1>1. IInv /\ [Next]_vars => IInv'
  <2> SUFFICES ASSUME IInv, [Next]_vars PROVE IInv'
    OBVIOUS
  <2>1. TypeOK' /\ NothingLeftBehind' /\ RunsForACall'
    BY TypeStep, OngoingStep DEF IInv
  <2>2. ASSUME UNCHANGED vars PROVE Told'
    BY <2>2 DEF IInv, Told, VerifiedBothWays, MailsTell, vars, calls, joiner, peers, inviter, history
  <2>3. Told'
    BY <2>2, CallTold, HandTold, MailTold, OtherTold DEF IInv, Told, Next
  <2>4. ASSUME UNCHANGED vars PROVE Kept'
    BY <2>1, <2>4, AsideKept DEF IInv, Kept, vars, calls, joiner, peers, history
  <2>5. Kept'
    BY <2>1, <2>4, CallKept, JoinKept, HandKept, MailKept, OtherKept DEF IInv, Kept, Next
  <2>6. ASSUME UNCHANGED vars PROVE ScannedFirst'
    BY <2>6 DEF IInv, ScannedFirst, vars, calls, peers, inviter, history
  <2>7. ScannedFirst'
    BY <2>6, CallScanned, HandScanned, MailScanned, OtherScanned DEF IInv, Next
  <2>8. QED
    BY <2>1, <2>3, <2>5, <2>7 DEF IInv, Told, Kept
<1>2. QED
  BY InitIInv, <1>1, PTL DEF Spec

(* The types of SecureJoin.                                                *)
THEOREM TypeCorrect == Spec => []TypeOK
<1>1. IInv => TypeOK
  BY DEF IInv
<1>2. QED
  BY InductiveInvariant, <1>1, PTL

(* Whatever is lost, overtaken, stopped or called at once: the mails of    *)
(* dc_handle_securejoin_handshake() verify Bob at the inviter before the   *)
(* inviter at Bob.                                                         *)
THEOREM BothSidesVerify == Spec => []VerifiedBothWays
<1>1. IInv => VerifiedBothWays
  BY DEF IInv
<1>2. QED
  BY InductiveInvariant, <1>1, PTL

(* With no other call, stop, change of keys, lost or old mail in between,  *)
(* dc_join_securejoin() returns a chat only if the inviter is verified:    *)
(* bobs_status can be set by its own handshake only.                       *)
THEOREM JoinIsVerified == Spec => []JoinedIsVerified
<1>1. IInv => JoinedIsVerified
  BY DEF IInv
<1>2. QED
  BY InductiveInvariant, <1>1, PTL

(* bobs_qr_scan never points to a freed object, and calls that are over    *)
(* leave the ongoing process free, though dc_alloc_ongoing() takes no lock.*)
THEOREM ProcessIsReleased == Spec => []NothingLeftBehind
<1>1. IInv => NothingLeftBehind
  BY DEF IInv
<1>2. QED
  BY InductiveInvariant, <1>1, PTL

-----------------------------------------------------------------------------
(* The refinement of Handshake.                                            *)
LEMMA NothingPromised ==
  ASSUME UNCHANGED <<scanned, others, bobVerified, verified, groupChat>>
  PROVE  UNCHANGED Promise!vars
BY DEF Promise!vars

LEMMA CallPromise ==
  ASSUME IInv, NEW u \in Users, CallStep(u) \/ Offline(u) \/ \E a \in Inviters : Join(u, a)
  PROVE  [Promise!Next]_(Promise!vars)
<1>1. CASE SetScan(u)
  <2>1. qr[u] \in Inviters
    BY DEF IInv, TypeOK
  <2>2. Promise!Scan(qr[u])
    BY <1>1 DEF SetScan, Promise!Scan, peers, inviter
  <2>3. QED
    BY <2>1, <2>2 DEF Promise!Next
<1>2. CASE ~SetScan(u)
  BY <1>2, NothingPromised DEF CallStep, AllocTest, AllocSet, CheckQr, Online, SendFirst, Wait,
     Cleanup, Result, Unscan, FreeOngoing, Offline, Join, peers, inviter, history
<1>3. QED
  BY <1>1, <1>2

(* Bob verifies whom he has scanned, and has the group of a verified       *)
(* inviter that knows him.                                                 *)
LEMMA HandPromise ==
  ASSUME IInv, HandStep
  PROVE  [Promise!Next]_(Promise!vars)
<1> USE DEF IInv, history, inviter
<1>1. CASE NotSigned \/ AuthRequired
  BY <1>1, NothingPromised DEF NotSigned, AuthRequired
<1>2. CASE OtherAdded \/ Confirm
  <2>1. /\ hand.step = "act" /\ hand.signed = 1 /\ hand.mail.kind \in {"other-added", "confirm"}
        /\ verified' = [verified EXCEPT ![hand.scan] = 1]
        /\ UNCHANGED <<scanned, others, bobVerified, groupChat>>
    BY <1>2 DEF OtherAdded, Confirm
  <2>2. PICK a \in Inviters : a = hand.scan
    BY <2>1 DEF MailsTell, TypeOK
  <2>3. a \in scanned /\ (bobVerified[a] = 1 \/ a \in others)
    BY <2>1, <2>2 DEF MailsTell
  <2>4. {b \in Inviters : verified[b] = 1}' = {b \in Inviters : verified[b] = 1} \cup {a}
    BY <2>1, <2>2 DEF TypeOK
  <2>5. Promise!BobVerifies(a)
    BY <2>1, <2>3, <2>4 DEF Promise!BobVerifies
  <2>6. QED
    BY <2>5 DEF Promise!Next
<1>3. CASE FileMail
  <2>1. /\ hand.step = "file" /\ UNCHANGED <<scanned, others, bobVerified, verified>>
        /\ groupChat' = [groupChat EXCEPT ![hand.mail.with] =
              IF hand.mail.kind = "confirm" /\ hand.mail.with \in Groups
                 /\ verified[hand.mail.with] = 1 THEN 1 ELSE @]
    BY <1>3 DEF FileMail
  <2>2. PICK a \in Inviters : a = hand.mail.with
    BY <2>1, HandFields, MailFields
  <2>3. CASE hand.mail.kind = "confirm" /\ a \in Groups /\ verified[a] = 1
    <3>1. bobVerified[a] = 1
      BY <2>2, <2>3 DEF ScannedFirst
    <3>2. {b \in Inviters : groupChat[b] = 1}' = {b \in Inviters : groupChat[b] = 1} \cup {a}
      BY <2>1, <2>2, <2>3 DEF TypeOK
    <3>3. Promise!JoinGroup(a)
      BY <2>1, <2>3, <3>1, <3>2 DEF Promise!JoinGroup
    <3>4. QED
      BY <3>3 DEF Promise!Next
  <2>4. CASE ~(hand.mail.kind = "confirm" /\ a \in Groups /\ verified[a] = 1)
    <3>1. UNCHANGED groupChat
      BY <2>1, <2>2, <2>4 DEF TypeOK
    <3>2. QED
      BY <2>1, <3>1, NothingPromised
  <2>5. QED
    BY <2>3, <2>4
<1>4. QED
  BY <1>1, <1>2, <1>3 DEF HandStep

LEMMA MailPromise ==
  ASSUME IInv, NEW m \in Mail,
         Receive(m) \/ AnswerRequest(m) \/ AnswerWithAuth(m) \/ Lose(m)
  PROVE  [Promise!Next]_(Promise!vars)
<1> USE DEF IInv, peers, inviter, history
<1>1. CASE AnswerWithAuth(m)
  <2>1. /\ bobVerified' = [bobVerified EXCEPT ![m.with] = 1]
        /\ UNCHANGED <<scanned, others, verified, groupChat>>
    BY <1>1 DEF AnswerWithAuth
  <2>2. m.with \in Inviters /\ m.with \in scanned
    BY <1>1, MailFields DEF AnswerWithAuth, ScannedFirst
  <2>3. {b \in Inviters : bobVerified[b] = 1}' = {b \in Inviters : bobVerified[b] = 1} \cup {m.with}
    BY <2>1, <2>2 DEF TypeOK
  <2>4. Promise!InviterVerifies(m.with)
    BY <2>1, <2>2, <2>3 DEF Promise!InviterVerifies
  <2>5. QED
    BY <2>2, <2>4 DEF Promise!Next
<1>2. CASE Receive(m) \/ AnswerRequest(m) \/ Lose(m)
  BY <1>2, NothingPromised DEF Receive, AnswerRequest, Lose
<1>3. QED
  BY <1>1, <1>2

LEMMA OtherPromise ==
  ASSUME IInv, StopOngoing \/ NotMarked \/ \E a \in Inviters : NewKey(a) \/ AddOther(a)
  PROVE  [Promise!Next]_(Promise!vars)
<1> USE DEF peers, inviter
<1>1. ASSUME NEW a \in Inviters, AddOther(a) PROVE [Promise!Next]_(Promise!vars)
  <2>1. Promise!AddOther(a)
    BY <1>1 DEF AddOther, Promise!AddOther
  <2>2. QED
    BY <2>1 DEF Promise!Next
<1>2. CASE StopOngoing \/ NotMarked \/ \E a \in Inviters : NewKey(a)
  BY <1>2, NothingPromised DEF StopOngoing, NotMarked, NewKey
<1>3. QED
  BY <1>1, <1>2

(* The calls, mails and threads of dc_securejoin.c verify in the order of  *)
(* the handshake, and nothing is taken back.                               *)
THEOREM Implements == Spec => ImplementsHandshake
<1>1. Init => Promise!Init
  BY DEF Init, Promise!Init
<1>2. IInv /\ [Next]_vars => [Promise!Next]_(Promise!vars)
  <2> SUFFICES ASSUME IInv, [Next]_vars PROVE [Promise!Next]_(Promise!vars)
    OBVIOUS
  <2>1. CASE UNCHANGED vars
    BY <2>1, NothingPromised DEF vars, peers, inviter, history
  <2>2. QED
    BY <2>1, CallPromise, HandPromise, MailPromise, OtherPromise DEF Next
<1>3. QED
  BY InductiveInvariant, <1>1, <1>2, PTL DEF Spec, ImplementsHandshake, Promise!Spec
=============================================================================
