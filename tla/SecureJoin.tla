------------------------------ MODULE SecureJoin ------------------------------
(***************************************************************************)
(* Secure join (src/src/dc_securejoin.c) with the flags of the ongoing     *)
(* process (src/src/dc_configure.c).  Bob scans the QR code of an inviter; *)
(* dc_join_securejoin() runs in a thread of the user and waits, while the  *)
(* IMAP thread handles the mails of the handshake and ends the waiting.    *)
(* The two communicate by the fields bob_expects, bobs_status,             *)
(* bobs_qr_scan, ongoing_running and shall_stop_ongoing of the context;    *)
(* only bobs_qr_scan is behind a mutex.                                    *)
(*                                                                         *)
(* The mails take any time and may get lost or be overtaken.  An inviter   *)
(* may change to another key; the key of the QR code still decrypts then,  *)
(* but no longer signs.  What a token says is left out: dc_token_exists()  *)
(* returns 1 for every token.                                              *)
(***************************************************************************)
EXTENDS Naturals, FiniteSets

CONSTANTS
    Inviters,      \* those whose QR code Bob scans
    Groups,        \* the inviters whose QR code is for a verified group
    Users,         \* the threads dc_join_securejoin() is called from
    NoOne,         \* no user
    MaxJoins,      \* bound: calls of dc_join_securejoin()
    MaxTroubles    \* bound: lost mails, calls of dc_stop_ongoing_process() by the
                   \* user, changes of keys, other members, calls while offline,
                   \* keys that cannot be marked as verified

ASSUME ConstantsAssumption ==
    /\ Inviters # {} /\ Groups \subseteq Inviters
    /\ NoOne \notin Users
    /\ MaxJoins \in Nat /\ MaxTroubles \in Nat

VARIABLES
    at,          \* [Users -> place in dc_join_securejoin()]
    qr,          \* [Users -> the inviter of the scanned code]
    allocated,   \* [Users -> ongoing_allocated]
    chat,        \* [Users -> 1: contact_chat_id is set]
    asked,       \* [Users -> 1: join_vg and bobs_status are set for this call]
    result,      \* [Users -> 1: a chat was returned]
    running,     \* ongoing_running
    shallStop,   \* shall_stop_ongoing
    expects,     \* bob_expects
    status,      \* bobs_status: 1 is DC_BOB_SUCCESS
    scan,        \* bobs_qr_scan: the call it belongs to
    peerKey,     \* [Inviters -> the key in Bob's table acpeerstates]
    verified,    \* [Inviters -> 1: Bob has verified the key of the QR code]
    groupChat,   \* [Inviters -> 1: the group exists at Bob's]
    hand,        \* the mail the IMAP thread is handling
    key,         \* [Inviters -> the key the inviter signs with]
    bobVerified, \* [Inviters -> 1: the inviter has verified Bob]
    mails,       \* [Mail -> how many are on their way]
    scanned,     \* history: inviters whose code Bob has scanned
    others,      \* history: inviters that added another member
    disturbed,   \* history: [Users -> 1: something came in between]
    joins,       \* calls so far
    troubles     \* troubles so far

calls   == <<at, qr, allocated, chat, asked, result>>
ongoing == <<running, shallStop>>
joiner  == <<expects, status, scan>>
peers   == <<peerKey, verified, groupChat, hand>>
inviter == <<key, bobVerified>>
history == <<scanned, others, disturbed>>
bounds  == <<joins, troubles>>
vars    == <<calls, ongoing, joiner, peers, inviter, mails, history, bounds>>

-----------------------------------------------------------------------------
Place == {"idle", "test", "set", "check", "online", "scan", "send", "wait",
          "cleanup", "result", "unscan", "free"}

FromBob == {"request", "with-auth"}
ToBob   == {"auth-required", "confirm", "other-added"}
Mail    == [kind : FromBob, with : Inviters, key : {"qr"}]
             \cup [kind : ToBob, with : Inviters, key : {"qr", "new"}]

NoMail == [step |-> "none", mail |-> [kind |-> "none"], scan |-> NoOne, signed |-> 0]

Put(m) == [mails EXCEPT ![m] = @ + 1]
Trouble == troubles < MaxTroubles /\ troubles' = troubles + 1 /\ UNCHANGED joins
Disturb == disturbed' = [u \in Users |-> IF at[u] = "idle" THEN disturbed[u] ELSE 1]

TypeOK ==
    /\ at \in [Users -> Place] /\ qr \in [Users -> Inviters]
    /\ allocated \in [Users -> {0, 1}] /\ chat \in [Users -> {0, 1}]
    /\ asked \in [Users -> {0, 1}] /\ result \in [Users -> {0, 1}]
    /\ running \in {0, 1} /\ shallStop \in {0, 1}
    /\ expects \in {"no", "auth", "confirm"} /\ status \in {0, 1}
    /\ scan \in Users \cup {NoOne}
    /\ peerKey \in [Inviters -> {"none", "qr", "new"}]
    /\ verified \in [Inviters -> {0, 1}] /\ groupChat \in [Inviters -> {0, 1}]
    /\ hand \in {NoMail} \cup
          [step : {"act", "file"}, mail : Mail, scan : Inviters \cup {NoOne}, signed : {0, 1}]
    /\ key \in [Inviters -> {"qr", "new"}] /\ bobVerified \in [Inviters -> {0, 1}]
    /\ mails \in [Mail -> Nat]
    /\ scanned \subseteq Inviters /\ others \subseteq Inviters
    /\ disturbed \in [Users -> {0, 1}]
    /\ joins \in Nat /\ troubles \in Nat

Init ==
    /\ at = [u \in Users |-> "idle"] /\ qr = [u \in Users |-> CHOOSE a \in Inviters : TRUE]
    /\ allocated = [u \in Users |-> 0] /\ chat = [u \in Users |-> 0]
    /\ asked = [u \in Users |-> 0] /\ result = [u \in Users |-> 0]
    /\ running = 0 /\ shallStop = 1
    /\ expects = "no" /\ status = 0 /\ scan = NoOne
    /\ peerKey \in [Inviters -> {"none", "qr"}]
    /\ verified = [a \in Inviters |-> 0] /\ groupChat = [a \in Inviters |-> 0]
    /\ hand = NoMail
    /\ key = [a \in Inviters |-> "qr"] /\ bobVerified = [a \in Inviters |-> 0]
    /\ mails = [m \in Mail |-> 0]
    /\ scanned = {} /\ others = {} /\ disturbed = [u \in Users |-> 0]
    /\ joins = 0 /\ troubles = 0

-----------------------------------------------------------------------------
(* dc_join_securejoin(), called by the thread u for the code of a.         *)
Go(u, p) == at' = [at EXCEPT ![u] = p]

(* Something in the way of a call is remembered: another call, a mail of   *)
(* an earlier handshake.                                                   *)
Busy == hand # NoMail \/ \E m \in Mail : mails[m] # 0

Join(u, a) ==
    /\ at[u] = "idle" /\ Go(u, "test")
    /\ joins < MaxJoins /\ joins' = joins + 1
    /\ qr' = [qr EXCEPT ![u] = a]
    /\ asked' = [asked EXCEPT ![u] = 0]
    /\ result' = [result EXCEPT ![u] = 0]
    /\ LET company == \E v \in Users \ {u} : at[v] # "idle"
       IN  disturbed' = [v \in Users |->
              IF v = u THEN (IF company \/ Busy \/ key[a] = "new" THEN 1 ELSE 0)
              ELSE IF at[v] # "idle" THEN 1 ELSE disturbed[v]]
    /\ UNCHANGED <<allocated, chat, ongoing, joiner, peers, inviter, mails, scanned, others, troubles>>

(* dc_alloc_ongoing() tests the flags and sets them without a lock.        *)
AllocTest(u) ==
    /\ at[u] = "test"
    /\ Go(u, IF running = 1 \/ shallStop = 0 THEN "cleanup" ELSE "set")
    /\ UNCHANGED <<qr, allocated, chat, asked, result, ongoing, joiner, peers, inviter, mails, history, bounds>>

(* Mutant: ongoing_running counts.                                         *)
AllocSetCounts(u) ==
    /\ at[u] = "set" /\ Go(u, "check")
    /\ running' = running + 1 /\ shallStop' = 0
    /\ allocated' = [allocated EXCEPT ![u] = 1]
    /\ UNCHANGED <<qr, chat, asked, result, joiner, peers, inviter, mails, history, bounds>>

AllocSet(u) ==
    /\ at[u] = "set" /\ Go(u, "check")
    /\ running' = 1 /\ shallStop' = 0
    /\ allocated' = [allocated EXCEPT ![u] = 1]
    /\ UNCHANGED <<qr, chat, asked, result, joiner, peers, inviter, mails, history, bounds>>

(* The QR code is read and the chat with the contact created, or not.      *)
CheckQr(u) ==
    /\ at[u] = "check"
    /\ \/ Go(u, "online") /\ chat' = [chat EXCEPT ![u] = 1]
       \/ Go(u, "cleanup") /\ UNCHANGED chat
    /\ UNCHANGED <<qr, allocated, asked, result, ongoing, joiner, peers, inviter, mails, history, bounds>>

Offline(u) ==
    /\ at[u] = "online" /\ Go(u, "cleanup")
    /\ Trouble
    /\ UNCHANGED <<qr, allocated, chat, asked, result, ongoing, joiner, peers, inviter, mails, history>>

Online(u) ==
    /\ at[u] = "online" /\ Go(u, IF shallStop = 1 THEN "cleanup" ELSE "scan")
    /\ UNCHANGED <<qr, allocated, chat, asked, result, ongoing, joiner, peers, inviter, mails, history, bounds>>

SetScan(u) ==
    /\ at[u] = "scan" /\ Go(u, "send")
    /\ asked' = [asked EXCEPT ![u] = 1]
    /\ status' = 0 /\ scan' = u
    /\ scanned' = scanned \cup {qr[u]}
    /\ UNCHANGED <<qr, allocated, chat, result, ongoing, expects, peers, inviter, mails, others, disturbed, bounds>>

(* Mutant: the shortcut waits for the mail it does not ask for.            *)
SendFirstExpectAuth(u) ==
    /\ at[u] = "send" /\ Go(u, "wait")
    /\ expects' = "auth"
    /\ mails' = Put([kind |-> IF peerKey[qr[u]] = "qr" THEN "with-auth" ELSE "request",
                     with |-> qr[u], key |-> "qr"])
    /\ UNCHANGED <<qr, allocated, chat, asked, result, ongoing, status, scan, peers, inviter, history, bounds>>

(* With the key of the code in the database the first two mails are saved. *)
SendFirst(u) ==
    /\ at[u] = "send" /\ Go(u, "wait")
    /\ \/ /\ peerKey[qr[u]] = "qr"
          /\ expects' = "confirm"
          /\ mails' = Put([kind |-> "with-auth", with |-> qr[u], key |-> "qr"])
       \/ /\ peerKey[qr[u]] # "qr"
          /\ expects' = "auth"
          /\ mails' = Put([kind |-> "request", with |-> qr[u], key |-> "qr"])
    /\ UNCHANGED <<qr, allocated, chat, asked, result, ongoing, status, scan, peers, inviter, history, bounds>>

Wait(u) ==
    /\ at[u] = "wait" /\ shallStop = 1 /\ Go(u, "cleanup")
    /\ UNCHANGED <<qr, allocated, chat, asked, result, ongoing, joiner, peers, inviter, mails, history, bounds>>

Cleanup(u) ==
    /\ at[u] = "cleanup" /\ Go(u, "result")
    /\ expects' = "no"
    /\ UNCHANGED <<qr, allocated, chat, asked, result, ongoing, status, scan, peers, inviter, mails, history, bounds>>

Result(u) ==
    /\ at[u] = "result" /\ Go(u, "unscan")
    /\ result' = [result EXCEPT ![u] =
          IF status = 0 THEN 0
          ELSE IF asked[u] = 1 /\ qr[u] \in Groups THEN groupChat[qr[u]]
          ELSE chat[u]]
    /\ UNCHANGED <<qr, allocated, chat, asked, ongoing, joiner, peers, inviter, mails, history, bounds>>

Unscan(u) ==
    /\ at[u] = "unscan" /\ Go(u, "free")
    /\ scan' = NoOne
    /\ UNCHANGED <<qr, allocated, chat, asked, result, ongoing, expects, status, peers, inviter, mails, history, bounds>>

(* Mutant: shall_stop_ongoing is not set back.                             *)
FreeOngoingKeepsFlag(u) ==
    /\ at[u] = "free" /\ Go(u, "idle")
    /\ running' = IF allocated[u] = 1 THEN 0 ELSE running
    /\ allocated' = [allocated EXCEPT ![u] = 0]
    /\ chat' = [chat EXCEPT ![u] = 0]
    /\ UNCHANGED <<qr, asked, result, shallStop, joiner, peers, inviter, mails, history, bounds>>

FreeOngoing(u) ==
    /\ at[u] = "free" /\ Go(u, "idle")
    /\ \/ allocated[u] = 1 /\ running' = 0 /\ shallStop' = 1
       \/ allocated[u] = 0 /\ UNCHANGED ongoing
    /\ allocated' = [allocated EXCEPT ![u] = 0]
    /\ chat' = [chat EXCEPT ![u] = 0]
    /\ UNCHANGED <<qr, asked, result, joiner, peers, inviter, mails, history, bounds>>

CallStep(u) ==
    \/ AllocTest(u) \/ AllocSet(u) \/ CheckQr(u) \/ Online(u)
    \/ SetScan(u) \/ SendFirst(u) \/ Wait(u) \/ Cleanup(u) \/ Result(u)
    \/ Unscan(u) \/ FreeOngoing(u)

StopFlag == shallStop' = IF running = 1 THEN 1 ELSE shallStop

(* The user calls dc_stop_ongoing_process().                               *)
StopOngoing ==
    /\ Trouble
    /\ StopFlag
    /\ Disturb
    /\ UNCHANGED <<calls, running, joiner, peers, inviter, mails, scanned, others>>

-----------------------------------------------------------------------------
(* The IMAP thread of Bob.                                                 *)

(* The mail is parsed: the key of its Autocrypt header is stored; it is    *)
(* signed by a known key or not.  Then bob_expects and bobs_qr_scan are    *)
(* looked at, and the scanned fingerprint is copied.                       *)
InSync(m) ==
    /\ scan # NoOne
    /\ m.kind = "auth-required" <=> expects = "auth"
    /\ expects # "no"
    /\ m.with \in Groups => qr[scan] \in Groups

Receive(m) ==
    /\ hand = NoMail
    /\ m.kind \in ToBob /\ mails[m] > 0
    /\ mails' = [mails EXCEPT ![m] = @ - 1]
    /\ peerKey' = [peerKey EXCEPT ![m.with] = IF @ = "new" THEN @ ELSE m.key]
    /\ LET expected == IF InSync(m) THEN qr[scan] ELSE NoOne
       IN  hand' = [step   |-> IF InSync(m) THEN "act" ELSE "file",
                    mail   |-> m,
                    scan   |-> expected,
                    signed |-> IF m.with = expected /\ m.key = "qr" /\ peerKey[m.with] # "new" THEN 1 ELSE 0]
    /\ UNCHANGED <<calls, ongoing, joiner, verified, groupChat, inviter, history, bounds>>

File == hand' = [hand EXCEPT !.step = "file"]

(* end_bobs_joining()                                                      *)
EndJoining(s) == status' = s /\ StopFlag

NotSigned ==
    /\ hand.step = "act" /\ hand.signed = 0
    /\ EndJoining(0)
    /\ File
    /\ UNCHANGED <<calls, running, expects, scan, peerKey, verified, groupChat, inviter, mails, history, bounds>>

AuthRequired ==
    /\ hand.step = "act" /\ hand.signed = 1 /\ hand.mail.kind = "auth-required"
    /\ expects' = "confirm"
    /\ mails' = Put([kind |-> "with-auth", with |-> hand.mail.with, key |-> "qr"])
    /\ File
    /\ UNCHANGED <<calls, ongoing, status, scan, peerKey, verified, groupChat, inviter, history, bounds>>

(* A vg-member-added for somebody else verifies the inviter all the same.  *)
OtherAdded ==
    /\ hand.step = "act" /\ hand.signed = 1 /\ hand.mail.kind = "other-added"
    /\ verified' = [verified EXCEPT ![hand.scan] = 1]
    /\ File
    /\ UNCHANGED <<calls, ongoing, joiner, peerKey, groupChat, inviter, mails, history, bounds>>

(* Mutant: the result of mark_peer_as_verified() is not looked at.         *)
ConfirmWithoutVerifying ==
    /\ hand.step = "act" /\ hand.signed = 1 /\ hand.mail.kind = "confirm"
    /\ expects' = "no"
    /\ EndJoining(1)
    /\ File
    /\ UNCHANGED <<calls, running, scan, peerKey, verified, groupChat, inviter, mails, history, bounds>>

Confirm ==
    /\ hand.step = "act" /\ hand.signed = 1 /\ hand.mail.kind = "confirm"
    /\ verified' = [verified EXCEPT ![hand.scan] = 1]
    /\ expects' = "no"
    /\ EndJoining(1)
    /\ File
    /\ UNCHANGED <<calls, running, scan, peerKey, groupChat, inviter, mails, history, bounds>>

(* mark_peer_as_verified() fails: the key of the code is in the row as the *)
(* gossiped one only, or the row is gone.  Bob is left waiting.            *)
NotMarked ==
    /\ hand.step = "act" /\ hand.signed = 1 /\ hand.mail.kind \in {"confirm", "other-added"}
    /\ Trouble
    /\ Disturb
    /\ File
    /\ UNCHANGED <<calls, ongoing, joiner, peerKey, verified, groupChat, inviter, mails,
                   scanned, others>>

(* The rest of dc_receive_imf(): the group is created, if the member-added *)
(* comes from a verified contact.                                          *)
FileMail ==
    /\ hand.step = "file"
    /\ LET a == hand.mail.with
       IN  groupChat' = [groupChat EXCEPT ![a] =
              IF hand.mail.kind = "confirm" /\ a \in Groups /\ verified[a] = 1 THEN 1 ELSE @]
    /\ hand' = NoMail
    /\ UNCHANGED <<calls, ongoing, joiner, peerKey, verified, inviter, mails, history, bounds>>

HandStep == NotSigned \/ AuthRequired \/ OtherAdded \/ Confirm \/ FileMail

-----------------------------------------------------------------------------
(* The inviters, and what happens on the way.                              *)
AnswerRequest(m) ==
    /\ m.kind = "request" /\ mails[m] > 0
    /\ mails' = [mails EXCEPT ![m] = @ - 1,
                     ![[kind |-> "auth-required", with |-> m.with, key |-> key[m.with]]] = @ + 1]
    /\ UNCHANGED <<calls, ongoing, joiner, peers, inviter, history, bounds>>

(* Mutant: the inviter confirms and does not verify.                       *)
ConfirmOnly(m) ==
    /\ m.kind = "with-auth" /\ mails[m] > 0
    /\ mails' = [mails EXCEPT ![m] = @ - 1,
                     ![[kind |-> "confirm", with |-> m.with, key |-> key[m.with]]] = @ + 1]
    /\ UNCHANGED <<calls, ongoing, joiner, peers, inviter, history, bounds>>

AnswerWithAuth(m) ==
    /\ m.kind = "with-auth" /\ mails[m] > 0
    /\ bobVerified' = [bobVerified EXCEPT ![m.with] = 1]
    /\ mails' = [mails EXCEPT ![m] = @ - 1,
                     ![[kind |-> "confirm", with |-> m.with, key |-> key[m.with]]] = @ + 1]
    /\ UNCHANGED <<calls, ongoing, joiner, peers, key, history, bounds>>

NewKey(a) ==
    /\ Trouble /\ key[a] = "qr"
    /\ key' = [key EXCEPT ![a] = "new"]
    /\ Disturb
    /\ UNCHANGED <<calls, ongoing, joiner, peers, bobVerified, mails, scanned, others>>

(* Another member joins a group of the inviter in which Bob is already.    *)
AddOther(a) ==
    /\ a \in Groups /\ Trouble
    /\ mails' = Put([kind |-> "other-added", with |-> a, key |-> key[a]])
    /\ others' = others \cup {a}
    /\ Disturb
    /\ UNCHANGED <<calls, ongoing, joiner, peers, inviter, scanned>>

Lose(m) ==
    /\ mails[m] > 0 /\ Trouble
    /\ mails' = [mails EXCEPT ![m] = @ - 1]
    /\ Disturb
    /\ UNCHANGED <<calls, ongoing, joiner, peers, inviter, scanned, others>>

Next ==
    \/ \E u \in Users : CallStep(u) \/ Offline(u) \/ \E a \in Inviters : Join(u, a)
    \/ StopOngoing \/ HandStep \/ NotMarked
    \/ \E m \in Mail : Receive(m) \/ AnswerRequest(m) \/ AnswerWithAuth(m) \/ Lose(m)
    \/ \E a \in Inviters : NewKey(a) \/ AddOther(a)

Spec == Init /\ [][Next]_vars

(* Threads go on, and a mail that is not lost arrives.                     *)
FairSpec ==
    /\ Spec
    /\ \A u \in Users : WF_vars(CallStep(u))
    /\ WF_vars(HandStep)
    /\ \A m \in Mail : WF_vars(Receive(m)) /\ WF_vars(AnswerRequest(m)) /\ WF_vars(AnswerWithAuth(m))

-----------------------------------------------------------------------------
(* Bob takes an inviter's key for verified only when he has scanned the    *)
(* code with its fingerprint and the inviter has verified Bob's key: the   *)
(* last mail of the handshake tells him - or the one about another member, *)
(* which the code takes for it.                                            *)
VerifiedBothWays ==
    \A a \in Inviters : verified[a] = 1 =>
        a \in scanned /\ (bobVerified[a] = 1 \/ a \in others)

(* dc_join_securejoin() returns a chat only if the inviter is verified,    *)
(* provided nothing came in between: no other call, no stop, no lost or    *)
(* old mail, no change of keys - and the call came as far as resetting     *)
(* bobs_status.                                                            *)
JoinedIsVerified ==
    \A u \in Users :
        result[u] = 1 /\ asked[u] = 1 /\ disturbed[u] = 0 => verified[qr[u]] = 1

(* bobs_qr_scan points to a code its call has not freed, and when no call  *)
(* runs the process can be allocated again, however the calls overlapped.  *)
NothingLeftBehind ==
    /\ scan # NoOne => at[scan] \in {"send", "wait", "cleanup", "result", "unscan"}
    /\ (\A u \in Users : at[u] = "idle") => running = 0 /\ shallStop = 1

(* With nothing in between the handshake comes to its end: both sides are  *)
(* verified and the call returns.                                          *)
HandshakeCompletes ==
    \A u \in Users :
        at[u] = "wait" ~>
            \/ disturbed[u] = 1
            \/ at[u] = "idle" /\ verified[qr[u]] = 1 /\ bobVerified[qr[u]] = 1

(* The parts of the inductive invariant.                                   *)

(* Who told Bob that he is verified, or of another member, and what was    *)
(* scanned by then.                                                        *)
MailsTell ==
    /\ \A m \in Mail : mails[m] > 0 =>
          /\ m.kind = "confirm" => bobVerified[m.with] = 1
          /\ m.kind = "other-added" => m.with \in others
    /\ scan # NoOne => qr[scan] \in scanned
    /\ hand.step = "act" /\ hand.signed = 1 =>
          /\ hand.scan = hand.mail.with /\ hand.scan \in scanned
          /\ hand.mail.kind = "confirm" => bobVerified[hand.scan] = 1
          /\ hand.mail.kind = "other-added" => hand.scan \in others

(* The process runs for a call that has allocated it.                      *)
RunsForACall ==
    /\ \A u \in Users : allocated[u] = 1 => at[u] \notin {"idle", "test", "set"}
    /\ running = 1 => \E u \in Users : allocated[u] = 1
    /\ shallStop = 0 => running = 1

(* A call that nothing came in between is alone: only its own code can be  *)
(* in bobs_qr_scan and in the hands of the IMAP thread, it has no result   *)
(* yet, and once it has reset bobs_status only the end of its own          *)
(* handshake sets that again.                                              *)
UndisturbedIsAlone ==
    \A u \in Users : at[u] # "idle" /\ disturbed[u] = 0 =>
        /\ \A v \in Users \ {u} : at[v] = "idle"
        /\ at[u] \notin {"unscan", "free"} => result[u] = 0
        /\ scan \in {NoOne, u}
        /\ asked[u] = 0 => scan = NoOne /\ hand.step # "act"
        /\ hand.step = "act" => hand.scan = qr[u]
        /\ asked[u] = 1 /\ status = 1 => verified[qr[u]] = 1

(* An inviter hears of Bob only after he has scanned the code, and a mail  *)
(* in the hand that confirms comes from one that knows him.                *)
ScannedFirst ==
    /\ \A u \in Users : at[u] = "send" => qr[u] \in scanned
    /\ \A m \in Mail : m.kind = "with-auth" /\ mails[m] > 0 => m.with \in scanned
    /\ \A a \in Inviters : bobVerified[a] = 1 => a \in scanned
    /\ hand.mail.kind = "confirm" => bobVerified[hand.mail.with] = 1

IInv ==
    /\ TypeOK
    /\ VerifiedBothWays /\ NothingLeftBehind /\ JoinedIsVerified
    /\ MailsTell /\ RunsForACall /\ UndisturbedIsAlone /\ ScannedFirst

-----------------------------------------------------------------------------
(* The refinement: who has scanned, verified and joined.                   *)
Promise == INSTANCE Handshake WITH
    scanned  <- scanned,
    others   <- others,
    known    <- {a \in Inviters : bobVerified[a] = 1},
    verified <- {a \in Inviters : verified[a] = 1},
    joined   <- {a \in Inviters : groupChat[a] = 1}

(* However mails and calls overtake one another: dc_join_securejoin() and  *)
(* dc_handle_securejoin_handshake() verify in the order of the handshake,  *)
(* and the group is created after both have.                               *)
ImplementsHandshake == Promise!Spec

(* src/src/dc_securejoin.c:416 of dc_join_securejoin(): "If the            *)
(* out-of-band verification failed or was aborted, 0 is returned."         *)
FailedReturnsZero ==
    \A u \in Users : disturbed[u] = 0 /\ at[u] = "idle" /\ result[u] = 1 => verified[qr[u]] = 1
=============================================================================
