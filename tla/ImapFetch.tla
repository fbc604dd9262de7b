------------------------------ MODULE ImapFetch ------------------------------
(***************************************************************************)
(* How the IMAP thread finds out which messages of a folder are new:       *)
(* fetch_from_single_folder(), the loop around it in dc_imap_fetch() and   *)
(* the two numbers UIDVALIDITY:LASTSEENUID kept in the table config        *)
(* (src/src/dc_imap.c).  One folder, the inbox; other clients add and      *)
(* remove messages at any time, the stream breaks, the process crashes,    *)
(* the server renumbers the folder and changes its UIDVALIDITY.            *)
(***************************************************************************)
EXTENDS Naturals

CONSTANTS
    Msgs,         \* messages
    FirstMsgs,    \* those in the folder before this client ever looks at it
    MaxUid,       \* bound: UIDs of one UIDVALIDITY
    MaxValidity,  \* bound: values of UIDVALIDITY
    MaxExpunges,  \* bound: messages removed by other clients
    MaxFaults     \* bound: broken streams and crashes

ASSUME ConstantsAssumption ==
    /\ FirstMsgs \subseteq Msgs
    /\ MaxUid \in Nat /\ MaxValidity \in Nat
    /\ MaxExpunges \in Nat /\ MaxFaults \in Nat

VARIABLES
    uid,         \* [Msgs -> UID in the folder, 0: not there]
    nextUid,     \* the UID the server will give next
    validity,    \* UIDVALIDITY of the folder
    dbValidity,  \* the config entry: its UIDVALIDITY, 0: no entry
    lastSeen,    \* the config entry: lastseenuid
    stream,      \* 1: the stream is open
    at,          \* control state of the IMAP thread
    todo,        \* the list of the UID FETCH, as far as it is not read
    newLast,     \* new_lastseenuid
    readCnt,     \* read_cnt > 0
    errors,      \* read_errors > 0
    downloads,   \* history: [Msgs -> times handed to dc_receive_imf()]
    passedOver,  \* history: messages given up: \Deleted, empty or refused
    looked,      \* history: 1: the client has been in the folder
    old,         \* history: messages in the folder when it was first looked at
    gaps,        \* history: newer ones that a new lastseenuid passes over, unread
    expunges,
    faults

folder  == <<uid, nextUid, validity>>
config  == <<dbValidity, lastSeen>>
control == <<at, todo, newLast, readCnt, errors>>
history == <<downloads, passedOver, looked, old, gaps>>
bounds  == <<expunges, faults>>
vars    == <<folder, config, stream, control, history, bounds>>

-----------------------------------------------------------------------------
Present == {m \in Msgs : uid[m] > 0}
Uids == {uid[m] : m \in Present}
IsLargest(u) == u \in Uids /\ \A v \in Uids : v <= u

(* dc_receive_imf() has stored the message, or stored it before: it knows  *)
(* a message by its Message-ID.                                            *)
Received == {m \in Msgs : downloads[m] > 0}

Done == Received \cup passedOver

TypeOK ==
    /\ uid \in [Msgs -> Nat] /\ nextUid \in Nat /\ validity \in Nat
    /\ dbValidity \in Nat /\ lastSeen \in Nat
    /\ stream \in {0, 1}
    /\ at \in {"idle", "compare", "list", "read"}
    /\ todo \in SUBSET Nat
    /\ newLast \in Nat
    /\ readCnt \in {0, 1} /\ errors \in {0, 1}
    /\ downloads \in [Msgs -> Nat]
    /\ passedOver \in SUBSET Msgs
    /\ looked \in {0, 1} /\ old \in SUBSET Msgs /\ gaps \in SUBSET Msgs
    /\ expunges \in Nat /\ faults \in Nat

(* The server numbers the messages S in some order and will go on from     *)
(* `next`.                                                                 *)
Numbering(S, f, next) ==
    /\ \A m \in Msgs : (f[m] > 0 <=> m \in S) /\ f[m] < next
    /\ \A m, n \in S : f[m] = f[n] => m = n

Init ==
    /\ uid \in [Msgs -> 0..MaxUid] /\ nextUid \in 1..(MaxUid + 1)
    /\ Numbering(FirstMsgs, uid, nextUid)
    /\ validity = 1
    /\ dbValidity = 0 /\ lastSeen = 0
    /\ stream = 0
    /\ at = "idle" /\ todo = {} /\ newLast = 0 /\ readCnt = 0 /\ errors = 0
    /\ downloads = [m \in Msgs |-> 0]
    /\ passedOver = {} /\ looked = 0 /\ old = {} /\ gaps = {}
    /\ expunges = 0 /\ faults = 0

-----------------------------------------------------------------------------
(* The server and its other clients.                                       *)

(* A new message; one that was there before is another message.            *)
Arrive(m) ==
    /\ uid[m] = 0
    /\ m \notin Done \cup old \cup gaps \cup FirstMsgs
    /\ nextUid <= MaxUid
    /\ uid' = [uid EXCEPT ![m] = nextUid]
    /\ nextUid' = nextUid + 1
    /\ UNCHANGED <<validity, config, stream, control, history, bounds>>

Expunge(m) ==
    /\ uid[m] > 0
    /\ expunges < MaxExpunges
    /\ uid' = [uid EXCEPT ![m] = 0]
    /\ expunges' = expunges + 1
    /\ UNCHANGED <<nextUid, validity, config, stream, control, history, faults>>

(* The folder is restored, say, with its messages in their order; no       *)
(* session survives that.                                                  *)
ChangeValidity ==
    /\ validity < MaxValidity
    /\ validity' = validity + 1
    /\ \E f \in [Msgs -> 0..MaxUid], next \in 1..(MaxUid + 1) :
          /\ Numbering(Present, f, next)
          /\ \A m, n \in Present : uid[m] < uid[n] => f[m] < f[n]
          /\ uid' = f /\ nextUid' = next
    /\ stream' = 0
    /\ UNCHANGED <<config, control, history, bounds>>

-----------------------------------------------------------------------------
(* dc_imap_fetch()                                                         *)

(* setup_handle_if_needed(): a stream that was lost is replaced, perhaps.  *)
StartFetch(s) ==
    /\ at = "idle"
    /\ stream' = IF stream = 1 THEN 1 ELSE s
    /\ at' = "compare"
    /\ UNCHANGED <<folder, config, todo, newLast, readCnt, errors, history, bounds>>

(* Every command fails without a stream: the fetch is over.                *)
NoStream ==
    /\ at \in {"compare", "list"}
    /\ stream = 0
    /\ at' = "idle"
    /\ UNCHANGED <<folder, config, stream, todo, newLast, readCnt, errors, history, bounds>>

(* The UIDVALIDITY is as it was.                                           *)
SameValidity ==
    /\ at = "compare" /\ stream = 1
    /\ dbValidity = validity
    /\ at' = "list"
    /\ UNCHANGED <<folder, config, stream, todo, newLast, readCnt, errors, history, bounds>>

EmptyFolder ==
    /\ at = "compare" /\ stream = 1
    /\ dbValidity # validity
    /\ Present = {}
    /\ at' = "idle"
    /\ looked' = 1
    /\ UNCHANGED <<folder, config, stream, todo, newLast, readCnt, errors, downloads, passedOver,
                   old, gaps, bounds>>

(* Mutant: not decreased at all.                                           *)
StartWithNewest(largest) == largest

(* Mutant: decreased by two.                                               *)
StartWithTwoLess(largest) ==
    IF dbValidity > 0 THEN largest - 2 ELSE largest

(* A new UIDVALIDITY: start with the largest UID - or with the one before, *)
(* if there was a config entry.                                            *)
StartWith(largest) ==
    IF dbValidity > 0 /\ largest > 1 THEN largest - 1 ELSE largest

(* What has no chance of being listed, seen from the folder and not from   *)
(* the number: at the first look everything that is there, on purpose; and *)
(* later, although nobody has read it: after a look at the empty folder    *)
(* still everything; and at a changed UIDVALIDITY everything but the       *)
(* newest message - and this, too, if its UID is 1.                        *)
LeftOut(largest) ==
    IF dbValidity = 0 THEN Present ELSE {m \in Present : uid[m] < largest \/ largest = 1}

NewValidity(largest) ==
    /\ at = "compare" /\ stream = 1
    /\ dbValidity # validity
    /\ IsLargest(largest)
    /\ dbValidity' = validity
    /\ lastSeen' = StartWith(largest)
    /\ looked' = 1
    /\ IF looked = 0
       THEN old' = LeftOut(largest) /\ UNCHANGED gaps
       ELSE gaps' = gaps \cup (LeftOut(largest) \ (Done \cup old)) /\ UNCHANGED old
    /\ at' = "list"
    /\ UNCHANGED <<folder, stream, todo, newLast, readCnt, errors, downloads, passedOver,
                   bounds>>

(* UID FETCH lastseenuid+1:* - where * is the largest UID there is, and a  *)
(* range is a range in both directions.                                    *)
List ==
    /\ at = "list" /\ stream = 1
    /\ todo' = {u \in Uids : u > lastSeen \/ IsLargest(u)} \ {lastSeen}
    /\ newLast' = 0 /\ readCnt' = 0 /\ errors' = 0
    /\ at' = "read"
    /\ UNCHANGED <<folder, config, stream, history, bounds>>

(* The messages of the list are read by and by.                            *)
Reading(u) ==
    /\ at = "read"
    /\ u \in todo
    /\ todo' = todo \ {u}
    /\ readCnt' = 1
    /\ UNCHANGED <<folder, config, stream, at, looked, old, gaps, bounds>>

(* fetch_single_msg() = 1: received, or there is no such message any more, *)
(* or the server has nothing usable.                                       *)
AsRead(u) == newLast' = (IF u > newLast THEN u ELSE newLast) /\ UNCHANGED errors

ReadMsg(u) ==
    /\ Reading(u)
    /\ stream = 1
    /\ AsRead(u)
    /\ \E m \in Msgs :
          /\ uid[m] = u
          /\ \/ downloads' = [downloads EXCEPT ![m] = @ + 1] /\ UNCHANGED passedOver
             \/ passedOver' = passedOver \cup {m} /\ UNCHANGED downloads

ReadGone(u) ==
    /\ Reading(u)
    /\ stream = 1
    /\ u \notin Uids
    /\ AsRead(u)
    /\ UNCHANGED <<downloads, passedOver>>

(* Mutant: the UID of a message that could not be read counts as well.     *)
ReadFailsAsRead(u) ==
    /\ Reading(u)
    /\ stream = 0
    /\ newLast' = (IF u > newLast THEN u ELSE newLast) /\ errors' = 0
    /\ UNCHANGED <<downloads, passedOver>>

(* fetch_single_msg() = 0: the stream is lost, try again later.            *)
ReadFails(u) ==
    /\ Reading(u)
    /\ stream = 0
    /\ errors' = 1
    /\ UNCHANGED <<newLast, downloads, passedOver>>

(* Mutant: the UID is noted even if there is none.                         *)
EndOfListResets ==
    /\ at = "read"
    /\ todo = {}
    /\ lastSeen' = IF errors = 0 THEN newLast ELSE lastSeen
    /\ at' = IF readCnt = 1 THEN "compare" ELSE "idle"
    /\ UNCHANGED <<folder, dbValidity, stream, todo, newLast, readCnt, errors, history, bounds>>

(* All are read: the largest UID is noted, unless there was an error.  If  *)
(* anything was read, the next list is fetched at once.                    *)
EndOfList ==
    /\ at = "read"
    /\ todo = {}
    /\ lastSeen' = IF errors = 0 /\ newLast > 0 THEN newLast ELSE lastSeen
    /\ at' = IF readCnt = 1 THEN "compare" ELSE "idle"
    /\ UNCHANGED <<folder, dbValidity, stream, todo, newLast, readCnt, errors, history, bounds>>

-----------------------------------------------------------------------------
LoseStream ==
    /\ stream = 1
    /\ faults < MaxFaults
    /\ faults' = faults + 1
    /\ stream' = 0
    /\ UNCHANGED <<folder, config, control, history, expunges>>

Crash ==
    /\ faults < MaxFaults
    /\ faults' = faults + 1
    /\ stream' = 0
    /\ at' = "idle" /\ todo' = {} /\ newLast' = 0 /\ readCnt' = 0 /\ errors' = 0
    /\ UNCHANGED <<folder, config, history, expunges>>

FetchStep ==
    \/ \E s \in {0, 1} : StartFetch(s)
    \/ NoStream \/ SameValidity \/ EmptyFolder
    \/ \E largest \in Uids : NewValidity(largest)
    \/ List
    \/ \E u \in todo : ReadMsg(u) \/ ReadGone(u) \/ ReadFails(u)
    \/ EndOfList

Next ==
    \/ FetchStep
    \/ \E m \in Msgs : Arrive(m) \/ Expunge(m)
    \/ ChangeValidity \/ LoseStream \/ Crash

Spec == Init /\ [][Next]_vars

(* The IMAP thread comes back to the fetch after every idle; a server that *)
(* is tried again and again can be connected to some day.                  *)
FairSpec == Spec /\ WF_vars(FetchStep) /\ SF_vars(StartFetch(1))

-----------------------------------------------------------------------------
(* What lies at or below lastseenuid was read or given up, or is one of    *)
(* the messages LeftOut() names: whatever arrives, disappears or breaks    *)
(* in between, and however the number was started.                         *)
NothingSkipped ==
    dbValidity = validity => \A m \in Present : uid[m] <= lastSeen => m \in Done \cup old \cup gaps

(* A message is downloaded again only after a fault, a new UIDVALIDITY or  *)
(* an expunge.                                                             *)
ReadAgainForAReason ==
    \A m \in Msgs : downloads[m] <= validity + faults + expunges

(* Every message is received some day, is given up or disappears, but for  *)
(* those in the folder at the first look, and for the gaps: the code does  *)
(* lose messages that came after a look at the empty folder, or before a   *)
(* change of UIDVALIDITY unless they are the newest then.  These are all.  *)
FetchedSomeday ==
    \A m \in Msgs : uid[m] > 0 ~> m \in Done \cup old \cup gaps \/ uid[m] = 0

-----------------------------------------------------------------------------
(* The inductive invariant of ImapFetchProofs.                             *)

UidsInv ==
    /\ \A m \in Msgs : uid[m] < nextUid
    /\ \A m, n \in Present : uid[m] = uid[n] => m = n

ConfigInv ==
    /\ dbValidity <= validity
    /\ at \in {"list", "read"} /\ stream = 1 => dbValidity = validity
    /\ dbValidity = validity => lastSeen < nextUid

(* What is above lastseenuid is in the list, or read, or newer than all of *)
(* the list.                                                               *)
ListInv ==
    at = "read" /\ dbValidity = validity =>
        /\ newLast < nextUid
        /\ \A u \in todo : u < nextUid
        /\ errors = 0 =>
              \A m \in Present : uid[m] > lastSeen =>
                  \/ uid[m] \in todo
                  \/ m \in Done
                  \/ uid[m] > newLast /\ \A u \in todo : u < uid[m]

IInv == TypeOK /\ UidsInv /\ ConfigInv /\ ListInv /\ NothingSkipped

-----------------------------------------------------------------------------
(* Behind ReadAgainForAReason: how often a message may yet be downloaded   *)
(* with nothing more going wrong.  lastseenuid will be the largest of      *)
(* Marks when the list is read; a message is listed then if it lies above, *)
(* or is the last of the folder and below.  Without a stream, and with a   *)
(* config entry that is void, what was listed so far does not count.       *)
Marks == IF at = "read" /\ (todo # {} \/ newLast > 0) THEN todo \cup {newLast} ELSE {lastSeen}

WillBeListed(m) ==
    \/ \A u \in Marks : u < uid[m]
    \/ (\E u \in Marks : u > uid[m]) /\ IsLargest(uid[m])

StillListed(m) == at = "read" /\ uid[m] \in todo

Owed(m) ==
    IF stream = 0 \/ dbValidity # validity THEN 1
    ELSE IF uid[m] = 0 THEN 0
    ELSE (IF StillListed(m) THEN 1 ELSE 0) + (IF WillBeListed(m) THEN 1 ELSE 0)

DownloadsInv ==
    /\ at = "read" /\ stream = 1 => errors = 0
    /\ 0 \notin todo
    /\ validity > 0
    /\ \A m \in Msgs : downloads[m] + Owed(m) <= validity + faults + expunges
=============================================================================
