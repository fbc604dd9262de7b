------------------------------ MODULE Autocrypt ------------------------------
(***************************************************************************)
(* The Autocrypt peers (src/src/dc_apeerstate.c), the verified group       *)
(* (check_verified_properties() and create_or_lookup_group() of            *)
(* src/src/dc_receive_imf.c) and the encryption of outgoing messages       *)
(* (src/src/dc_e2ee.c).  The IMAP thread changes the rows of acpeerstates  *)
(* and the members of a group by incoming mails, in whatever order they    *)
(* come; the user adds and removes members and sends; the SMTP thread      *)
(* loads the recipients and then, one by one, their keys.                  *)
(*                                                                         *)
(* A mail may have no Date: or one before 1970: message_time is 0 or less  *)
(* then, no header of it counts - but what it gossips does.                *)
(*                                                                         *)
(* There is one group, whose sole other device is left out, and one        *)
(* outgoing message at a time.  last_seen, the degrade events and a key's  *)
(* validity are left out; the user stays a member.                         *)
(***************************************************************************)
EXTENDS Integers, FiniteSets

CONSTANTS
    Peers,      \* the contacts
    Keys,       \* the keys they have had
    NoPeer,     \* nobody
    NoKey,      \* NULL
    Dates,      \* the message_times; 0 and less: no Date:, or an invalid one
    MaxInputs   \* bound: incoming mails and messages the user sends

ASSUME ConstantsAssumption ==
    /\ NoPeer \notin Peers /\ NoKey \notin Keys
    /\ Dates \subseteq Int /\ MaxInputs \in Nat

VARIABLES
    pubKey,     \* [Peers -> public_key]
    seen,       \* [Peers -> last_seen_autocrypt]
    prefer,     \* [Peers -> prefer_encrypted]
    gossipKey,  \* [Peers -> gossip_key]
    gossipTime, \* [Peers -> gossip_timestamp]
    verKey,     \* [Peers -> verified_key]
    group,      \* the type of the group
    members,    \* chats_contacts of the group, less the user
    step,       \* where dc_receive_imf() is with a mail of the group
    mail,       \* that mail, while it is looked at
    helper,     \* e2ee_helper, and the Date:, with it
    left,       \* the contacts its loop still has to look at
    message,    \* the outgoing message: "none", "pending", "loaded", "sent", "failed"
    guaranteed, \* 1: DC_PARAM_GUARANTEE_E2EE is set
    removed,    \* the contact whose removal the message is about
    rcpt,       \* recipients_addr
    todo,       \* those dc_e2ee_encrypt() has not looked at yet
    encrypt,    \* do_encrypt
    keyUsed,    \* [Peers -> the key in the keyring]
    broken,     \* history: 1, the encryption itself has failed in this try
    headers,    \* history: the dated mails with an Autocrypt header
    plains,     \* history: the dated mails without one
    gossips,    \* history: the keys in Autocrypt-Gossip headers
    certified,  \* history: <<peer, key>> that was a verified key
    inputs      \* incoming mails and messages the user sent so far

peer    == <<pubKey, seen, prefer, gossipKey, gossipTime, verKey>>
chat    == <<group, members>>
receive == <<step, mail, helper, left>>
send    == <<message, guaranteed, removed, rcpt, todo, encrypt, keyUsed, broken>>
history == <<headers, plains, gossips, certified>>
vars    == <<peer, chat, receive, send, history, inputs>>

-----------------------------------------------------------------------------
(* Of a group: a message, one with Chat-Verified, a change of the members.  *)
Kinds  == {"message", "verified", "command"}
Header == [from : Peers, time : Nat, key : Keys, prefer : {"nopref", "mutual"}]
Plain  == [from : Peers, time : Nat]
Gossip == [about : Peers, time : Int, key : Keys \cup {NoKey}]

(* What comes: with the key of an Autocrypt header, or without.             *)
Incoming ==
    {h \in [from : Peers, time : Dates, key : Keys \cup {NoKey}, prefer : {"nopref", "mutual"}] :
        h.key = NoKey => h.prefer = "nopref"}

Mail   == [from : Peers \cup {NoPeer}, to : SUBSET Peers, kind : Kinds, skip : Peers \cup {NoPeer}]
Helper == [time : Int, signature : Keys \cup {NoKey}, gossip : [Peers -> Keys \cup {NoKey}]]

NoMail   == [from |-> NoPeer, to |-> {}, kind |-> "message", skip |-> NoPeer]
NoHelper == [time |-> 0, signature |-> NoKey, gossip |-> [p \in Peers |-> NoKey]]

(* "in the database, either public_key or gossip_key is set"               *)
HasRow(p) == pubKey[p] # NoKey \/ gossipKey[p] # NoKey

TypeOK ==
    /\ pubKey \in [Peers -> Keys \cup {NoKey}] /\ seen \in [Peers -> Nat]
    /\ prefer \in [Peers -> {"nopref", "mutual", "reset"}]
    /\ gossipKey \in [Peers -> Keys \cup {NoKey}] /\ gossipTime \in [Peers -> Int]
    /\ verKey \in [Peers -> Keys \cup {NoKey}]
    /\ group \in {"none", "normal", "verified"} /\ members \subseteq Peers
    /\ step \in {"idle", "gossip", "check", "fill"}
    /\ mail \in Mail /\ helper \in Helper
    /\ (step \in {"gossip", "check"}) = (mail.from # NoPeer)
    /\ step = "idle" => helper = NoHelper /\ left = {}
    /\ left \subseteq Peers
    /\ message \in {"none", "pending", "loaded", "sent", "failed"}
    /\ guaranteed \in {0, 1} /\ removed \in Peers \cup {NoPeer}
    /\ rcpt \subseteq Peers /\ todo \subseteq rcpt /\ encrypt \in {0, 1}
    /\ keyUsed \in [Peers -> Keys \cup {NoKey}] /\ broken \in {0, 1}
    /\ headers \subseteq Header /\ plains \subseteq Plain
    /\ gossips \subseteq Gossip
    /\ certified \subseteq Peers \X (Keys \cup {NoKey})
    /\ inputs \in Nat

(* The contacts the user has met before, each by a mail, some of them by a *)
(* handshake too.                                                          *)
Met == {p \in Peers : pubKey[p] # NoKey}
FirstHeader(p) == [from |-> p, time |-> 1, key |-> pubKey[p], prefer |-> "mutual"]

Init ==
    /\ pubKey \in [Peers -> Keys \cup {NoKey}]
    /\ seen = [p \in Peers |-> IF p \in Met THEN 1 ELSE 0]
    /\ prefer = [p \in Peers |-> IF p \in Met THEN "mutual" ELSE "nopref"]
    /\ headers = {FirstHeader(p) : p \in Met}
    /\ \E friends \in SUBSET Met :
          /\ verKey = [p \in Peers |-> IF p \in friends THEN pubKey[p] ELSE NoKey]
          /\ certified = {<<p, pubKey[p]>> : p \in friends}
    /\ gossipKey = [p \in Peers |-> NoKey] /\ gossipTime = [p \in Peers |-> 0]
    /\ group = "none" /\ members = {}
    /\ step = "idle" /\ mail = NoMail /\ helper = NoHelper /\ left = {}
    /\ message = "none" /\ guaranteed = 0 /\ removed = NoPeer
    /\ rcpt = {} /\ todo = {} /\ encrypt = 0 /\ keyUsed = [p \in Peers |-> NoKey] /\ broken = 0
    /\ plains = {} /\ gossips = {} /\ inputs = 0

-----------------------------------------------------------------------------
NextInput == inputs < MaxInputs /\ inputs' = inputs + 1

(* The row of the sender, whatever mail it is.                             *)
(* ReceiveMail has the guard all mails share.                              *)
NextMail == step = "idle" /\ NextInput

IsNewer(h) == h.time > 0 /\ h.time > seen[h.from]

(* Mutant: only the timestamps are saved when the key is the same.         *)
ApplyHeaderTimestamps(h) ==
    LET p == h.from
    IN  /\ seen'   = [seen   EXCEPT ![p] = IF IsNewer(h) THEN h.time ELSE @]
        /\ pubKey' = [pubKey EXCEPT ![p] = IF IsNewer(h) THEN h.key ELSE @]
        /\ prefer' = [prefer EXCEPT ![p] = IF IsNewer(h) /\ h.key # pubKey[p] THEN h.prefer ELSE @]
        /\ headers' = IF h.time > 0 THEN headers \cup {h} ELSE headers
        /\ UNCHANGED plains

(* dc_apeerstate_init_from_header(), dc_apeerstate_apply_header(): without *)
(* a row, or with a gossiped one, last_seen_autocrypt is 0.                *)
ApplyHeader(h) ==
    LET p == h.from
    IN  /\ seen'   = [seen   EXCEPT ![p] = IF IsNewer(h) THEN h.time ELSE @]
        /\ pubKey' = [pubKey EXCEPT ![p] = IF IsNewer(h) THEN h.key ELSE @]
        /\ prefer' = [prefer EXCEPT ![p] = IF IsNewer(h) THEN h.prefer ELSE @]
        /\ headers' = IF h.time > 0 THEN headers \cup {h} ELSE headers
        /\ UNCHANGED plains

(* dc_apeerstate_degrade_encryption()                                      *)
Degrade(h) ==
    LET p == h.from
    IN  /\ prefer' = [prefer EXCEPT ![p] = IF HasRow(p) /\ IsNewer(h) THEN "reset" ELSE @]
        /\ plains' = IF h.time > 0 THEN plains \cup {[from |-> p, time |-> h.time]} ELSE plains
        /\ UNCHANGED <<pubKey, seen, headers>>

UpdateSender(h) ==
    \/ h.key # NoKey /\ ApplyHeader(h)
    \/ h.key = NoKey /\ Degrade(h)

(* A mail without a group; a report without a header changes nothing.      *)
ReceiveOther(h) ==
    /\ UpdateSender(h)
    /\ UNCHANGED <<gossipKey, gossipTime, verKey, chat, receive, send, gossips, certified>>

(* mark_peer_as_verified() at the end of a handshake.                      *)
Verify(p) ==
    /\ step = "idle" /\ pubKey[p] # NoKey
    /\ verKey' = [verKey EXCEPT ![p] = pubKey[p]]
    /\ prefer' = [prefer EXCEPT ![p] = "mutual"]
    /\ certified' = certified \cup {<<p, pubKey[p]>>}
    /\ UNCHANGED <<pubKey, seen, gossipKey, gossipTime, chat, receive, send>>
    /\ UNCHANGED <<headers, plains, gossips, inputs>>

-----------------------------------------------------------------------------
(* A mail of the group: after the row of the sender it is decrypted and    *)
(* its signature looked up among the two keys; sign is NoKey if it is not  *)
(* encrypted or not signed.  Without a valid signature nothing is gossip.  *)
(* Chat-Verified is only asked for when there is no group yet; skip is the *)
(* removed member, who may be the sender.                                  *)
ReceiveGroup(h, to, g, kind, skip, sign) ==
    /\ kind = "verified" => group = "none"
    /\ skip # NoPeer => (skip \in to \cup {h.from} /\ kind = "command")
    /\ h.key # NoKey => sign \in {h.key, NoKey}
    /\ \A a \in Peers : g[a] # NoKey => a \in to /\ sign # NoKey
    /\ UpdateSender(h)
    /\ mail' = [from |-> h.from, to |-> to, kind |-> kind, skip |-> skip]
    /\ helper' = [time |-> h.time, gossip |-> g,
                  signature |-> IF sign \in {pubKey'[h.from], gossipKey[h.from]} THEN sign ELSE NoKey]
    /\ helper'.signature = NoKey => \A a \in Peers : g[a] = NoKey
    /\ step' = "gossip" /\ left' = {a \in to : g[a] # NoKey}
    /\ UNCHANGED <<gossipKey, gossipTime, verKey, chat, send, gossips, certified>>

(* update_gossip_peerstates() for one address: without a row the gossip    *)
(* makes one, whatever its date (dc_apeerstate_init_from_gossip()), else   *)
(* it has to be newer (dc_apeerstate_apply_gossip()).                      *)
UpdateGossip(a) ==
    /\ step = "gossip" /\ a \in left
    /\ LET counts == ~HasRow(a) \/ helper.time > gossipTime[a]
       IN  /\ gossipTime' = [gossipTime EXCEPT ![a] = IF counts THEN helper.time ELSE @]
           /\ gossipKey'  = [gossipKey EXCEPT ![a] = IF counts THEN helper.gossip[a] ELSE @]
    /\ gossips' = gossips \cup {[about |-> a, time |-> helper.time, key |-> helper.gossip[a]]}
    /\ left' = left \ {a}
    /\ UNCHANGED <<pubKey, seen, prefer, verKey, chat, step, mail, helper, send>>
    /\ UNCHANGED <<headers, plains, certified, inputs>>

IsGossiped(a) == helper.gossip[a] # NoKey
SenderIsVerified == helper.signature # NoKey /\ verKey[mail.from] = helper.signature
GroupChanges == mail.from \in members /\ mail.kind = "command"

(* Mutant: what was gossiped is kept for the next mail.                    *)
DoneKeepsHelper == step' = "idle" /\ mail' = NoMail /\ helper' = helper /\ left' = {}

Done    == step' = "idle" /\ mail' = NoMail /\ helper' = NoHelper /\ left' = {}
AtGroup == step = "gossip" /\ left = {}

(* recreate_member_list: the rows are deleted, and written again for the   *)
(* sender and the recipients, less a removed one, one by one (Fill).       *)
Recreate ==
    /\ members' = {}
    /\ step' = "fill" /\ mail' = NoMail /\ helper' = NoHelper
    /\ left' = ({mail.from} \cup mail.to) \ {mail.skip}

(* check_verified_properties() looks at the sender first.                  *)
StartCheck ==
    /\ AtGroup
    /\ \/ group = "verified"
       \/ group = "none" /\ mail.kind = "verified"
    /\ SenderIsVerified
    /\ step' = "check" /\ left' = mail.to
    /\ UNCHANGED <<peer, chat, mail, helper, send, history, inputs>>

(* Not shown in the group, or shown without a change of its members.       *)
NoChange ==
    /\ AtGroup
    /\ \/ group = "verified" /\ ~SenderIsVerified
       \/ group = "none" /\ mail.skip # NoPeer
       \/ group = "normal" /\ ~GroupChanges
    /\ Done
    /\ UNCHANGED <<peer, chat, send, history, inputs>>

CreateNormal ==
    /\ AtGroup
    /\ group = "none" /\ mail.skip = NoPeer
    /\ mail.kind # "verified" \/ ~SenderIsVerified
    /\ group' = "normal" /\ Recreate
    /\ UNCHANGED <<peer, send, history, inputs>>

ChangeNormal ==
    /\ AtGroup
    /\ group = "normal" /\ GroupChanges
    /\ Recreate
    /\ UNCHANGED <<peer, group, send, history, inputs>>

KeyIsCurrent(a) == verKey[a] # NoKey /\ verKey[a] \in {pubKey[a], gossipKey[a]}
MarkVerified(a) == IsGossiped(a) /\ ~KeyIsCurrent(a)

(* One round of the loop: the gossip-key becomes the verified key.  There  *)
(* is none if the gossip was not dated and the row there before:           *)
(* dc_apeerstate_set_verified() fails then, and nobody asks.               *)
CheckGossiped(a) ==
    /\ step = "check" /\ a \in left
    /\ MarkVerified(a)
    /\ verKey' = [verKey EXCEPT ![a] = IF gossipKey[a] # NoKey THEN gossipKey[a] ELSE @]
    /\ certified' = certified \cup {<<a, k>> : k \in {gossipKey[a]} \ {NoKey}}
    /\ left' = left \ {a}
    /\ UNCHANGED <<pubKey, seen, prefer, gossipKey, gossipTime, chat, step, mail, helper, send>>
    /\ UNCHANGED <<headers, plains, gossips, inputs>>

(* Mutant: a member that is not gossiped is not looked at further.         *)
CheckVerifiedSkips(a) ==
    /\ step = "check" /\ a \in left
    /\ ~MarkVerified(a)
    /\ left' = left \ {a}
    /\ UNCHANGED <<peer, chat, step, mail, helper, send, history, inputs>>

CheckVerified(a) ==
    /\ step = "check" /\ a \in left
    /\ ~MarkVerified(a) /\ verKey[a] # NoKey
    /\ left' = left \ {a}
    /\ UNCHANGED <<peer, chat, step, mail, helper, send, history, inputs>>

(* "recipient %s is not gossipped": a group that is new is created as a    *)
(* normal one.                                                             *)
CheckFails(a) ==
    /\ step = "check" /\ a \in left
    /\ ~MarkVerified(a) /\ verKey[a] = NoKey
    /\ \/ group = "verified" /\ Done /\ UNCHANGED chat
       \/ group = "none" /\ group' = "normal" /\ Recreate
    /\ UNCHANGED <<peer, send, history, inputs>>

CheckPassed ==
    /\ step = "check" /\ left = {}
    /\ group' = "verified"
    /\ IF group = "none" \/ GroupChanges THEN Recreate ELSE Done /\ UNCHANGED members
    /\ UNCHANGED <<peer, send, history, inputs>>

Fill(a) ==
    /\ step = "fill" /\ a \in left
    /\ members' = members \cup {a}
    /\ left' = left \ {a}
    /\ UNCHANGED <<peer, group, step, mail, helper, send, history, inputs>>

EndOfMail ==
    /\ step = "fill" /\ left = {}
    /\ Done
    /\ UNCHANGED <<peer, chat, send, history, inputs>>

-----------------------------------------------------------------------------
(* The user.                                                               *)

(* The id is a new one: no mail of the group is at hand.                   *)
CreateGroup(g) ==
    /\ group = "none" /\ step = "idle"
    /\ group' = g
    /\ UNCHANGED <<peer, members, receive, send, history, inputs>>

AddMember(a) ==
    /\ group # "none" /\ a \notin members
    /\ group = "verified" => verKey[a] # NoKey
    /\ members' = members \cup {a}
    /\ UNCHANGED <<peer, group, receive, send, history, inputs>>

(* The message about it is sent before.                                    *)
RemoveMember(a) ==
    /\ a \in members
    /\ members' = members \ {a}
    /\ UNCHANGED <<peer, group, receive, send, history, inputs>>

(* dc_send_msg_raw(), with e2ee_enabled and last_msg_in_chat_encrypted()   *)
(* as they may be; about the removal of x, or of nobody.                   *)
SendMsg(x, enabled, last) ==
    /\ group # "none" /\ message \in {"none", "sent", "failed"}
    /\ x = NoPeer \/ x \in members
    /\ NextInput
    /\ removed' = x
    /\ guaranteed' = IF /\ enabled = 1
                        /\ \A a \in members : HasRow(a)
                        /\ last = 1 \/ \A a \in members : prefer[a] = "mutual"
                     THEN 1 ELSE 0
    /\ message' = "pending"
    /\ rcpt' = {} /\ todo' = {} /\ encrypt' = 0 /\ keyUsed' = [p \in Peers |-> NoKey]
    /\ broken' = 0
    /\ UNCHANGED <<peer, chat, receive, history>>

-----------------------------------------------------------------------------
(* The SMTP thread.                                                        *)
MustEncrypt == group = "verified" \/ guaranteed = 1

LoadMsg(enabled) ==
    /\ message = "pending"
    /\ message' = "loaded"
    /\ rcpt' = members \cup ({removed} \ {NoPeer})
    /\ encrypt' = IF MustEncrypt \/ enabled = 1 THEN 1 ELSE 0
    /\ todo' = IF encrypt' = 1 THEN rcpt' ELSE {}
    /\ keyUsed' = [p \in Peers |-> NoKey] /\ broken' = 0
    /\ UNCHANGED <<peer, chat, receive, guaranteed, removed, history, inputs>>

(* dc_apeerstate_peek_key()                                                *)
PeekKey(a) ==
    IF group = "verified" THEN verKey[a]
    ELSE IF pubKey[a] # NoKey THEN pubKey[a] ELSE gossipKey[a]

CanEncryptTo(a) == PeekKey(a) # NoKey /\ (prefer[a] = "mutual" \/ MustEncrypt)

(* One round of the loop of dc_e2ee_encrypt().                             *)
EncryptTo(a) ==
    /\ message = "loaded" /\ a \in todo
    /\ CanEncryptTo(a)
    /\ keyUsed' = [keyUsed EXCEPT ![a] = PeekKey(a)]
    /\ todo' = todo \ {a}
    /\ UNCHANGED <<peer, chat, receive, message, guaranteed, removed, rcpt, encrypt, broken, history, inputs>>

CannotEncryptTo(a) ==
    /\ message = "loaded" /\ a \in todo
    /\ ~CanEncryptTo(a)
    /\ encrypt' = 0 /\ todo' = {} /\ keyUsed' = [p \in Peers |-> NoKey]
    /\ UNCHANGED <<peer, chat, receive, message, guaranteed, removed, rcpt, broken, history, inputs>>

(* The own public key cannot be loaded or made, before the loop; or after  *)
(* it the own private key is missing or dc_pgp_pk_encrypt() fails: the     *)
(* message stays as it is.                                                 *)
EncryptFails ==
    /\ message = "loaded" /\ encrypt = 1 /\ todo \in {{}, rcpt}
    /\ encrypt' = 0 /\ todo' = {} /\ keyUsed' = [p \in Peers |-> NoKey]
    /\ broken' = 1
    /\ UNCHANGED <<peer, chat, receive, message, guaranteed, removed, rcpt, history, inputs>>

Rendered == message = "loaded" /\ todo = {}

(* "have we guaranteed encryption but cannot fulfill it for any reason?"   *)
Refuse ==
    /\ Rendered /\ guaranteed = 1 /\ encrypt = 0
    /\ message' = "failed"
    /\ UNCHANGED <<peer, chat, receive, guaranteed, removed, rcpt, todo, encrypt, keyUsed, broken, history, inputs>>

(* Mutant: what was guaranteed is not asked for when it is sent.           *)
AcceptedUnasked ==
    /\ Rendered
    /\ message' = "sent"
    /\ guaranteed' = IF encrypt = 1 /\ rcpt # {} THEN 1 ELSE guaranteed
    /\ UNCHANGED <<peer, chat, receive, removed, rcpt, todo, encrypt, keyUsed, broken, history, inputs>>

(* A message to nobody is not sent to the server.                          *)
Accepted ==
    /\ Rendered /\ (guaranteed = 1 => encrypt = 1)
    /\ message' = "sent"
    /\ guaranteed' = IF encrypt = 1 /\ rcpt # {} THEN 1 ELSE guaranteed
    /\ UNCHANGED <<peer, chat, receive, removed, rcpt, todo, encrypt, keyUsed, broken, history, inputs>>

TryAgainLater ==
    /\ Rendered /\ (guaranteed = 1 => encrypt = 1)
    /\ rcpt # {}
    /\ message' = "pending"
    /\ rcpt' = {} /\ encrypt' = 0 /\ keyUsed' = [p \in Peers |-> NoKey] /\ broken' = 0
    /\ UNCHANGED <<peer, chat, receive, guaranteed, removed, todo, history, inputs>>

-----------------------------------------------------------------------------
ReceiveMail ==
    /\ NextMail
    /\ \E h \in Incoming :
          \/ ReceiveOther(h)
          \/ \E to \in SUBSET (Peers \ {h.from}), g \in [Peers -> Keys \cup {NoKey}] :
             \E kind \in Kinds, skip \in Peers \cup {NoPeer}, sign \in Keys \cup {NoKey} :
                ReceiveGroup(h, to, g, kind, skip, sign)

ImapStep ==
    \/ StartCheck \/ NoChange \/ CreateNormal \/ ChangeNormal \/ CheckPassed \/ EndOfMail
    \/ \E a \in Peers :
          \/ UpdateGossip(a) \/ CheckGossiped(a) \/ CheckVerified(a) \/ CheckFails(a)
          \/ Fill(a) \/ Verify(a)

UserStep ==
    \/ \E g \in {"normal", "verified"} : CreateGroup(g)
    \/ \E a \in Peers : AddMember(a) \/ RemoveMember(a)
    \/ \E x \in Peers \cup {NoPeer}, enabled, last \in {0, 1} : SendMsg(x, enabled, last)

SmtpStep ==
    \/ \E enabled \in {0, 1} : LoadMsg(enabled)
    \/ \E a \in Peers : EncryptTo(a) \/ CannotEncryptTo(a)
    \/ EncryptFails \/ Refuse \/ Accepted \/ TryAgainLater

Next == ReceiveMail \/ ImapStep \/ UserStep \/ SmtpStep

Spec == Init /\ [][Next]_vars

-----------------------------------------------------------------------------
(* However the mails are reordered, a row of acpeerstates says what the    *)
(* newest ones said: the key and the preference come from one and the same *)
(* of the newest mails with a header, unless a mail without one that is    *)
(* newer still, or a handshake, has changed the preference; the gossiped   *)
(* key comes from the newest gossip, and every dated gossip leaves one.    *)
NewestMailCounts ==
    \A p \in Peers :
        /\ \A h \in headers : h.from = p => pubKey[p] # NoKey
        /\ pubKey[p] # NoKey =>
              \E h \in headers :
                /\ h.from = p /\ h.key = pubKey[p] /\ h.time = seen[p]
                /\ \A g \in headers : g.from = p => g.time <= h.time
                /\ \/ prefer[p] = h.prefer
                   \/ prefer[p] = "reset" /\ (\E x \in plains : x.from = p /\ x.time > h.time)
                   \/ prefer[p] = "mutual" /\ (\E k \in Keys : <<p, k>> \in certified)
        /\ \A g \in gossips : g.about = p => /\ HasRow(p) /\ g.time <= gossipTime[p]
                                             /\ g.time > 0 => gossipKey[p] # NoKey
        /\ gossipKey[p] # NoKey =>
              [about |-> p, time |-> gossipTime[p], key |-> gossipKey[p]] \in gossips

(* "Only secure-verified members are allowd in these groups" (dc_chat.c):  *)
(* the only way around is gossip in a mail without a valid date.           *)
GossipedUndated(p) == \E g \in gossips : g.about = p /\ g.time <= 0

(* A member of a verified group has a verified key, also while its list of *)
(* members is written again and the user adds to it, and so has whoever    *)
(* the message at hand still goes to - but for those that a mail without a *)
(* valid date has gossiped, whom check_verified_properties() lets in       *)
(* without a key.                                                          *)
MembersAreVerified ==
    group = "verified" =>
        \A a \in members \cup rcpt \cup ({removed} \ {NoPeer}) :
            verKey[a] # NoKey \/ GossipedUndated(a)

(* Whatever mails came, and whatever the user did, while a message was     *)
(* waiting and being rendered: if its encryption was guaranteed when the   *)
(* user sent it, it leaves encrypted; if it does, to a key of every        *)
(* recipient, in a verified group to one that was verified; and the only   *)
(* ones of a verified group in the clear are those the encryption itself   *)
(* has failed for, or with a recipient that is let in without a key.       *)
SentAsPromised ==
    message = "sent" =>
        /\ guaranteed = 1 => encrypt = 1
        /\ encrypt = 1 => \A a \in rcpt :
              /\ keyUsed[a] # NoKey
              /\ group = "verified" => <<a, keyUsed[a]>> \in certified
        /\ group = "verified" /\ encrypt = 0 =>
              broken = 1 \/ \E a \in rcpt : GossipedUndated(a)

-----------------------------------------------------------------------------
(* The parts of the inductive invariant of AutocryptProofs.                *)

(* What was verified is on record, a dated gossip has left a key, and any  *)
(* gossip a row.                                                           *)
PeersInv ==
    \A p \in Peers :
        /\ verKey[p] # NoKey => <<p, verKey[p]>> \in certified
        /\ pubKey[p] = NoKey => seen[p] = 0
        /\ gossipKey[p] = NoKey => gossipTime[p] = 0

(* A group gets its type with its record: there is no group that turns     *)
(* into a verified one later.                                              *)
GroupInv ==
    /\ group = "none" => /\ members = {} /\ step # "fill"
                         /\ message = "none" /\ removed = NoPeer /\ rcpt = {}
    /\ step = "check" => group # "normal"

(* Whom the loops have passed may be a member, whom they write may too.    *)
MayEnter(a) == verKey[a] # NoKey \/ GossipedUndated(a)

MailInv ==
    /\ step \in {"gossip", "check"} =>
          \A a \in Peers : helper.gossip[a] # NoKey =>
             (step = "gossip" /\ a \in left) \/ gossipKey[a] # NoKey \/ GossipedUndated(a)
    /\ step = "gossip" => \A a \in left : helper.gossip[a] # NoKey
    /\ step = "check" => verKey[mail.from] # NoKey
    /\ step = "check" => \A a \in mail.to : a \in left \/ MayEnter(a)
    /\ step = "fill" /\ group = "verified" => \A a \in left : MayEnter(a)

(* The message that is being rendered.                                     *)
RenderInv ==
    message \in {"loaded", "sent"} =>
        /\ group = "verified" /\ encrypt = 0 => broken = 1 \/ \E a \in rcpt : GossipedUndated(a)
        /\ message = "sent" => todo = {} /\ (guaranteed = 1 => encrypt = 1)
        /\ encrypt = 0 => todo = {} /\ keyUsed = [p \in Peers |-> NoKey]
        /\ encrypt = 1 => \A a \in rcpt : \/ a \in todo
                                         \/ /\ keyUsed[a] # NoKey
                                            /\ group = "verified" => <<a, keyUsed[a]>> \in certified

IInv == TypeOK /\ PeersInv /\ GroupInv /\ MailInv /\ MembersAreVerified /\ RenderInv

-----------------------------------------------------------------------------
(* The refinement: the message as its sender and its recipients see it.    *)
Status ==
    IF message \in {"pending", "loaded"} THEN "waiting" ELSE message

Outgoing ==
    [status |-> Status, promised |-> guaranteed, failed |-> broken,
     key |-> [a \in (IF message = "sent" THEN rcpt ELSE {}) |-> keyUsed[a]]]

Strays == {p \in Peers : GossipedUndated(p)}

Promise == INSTANCE VerifiedGroup WITH
    certified <- certified,
    strays    <- Strays,
    type      <- group,
    members   <- members,
    outgoing  <- Outgoing

(* However mails, rows and keys change while a mail is looked at, a list   *)
(* of members is written or a message is rendered, the group behaves as    *)
(* VerifiedGroup: nobody without a verified key gets into a verified one   *)
(* but by gossip without a date, and no message whose encryption was       *)
(* promised leaves in the clear.                                           *)
ImplementsVerifiedGroup == Promise!Spec
=============================================================================
