-------------------------- MODULE AutocryptProofs --------------------------
(***************************************************************************)
(* Theorems about Autocrypt, for any contacts, keys, dates and mails.      *)
(***************************************************************************)
EXTENDS Autocrypt, TLAPS

LEMMA MailFields ==
  ASSUME mail \in Mail
  PROVE  /\ mail.from \in Peers \cup {NoPeer} /\ mail.to \subseteq Peers
         /\ mail.kind \in Kinds /\ mail.skip \in Peers \cup {NoPeer}
BY DEF Mail

LEMMA HelperFields ==
  ASSUME helper \in Helper
  PROVE  /\ helper.time \in Int /\ helper.signature \in Keys \cup {NoKey}
         /\ helper.gossip \in [Peers -> Keys \cup {NoKey}]
BY DEF Helper

LEMMA NoMailFields ==
  /\ NoMail \in Mail /\ NoMail.from = NoPeer
  /\ NoHelper \in Helper
BY DEF NoMail, Mail, Kinds, NoHelper, Helper

LEMMA FirstHeaders ==
  ASSUME Init
  PROVE  \A p \in Met : /\ FirstHeader(p) \in headers /\ FirstHeader(p) \in Header
                        /\ pubKey[p] \in Keys /\ seen[p] = 1 /\ prefer[p] = "mutual"
<1> SUFFICES ASSUME NEW p \in Met
             PROVE  /\ FirstHeader(p) \in headers /\ FirstHeader(p) \in Header
                    /\ pubKey[p] \in Keys /\ seen[p] = 1 /\ prefer[p] = "mutual"
  OBVIOUS
<1>1. p \in Peers /\ pubKey[p] \in Keys
  BY DEF Init, Met
<1>2. FirstHeader(p) \in Header
  BY <1>1 DEF FirstHeader, Header
<1>3. QED
  BY <1>1, <1>2 DEF Init

LEMMA InitTypeOK == Init => TypeOK
<1> SUFFICES ASSUME Init PROVE TypeOK
  OBVIOUS
<1>1. headers \subseteq Header
  BY FirstHeaders DEF Init
<1>2. certified \subseteq Peers \X (Keys \cup {NoKey}) /\ verKey \in [Peers -> Keys \cup {NoKey}]
  BY DEF Init, Met
<1>3. seen \in [Peers -> Nat] /\ prefer \in [Peers -> {"nopref", "mutual", "reset"}]
  BY DEF Init
<1>4. QED
  BY <1>1, <1>2, <1>3, NoMailFields DEF Init, TypeOK

LEMMA IncomingFields ==
  ASSUME NEW h \in Incoming
  PROVE  /\ h.from \in Peers /\ h.time \in Int /\ h.key \in Keys \cup {NoKey}
         /\ h.prefer \in {"nopref", "mutual"}
         /\ h.time > 0 => [from |-> h.from, time |-> h.time] \in Plain
         /\ h.time > 0 /\ h.key # NoKey => h \in Header
<1>1. /\ h.from \in Peers /\ h.time \in Int /\ h.key \in Keys \cup {NoKey}
      /\ h.prefer \in {"nopref", "mutual"}
  BY ConstantsAssumption DEF Incoming
<1>2. h = [from |-> h.from, time |-> h.time, key |-> h.key, prefer |-> h.prefer]
  BY DEF Incoming
<1>3. QED
  BY <1>1, <1>2 DEF Header, Plain

LEMMA HeaderFields ==
  ASSUME NEW h \in Header
  PROVE  h.from \in Peers /\ h.time \in Nat /\ h.key \in Keys /\ h.prefer \in {"nopref", "mutual"}
BY DEF Header

LEMMA SenderTypeOK ==
  ASSUME TypeOK, NEW h \in Incoming, UpdateSender(h)
  PROVE  /\ pubKey' \in [Peers -> Keys \cup {NoKey}] /\ seen' \in [Peers -> Nat]
         /\ prefer' \in [Peers -> {"nopref", "mutual", "reset"}]
         /\ headers' \subseteq Header /\ plains' \subseteq Plain
<1>1. CASE h.key # NoKey /\ ApplyHeader(h)
  <2>1. headers' \subseteq Header /\ plains' = plains
    BY <1>1, IncomingFields DEF TypeOK, ApplyHeader
  <2>2. IsNewer(h) => h.time \in Nat
    <3>1. h.time \in Int
      BY IncomingFields
    <3>2. QED
      BY <3>1 DEF IsNewer
  <2>4. seen' \in [Peers -> Nat]
    BY <1>1, <2>2, IncomingFields DEF TypeOK, ApplyHeader
  <2>5. /\ pubKey' \in [Peers -> Keys \cup {NoKey}]
        /\ prefer' \in [Peers -> {"nopref", "mutual", "reset"}]
    BY <1>1, IncomingFields DEF TypeOK, ApplyHeader
  <2>6. QED
    BY <2>1, <2>4, <2>5 DEF TypeOK
<1>2. CASE Degrade(h)
  BY <1>2, IncomingFields DEF TypeOK, Degrade
<1>3. QED
  BY <1>1, <1>2 DEF UpdateSender

LEMMA DoneTypeOK ==
  ASSUME Done
  PROVE  /\ mail' \in Mail /\ helper' \in Helper /\ left' \subseteq Peers
         /\ step' = "idle" /\ mail'.from = NoPeer /\ helper' = NoHelper /\ left' = {}
BY NoMailFields DEF Done

LEMMA RecreateTypeOK ==
  ASSUME mail \in Mail, mail.from # NoPeer, Recreate
  PROVE  /\ mail' \in Mail /\ helper' \in Helper /\ left' \subseteq Peers
         /\ step' = "fill" /\ mail'.from = NoPeer /\ members' = {}
BY NoMailFields, MailFields DEF Recreate

(* The mails, and the handshake.                                           *)
LEMMA OtherTypeOK ==
  ASSUME TypeOK, NextMail, NEW h \in Incoming, ReceiveOther(h)
  PROVE  TypeOK'
<1>1. UNCHANGED <<gossipKey, gossipTime, verKey, chat, receive, send, gossips, certified>>
  BY DEF ReceiveOther
<1>2. /\ pubKey' \in [Peers -> Keys \cup {NoKey}] /\ seen' \in [Peers -> Nat]
      /\ prefer' \in [Peers -> {"nopref", "mutual", "reset"}]
      /\ headers' \subseteq Header /\ plains' \subseteq Plain
  BY SenderTypeOK DEF ReceiveOther
<1>3. QED
  BY <1>1, <1>2 DEF TypeOK, NextMail, NextInput, chat, receive, send

LEMMA VerifyTypeOK ==
  ASSUME TypeOK, NEW p \in Peers, Verify(p)
  PROVE  TypeOK'
BY DEF TypeOK, Verify, chat, receive, send

LEMMA GroupMailTypeOK ==
  ASSUME TypeOK, NextMail, NEW h \in Incoming, NEW to \in SUBSET (Peers \ {h.from}),
         NEW g \in [Peers -> Keys \cup {NoKey}], NEW kind \in Kinds,
         NEW skip \in Peers \cup {NoPeer}, NEW sign \in Keys \cup {NoKey},
         ReceiveGroup(h, to, g, kind, skip, sign)
  PROVE  /\ TypeOK' /\ mail' = [from |-> h.from, to |-> to, kind |-> kind, skip |-> skip]
         /\ helper'.time = h.time /\ helper'.gossip = g
<1> USE IncomingFields
<1>1. mail' = [from |-> h.from, to |-> to, kind |-> kind, skip |-> skip]
      /\ mail' \in Mail /\ mail'.from = h.from
  BY DEF ReceiveGroup, Mail
<1>2. helper' \in Helper /\ helper'.time = h.time /\ helper'.gossip = g
  BY DEF ReceiveGroup, Helper
<1>3. h.from # NoPeer
  BY ConstantsAssumption
<1>4. /\ UNCHANGED <<gossipKey, gossipTime, verKey, chat, send, gossips, certified>>
      /\ step' = "gossip" /\ left' \subseteq Peers
  BY DEF ReceiveGroup
<1>5. /\ pubKey' \in [Peers -> Keys \cup {NoKey}] /\ seen' \in [Peers -> Nat]
      /\ prefer' \in [Peers -> {"nopref", "mutual", "reset"}]
      /\ headers' \subseteq Header /\ plains' \subseteq Plain
  BY SenderTypeOK DEF ReceiveGroup
<1>6. QED
  BY <1>1, <1>2, <1>3, <1>4, <1>5 DEF TypeOK, NextMail, NextInput, chat, send

LEMMA ImapTypeOK == TypeOK /\ ImapStep => TypeOK'
<1> SUFFICES ASSUME TypeOK, ImapStep PROVE TypeOK'
  OBVIOUS
<1> USE DEF peer, chat, send, history
<1>1. CASE StartCheck
  BY <1>1, MailFields DEF TypeOK, StartCheck, AtGroup
<1>2. CASE NoChange
  BY <1>2, DoneTypeOK DEF TypeOK, NoChange
<1>3. CASE CreateNormal
  BY <1>3, RecreateTypeOK DEF TypeOK, CreateNormal, AtGroup
<1>4. CASE ChangeNormal
  BY <1>4, RecreateTypeOK DEF TypeOK, ChangeNormal, AtGroup
<1>5. CASE CheckPassed
  BY <1>5, RecreateTypeOK, DoneTypeOK DEF TypeOK, CheckPassed
<1>6. CASE EndOfMail
  BY <1>6, DoneTypeOK DEF TypeOK, EndOfMail
<1>7. ASSUME NEW a \in Peers, UpdateGossip(a) PROVE TypeOK'
  <2>1. helper.time \in Int /\ helper.gossip[a] \in Keys \cup {NoKey}
    BY HelperFields DEF TypeOK
  <2>2. gossips' \subseteq Gossip
    BY <1>7, <2>1 DEF TypeOK, UpdateGossip, Gossip
  <2>3. /\ gossipTime' \in [Peers -> Int] /\ gossipKey' \in [Peers -> Keys \cup {NoKey}]
        /\ left' \subseteq Peers
    BY <1>7, <2>1 DEF TypeOK, UpdateGossip
  <2>4. UNCHANGED <<pubKey, seen, prefer, verKey, chat, step, mail, helper, send,
                    headers, plains, certified, inputs>> /\ step = "gossip"
    BY <1>7 DEF UpdateGossip
  <2>5. QED
    BY <2>2, <2>3, <2>4 DEF TypeOK
<1>8. ASSUME NEW a \in Peers, CheckGossiped(a) PROVE TypeOK'
  BY <1>8 DEF TypeOK, CheckGossiped
<1>9. ASSUME NEW a \in Peers, CheckVerified(a) PROVE TypeOK'
  BY <1>9 DEF TypeOK, CheckVerified
<1>10. ASSUME NEW a \in Peers, CheckFails(a) PROVE TypeOK'
  BY <1>10, RecreateTypeOK, DoneTypeOK DEF TypeOK, CheckFails
<1>11. ASSUME NEW a \in Peers, Fill(a) PROVE TypeOK'
  BY <1>11 DEF TypeOK, Fill
<1>12. ASSUME NEW a \in Peers, Verify(a) PROVE TypeOK'
  BY <1>12, VerifyTypeOK
<1>13. QED
  BY <1>1, <1>2, <1>3, <1>4, <1>5, <1>6, <1>7, <1>8, <1>9, <1>10, <1>11, <1>12 DEF ImapStep

LEMMA UserTypeOK == TypeOK /\ UserStep => TypeOK'
<1> SUFFICES ASSUME TypeOK, UserStep PROVE TypeOK'
  OBVIOUS
<1> USE DEF peer, chat, receive, send, history
<1>1. ASSUME NEW g \in {"normal", "verified"}, CreateGroup(g) PROVE TypeOK'
  BY <1>1 DEF TypeOK, CreateGroup
<1>2. ASSUME NEW a \in Peers, AddMember(a) PROVE TypeOK'
  BY <1>2 DEF TypeOK, AddMember
<1>3. ASSUME NEW a \in Peers, RemoveMember(a) PROVE TypeOK'
  BY <1>3 DEF TypeOK, RemoveMember
<1>4. ASSUME NEW x \in Peers \cup {NoPeer}, NEW enabled \in {0, 1}, NEW last \in {0, 1},
             SendMsg(x, enabled, last)
      PROVE  TypeOK'
  BY <1>4 DEF TypeOK, SendMsg, NextInput
<1>5. QED
  BY <1>1, <1>2, <1>3, <1>4 DEF UserStep

LEMMA SmtpTypeOK == TypeOK /\ SmtpStep => TypeOK'
<1> SUFFICES ASSUME TypeOK, SmtpStep PROVE TypeOK'
  OBVIOUS
<1> USE DEF peer, chat, receive, history
<1>1. ASSUME NEW enabled \in {0, 1}, LoadMsg(enabled) PROVE TypeOK'
  BY <1>1 DEF TypeOK, LoadMsg
<1>2. ASSUME NEW a \in Peers, EncryptTo(a) PROVE TypeOK'
  BY <1>2 DEF TypeOK, EncryptTo, PeekKey
<1>3. ASSUME NEW a \in Peers, CannotEncryptTo(a) PROVE TypeOK'
  BY <1>3 DEF TypeOK, CannotEncryptTo
<1>4. CASE Refuse
  BY <1>4 DEF TypeOK, Refuse
<1>5. CASE Accepted
  BY <1>5 DEF TypeOK, Accepted
<1>6. CASE TryAgainLater
  BY <1>6 DEF TypeOK, TryAgainLater, Rendered
<1>7. CASE EncryptFails
  BY <1>7 DEF TypeOK, EncryptFails
<1>8. QED
  BY <1>1, <1>2, <1>3, <1>4, <1>5, <1>6, <1>7 DEF SmtpStep

LEMMA StepTypeOK == TypeOK /\ [Next]_vars => TypeOK'
<1> SUFFICES ASSUME TypeOK, [Next]_vars PROVE TypeOK'
  OBVIOUS
<1>1. CASE ReceiveMail
  BY <1>1, OtherTypeOK, GroupMailTypeOK DEF ReceiveMail
<1>2. CASE UNCHANGED vars
  BY <1>2 DEF TypeOK, vars, peer, chat, receive, send, history
<1>3. QED
  BY <1>1, <1>2, ImapTypeOK, UserTypeOK, SmtpTypeOK DEF Next

(* Every variable stays in its type, for any number of contacts and mails. *)
THEOREM TypeCorrect == Spec => []TypeOK
BY InitTypeOK, StepTypeOK, PTL DEF Spec

-----------------------------------------------------------------------------
(* The only actions that change a row of acpeerstates.                     *)
LEMMA PeersChange ==
  ASSUME [Next]_vars
  PROVE  \/ UNCHANGED <<peer, history>>
         \/ \E h \in Incoming : UpdateSender(h)
                                /\ UNCHANGED <<gossipKey, gossipTime, verKey, gossips, certified>>
         \/ \E a \in Peers : Verify(a) \/ UpdateGossip(a) \/ CheckGossiped(a)
<1> USE DEF peer, history
<1>1. CASE ReceiveMail
  BY <1>1 DEF ReceiveMail, ReceiveOther, ReceiveGroup
<1>2. CASE ImapStep
  BY <1>2 DEF ImapStep, StartCheck, NoChange, CreateNormal, ChangeNormal, CheckPassed, EndOfMail,
              CheckVerified, CheckFails, Fill
<1>3. CASE UserStep
  BY <1>3 DEF UserStep, CreateGroup, AddMember, RemoveMember, SendMsg
<1>4. CASE SmtpStep
  BY <1>4 DEF SmtpStep, LoadMsg, EncryptTo, CannotEncryptTo, EncryptFails, Refuse, Accepted, TryAgainLater
<1>5. CASE UNCHANGED vars
  BY <1>5 DEF vars
<1>6. QED
  BY <1>1, <1>2, <1>3, <1>4, <1>5 DEF Next

(* The row of a sender keeps its key, and has its date.                    *)
LEMMA SenderPeers ==
  ASSUME TypeOK, PeersInv, NEW h \in Incoming, UpdateSender(h), NEW p \in Peers
  PROVE  /\ pubKey'[p] = NoKey => seen'[p] = 0
         /\ pubKey[p] # NoKey => pubKey'[p] # NoKey
<1>1. CASE h.key # NoKey /\ ApplyHeader(h)
  <2>1. CASE p = h.from
    BY <1>1, <2>1, IncomingFields DEF TypeOK, PeersInv, ApplyHeader
  <2>2. CASE p # h.from
    BY <1>1, <2>2, IncomingFields DEF TypeOK, PeersInv, ApplyHeader
  <2>3. QED
    BY <2>1, <2>2
<1>2. CASE Degrade(h)
  BY <1>2 DEF Degrade, PeersInv
<1>3. QED
  BY <1>1, <1>2 DEF UpdateSender

LEMMA StepPeersInv == TypeOK /\ PeersInv /\ MailInv /\ [Next]_vars => PeersInv'
<1> SUFFICES ASSUME TypeOK, PeersInv, MailInv, [Next]_vars PROVE PeersInv'
  OBVIOUS
<1>1. CASE UNCHANGED <<peer, history>>
  BY <1>1 DEF PeersInv, peer, history
<1>2. ASSUME NEW h \in Incoming, UpdateSender(h), UNCHANGED <<gossipKey, gossipTime, verKey, certified>>
      PROVE  PeersInv'
  BY <1>2, SenderPeers DEF PeersInv
<1>3. ASSUME NEW a \in Peers, Verify(a) PROVE PeersInv'
  BY <1>3 DEF TypeOK, PeersInv, Verify
<1>4. ASSUME NEW a \in Peers, UpdateGossip(a) PROVE PeersInv'
  <2>1. gossipKey'[a] = NoKey => gossipTime'[a] = 0
    BY <1>4 DEF TypeOK, PeersInv, MailInv, UpdateGossip
  <2>2. \A p \in Peers \ {a} : gossipTime'[p] = gossipTime[p] /\ gossipKey'[p] = gossipKey[p]
    BY <1>4 DEF TypeOK, UpdateGossip
  <2>3. UNCHANGED <<pubKey, seen, verKey, certified>>
    BY <1>4 DEF UpdateGossip
  <2>4. QED
    BY <2>1, <2>2, <2>3 DEF PeersInv
<1>5. ASSUME NEW a \in Peers, CheckGossiped(a) PROVE PeersInv'
  <2>1. \A p \in Peers \ {a} : verKey'[p] = verKey[p]
    BY <1>5 DEF TypeOK, CheckGossiped
  <2>2. verKey'[a] # NoKey => <<a, verKey'[a]>> \in certified'
    BY <1>5 DEF TypeOK, PeersInv, CheckGossiped
  <2>3. UNCHANGED <<pubKey, seen, gossipKey, gossipTime>> /\ certified \subseteq certified'
    BY <1>5 DEF CheckGossiped
  <2>4. QED
    BY <2>1, <2>2, <2>3 DEF PeersInv
<1>6. QED
  BY <1>1, <1>2, <1>3, <1>4, <1>5, PeersChange

(* A contact that has a verified key keeps one, and gossip never takes a   *)
(* gossiped key away.                                                      *)
LEMMA KeysStay ==
  ASSUME TypeOK, PeersInv, MailInv, [Next]_vars
  PROVE  /\ \A p \in Peers : verKey[p] # NoKey => verKey'[p] # NoKey
         /\ \A p \in Peers : gossipKey[p] # NoKey => gossipKey'[p] # NoKey
         /\ certified \subseteq certified' /\ gossips \subseteq gossips'
<1>1. CASE UNCHANGED <<peer, history>>
  BY <1>1 DEF peer, history
<1>2. ASSUME NEW a \in Peers, Verify(a)
      PROVE  /\ \A p \in Peers : verKey[p] # NoKey => verKey'[p] # NoKey
             /\ gossipKey' = gossipKey /\ gossips' = gossips /\ certified \subseteq certified'
  BY <1>2 DEF TypeOK, Verify
<1>3. ASSUME NEW a \in Peers, UpdateGossip(a)
      PROVE  /\ \A p \in Peers : gossipKey[p] # NoKey => gossipKey'[p] # NoKey
             /\ gossips \subseteq gossips' /\ UNCHANGED <<verKey, certified>>
  BY <1>3 DEF TypeOK, MailInv, UpdateGossip
<1>4. ASSUME NEW a \in Peers, CheckGossiped(a)
      PROVE  /\ \A p \in Peers : verKey[p] # NoKey => verKey'[p] # NoKey
             /\ gossipKey' = gossipKey /\ gossips' = gossips /\ certified \subseteq certified'
  BY <1>4 DEF TypeOK, CheckGossiped
<1>5. QED
  BY <1>1, <1>2, <1>3, <1>4, PeersChange

LEMMA MayEnterStays ==
  ASSUME TypeOK, PeersInv, MailInv, [Next]_vars, NEW a \in Peers
  PROVE  /\ GossipedUndated(a) => GossipedUndated(a)'
         /\ MayEnter(a) => MayEnter(a)'
BY KeysStay DEF MayEnter, GossipedUndated

LEMMA StepGroupInv == TypeOK /\ GroupInv /\ [Next]_vars => GroupInv'
<1> SUFFICES ASSUME TypeOK, GroupInv, [Next]_vars PROVE GroupInv'
  OBVIOUS
<1> USE DEF GroupInv, chat, send
<1>1. CASE ReceiveMail
  BY <1>1 DEF ReceiveMail, NextMail, ReceiveOther, ReceiveGroup, receive
<1>2. CASE ImapStep
  BY <1>2 DEF TypeOK, ImapStep, StartCheck, NoChange, CreateNormal, ChangeNormal, CheckPassed, EndOfMail,
              UpdateGossip, CheckGossiped, CheckVerified, CheckFails, Fill, Verify,
              AtGroup, Done, Recreate, receive
<1>3. CASE UserStep
  BY <1>3 DEF TypeOK, UserStep, CreateGroup, AddMember, RemoveMember, SendMsg, receive
<1>4. CASE SmtpStep
  BY <1>4 DEF SmtpStep, LoadMsg, EncryptTo, CannotEncryptTo, EncryptFails, Refuse, Accepted, TryAgainLater,
              Rendered, receive
<1>5. CASE UNCHANGED vars
  BY <1>5 DEF vars, receive
<1>6. QED
  BY <1>1, <1>2, <1>3, <1>4, <1>5 DEF Next

LEMMA StepMailInv ==
  TypeOK /\ PeersInv /\ GroupInv /\ MailInv /\ [Next]_vars => MailInv'
<1> SUFFICES ASSUME TypeOK, PeersInv, GroupInv, MailInv, [Next]_vars PROVE MailInv'
  OBVIOUS
<1>a. /\ \A p \in Peers : verKey[p] # NoKey => verKey'[p] # NoKey
      /\ \A p \in Peers : gossipKey[p] # NoKey => gossipKey'[p] # NoKey
      /\ \A p \in Peers : MayEnter(p) => MayEnter(p)'
      /\ \A p \in Peers : GossipedUndated(p) => GossipedUndated(p)'
  BY KeysStay, MayEnterStays
<1>b. ASSUME UNCHANGED receive, group' = group PROVE MailInv'
  <2>1. step \in {"gossip", "check"} => mail.from \in Peers /\ mail.to \subseteq Peers
    BY MailFields DEF TypeOK
  <2>2. left \subseteq Peers
    BY DEF TypeOK
  <2>3. QED
    BY <1>a, <1>b, <2>1, <2>2 DEF MailInv, receive
<1>1. ASSUME NextMail, NEW h \in Incoming, NEW to \in SUBSET (Peers \ {h.from}),
             NEW g \in [Peers -> Keys \cup {NoKey}], NEW kind \in Kinds,
             NEW skip \in Peers \cup {NoPeer}, NEW sign \in Keys \cup {NoKey},
             ReceiveGroup(h, to, g, kind, skip, sign)
      PROVE  MailInv'
  <2>1. helper'.gossip = g
    BY <1>1, GroupMailTypeOK
  <2>2. step' = "gossip" /\ left' = {a \in to : g[a] # NoKey}
        /\ \A a \in Peers : g[a] # NoKey => a \in to
    BY <1>1 DEF ReceiveGroup
  <2>3. QED
    BY <2>1, <2>2 DEF MailInv
<1>2. CASE StartCheck
  <2>1. verKey[mail.from] # NoKey
    BY <1>2 DEF StartCheck, SenderIsVerified
  <2>2. /\ step = "gossip" /\ left = {} /\ step' = "check" /\ left' = mail.to
        /\ UNCHANGED <<verKey, gossipKey, gossips, mail, helper>>
    BY <1>2 DEF StartCheck, AtGroup, peer, history
  <2>3. QED
    BY <2>1, <2>2 DEF MailInv, GossipedUndated
<1>3. ASSUME Done PROVE MailInv'
  BY <1>3, DoneTypeOK DEF MailInv
<1>4. ASSUME Recreate, group' = "verified" => \A a \in left' : MayEnter(a)' PROVE MailInv'
  BY <1>4 DEF MailInv, Recreate
<1>5. CASE NoChange \/ EndOfMail
  BY <1>5, <1>3 DEF NoChange, EndOfMail
<1>6. CASE CreateNormal \/ ChangeNormal
  BY <1>6, <1>4 DEF CreateNormal, ChangeNormal, AtGroup
<1>7. CASE CheckPassed
  <2>1. ASSUME Recreate PROVE \A a \in left' : MayEnter(a)'
    <3>1. /\ \A a \in left' : a = mail.from \/ a \in mail.to
          /\ step = "check" /\ left = {} /\ verKey[mail.from] # NoKey
          /\ \A a \in mail.to : MayEnter(a)
      BY <1>7, <2>1 DEF CheckPassed, Recreate, MailInv
    <3>2. MayEnter(mail.from) /\ UNCHANGED <<verKey, gossips>>
      BY <1>7, <3>1 DEF CheckPassed, MayEnter, peer, history
    <3>3. QED
      BY <3>1, <3>2 DEF MayEnter, GossipedUndated
  <2>2. QED
    BY <1>7, <1>3, <1>4, <2>1 DEF CheckPassed
<1>8. ASSUME NEW a \in Peers, UpdateGossip(a) PROVE MailInv'
  <2>1. gossipKey'[a] # NoKey \/ GossipedUndated(a)'
    <3>1. /\ helper.time \in Int /\ gossipTime[a] \in Int /\ helper.gossip[a] # NoKey
          /\ [about |-> a, time |-> helper.time, key |-> helper.gossip[a]] \in gossips'
      BY <1>8, HelperFields DEF TypeOK, MailInv, UpdateGossip
    <3>2. CASE helper.time > gossipTime[a]
      BY <1>8, <3>1, <3>2 DEF TypeOK, UpdateGossip
    <3>3. CASE helper.time <= 0
      BY <3>1, <3>3 DEF GossipedUndated
    <3>4. CASE ~(helper.time > gossipTime[a]) /\ helper.time > 0
      <4>1. gossipTime[a] # 0
        BY <3>1, <3>4
      <4>2. gossipKey[a] # NoKey
        BY <4>1 DEF PeersInv
      <4>3. gossipKey'[a] # NoKey
        BY <1>a, <4>2
      <4>4. QED
        BY <4>3
    <3>5. QED
      BY <3>1, <3>2, <3>3, <3>4
  <2>2. step = "gossip" /\ left' = left \ {a} /\ UNCHANGED <<step, mail, helper>>
    BY <1>8 DEF UpdateGossip
  <2>3. QED
    BY <1>a, <2>1, <2>2 DEF MailInv
<1>9. ASSUME NEW a \in Peers, CheckGossiped(a) \/ CheckVerified(a) PROVE MailInv'
  <2>1. MayEnter(a)'
    <3>1. CASE CheckGossiped(a)
      <4>1. gossipKey[a] # NoKey \/ GossipedUndated(a)
        BY <3>1 DEF CheckGossiped, MarkVerified, IsGossiped, MailInv
      <4>2. CASE gossipKey[a] # NoKey
        BY <3>1, <4>2 DEF CheckGossiped, MayEnter, TypeOK
      <4>3. CASE GossipedUndated(a)
        BY <1>a, <4>3 DEF MayEnter
      <4>4. QED
        BY <4>1, <4>2, <4>3
    <3>2. CASE CheckVerified(a)
      BY <1>a, <3>2 DEF CheckVerified, MayEnter
    <3>3. QED
      BY <1>9, <3>1, <3>2
  <2>2. step = "check" /\ left' = left \ {a} /\ UNCHANGED <<step, mail, helper>>
    BY <1>9 DEF CheckGossiped, CheckVerified
  <2>3. mail.from \in Peers /\ mail.to \subseteq Peers
    BY <2>2, MailFields DEF TypeOK
  <2>4. QED
    BY <1>a, <2>1, <2>2, <2>3 DEF MailInv
<1>10. ASSUME NEW a \in Peers, CheckFails(a) PROVE MailInv'
  BY <1>10, <1>3, <1>4 DEF CheckFails
<1>11. ASSUME NEW a \in Peers, Fill(a) PROVE MailInv'
  BY <1>11 DEF Fill, MailInv, MayEnter, GossipedUndated, peer, history
<1>12. CASE UserStep
  <2>1. ASSUME NEW g \in {"normal", "verified"}, CreateGroup(g) PROVE MailInv'
    BY <2>1 DEF CreateGroup, MailInv, receive
  <2>2. ASSUME ~ \E g \in {"normal", "verified"} : CreateGroup(g) PROVE MailInv'
    BY <1>b, <1>12, <2>2 DEF UserStep, AddMember, RemoveMember, SendMsg, chat
  <2>3. QED
    BY <2>1, <2>2
<1>13. CASE SmtpStep
  BY <1>b, <1>13 DEF SmtpStep, LoadMsg, EncryptTo, CannotEncryptTo, EncryptFails, Refuse, Accepted, TryAgainLater, chat
<1>14. CASE UNCHANGED vars
  BY <1>b, <1>14 DEF vars, chat
<1>15. CASE ReceiveMail
  <2>1. ASSUME NEW h \in Incoming, ReceiveOther(h) PROVE MailInv'
    BY <1>b, <2>1 DEF ReceiveOther, chat
  <2>2. QED
    BY <1>1, <1>15, <2>1 DEF ReceiveMail
<1>16. ASSUME NEW a \in Peers, Verify(a) PROVE MailInv'
  BY <1>b, <1>16 DEF Verify, chat
<1>17. CASE ImapStep
  BY <1>2, <1>5, <1>6, <1>7, <1>8, <1>9, <1>10, <1>11, <1>16, <1>17 DEF ImapStep
<1>18. QED
  BY <1>12, <1>13, <1>14, <1>15, <1>17 DEF Next

LEMMA StepMembersAreVerified == IInv /\ [Next]_vars => MembersAreVerified'
<1> SUFFICES ASSUME IInv, [Next]_vars, group' = "verified",
                    NEW a \in members' \cup rcpt' \cup ({removed'} \ {NoPeer})
             PROVE  MayEnter(a)'
  BY DEF MembersAreVerified, MayEnter, GossipedUndated
<1>a. TypeOK' /\ a \in Peers
  BY StepTypeOK DEF IInv, TypeOK
<1>b. MayEnter(a) => MayEnter(a)'
  BY <1>a, MayEnterStays DEF IInv
<1>c. ASSUME group = "verified",
             members' \cup rcpt' \cup ({removed'} \ {NoPeer})
             \subseteq members \cup rcpt \cup ({removed} \ {NoPeer})
      PROVE  MayEnter(a)'
  BY <1>b, <1>c DEF IInv, MembersAreVerified, MayEnter
<1> USE DEF chat, send
<1>1. CASE ReceiveMail
  BY <1>1, <1>c DEF ReceiveMail, ReceiveOther, ReceiveGroup
<1>2. CASE UserStep
  <2>1. ASSUME NEW p \in Peers, AddMember(p) PROVE MayEnter(a)'
    BY <2>1, <1>b DEF AddMember, IInv, MembersAreVerified, MayEnter
  <2>2. ASSUME NEW x \in Peers \cup {NoPeer}, NEW enabled \in {0, 1}, NEW last \in {0, 1},
               SendMsg(x, enabled, last)
        PROVE  MayEnter(a)'
    BY <2>2, <1>c DEF SendMsg
  <2>3. ASSUME NEW p \in Peers, RemoveMember(p) PROVE MayEnter(a)'
    BY <2>3, <1>c DEF RemoveMember
  <2>4. ASSUME NEW g \in {"normal", "verified"}, CreateGroup(g) PROVE MayEnter(a)'
    BY <2>4 DEF CreateGroup, IInv, GroupInv
  <2>5. QED
    BY <1>2, <2>1, <2>2, <2>3, <2>4 DEF UserStep
<1>3. CASE SmtpStep
  BY <1>3, <1>c DEF SmtpStep, LoadMsg, EncryptTo, CannotEncryptTo, EncryptFails, Refuse, Accepted, TryAgainLater
<1>4. CASE UNCHANGED vars
  BY <1>4, <1>c DEF vars
<1>5. CASE ImapStep
  <2>1. ASSUME NEW p \in Peers, Fill(p) PROVE MayEnter(a)'
    BY <1>b, <2>1 DEF Fill, IInv, MailInv, MembersAreVerified, MayEnter
  <2>2. CASE CheckPassed
    <3>1. group \in {"none", "verified"} /\ UNCHANGED <<rcpt, removed>>
      BY <2>2 DEF CheckPassed, IInv, GroupInv, TypeOK
    <3>2. CASE group = "none"
      <4>1. members' = {} /\ rcpt' = {} /\ removed' = NoPeer
        BY <2>2, <3>1, <3>2 DEF CheckPassed, Recreate, IInv, GroupInv
      <4>2. QED
        BY <4>1
    <3>3. CASE group = "verified"
      <4>1. members' \subseteq members
        BY <2>2 DEF CheckPassed, Recreate
      <4>2. QED
        BY <1>c, <3>1, <3>3, <4>1
    <3>4. QED
      BY <3>1, <3>2, <3>3
  <2>3. CASE CreateNormal \/ ChangeNormal
    BY <2>3 DEF CreateNormal, ChangeNormal
  <2>4. ASSUME NEW p \in Peers, CheckFails(p) PROVE MayEnter(a)'
    BY <1>c, <2>4 DEF CheckFails
  <2>5. CASE StartCheck \/ NoChange \/ EndOfMail
    BY <1>c, <2>5 DEF StartCheck, NoChange, EndOfMail
  <2>6. ASSUME NEW p \in Peers, UpdateGossip(p) \/ CheckGossiped(p) \/ CheckVerified(p) \/ Verify(p)
        PROVE  MayEnter(a)'
    BY <1>c, <2>6 DEF UpdateGossip, CheckGossiped, CheckVerified, Verify
  <2>7. QED
    BY <1>5, <2>1, <2>2, <2>3, <2>4, <2>5, <2>6 DEF ImapStep
<1>6. QED
  BY <1>1, <1>2, <1>3, <1>4, <1>5 DEF Next

(* Nothing but the SMTP thread touches a message that is being rendered,   *)
(* and no group becomes a verified one under it.                           *)
LEMMA StepRenderInv == IInv /\ [Next]_vars => RenderInv'
<1> SUFFICES ASSUME IInv, [Next]_vars PROVE RenderInv'
  OBVIOUS
<1>a. /\ TypeOK /\ TypeOK' /\ certified \subseteq certified'
      /\ \A p \in Peers : GossipedUndated(p) => GossipedUndated(p)'
  BY StepTypeOK, KeysStay, MayEnterStays DEF IInv
<1>b. ASSUME UNCHANGED send, group' = "verified" => (group = "verified" \/ message = "none")
      PROVE  RenderInv'
  BY <1>a, <1>b DEF IInv, RenderInv, TypeOK, send
<1>c. ASSUME message' \notin {"loaded", "sent"} PROVE RenderInv'
  BY <1>c DEF RenderInv
<1>1. CASE ReceiveMail
  BY <1>1, <1>b DEF ReceiveMail, ReceiveOther, ReceiveGroup, chat
<1>2. CASE ImapStep
  <2>1. UNCHANGED send
    BY <1>2 DEF ImapStep, StartCheck, NoChange, CreateNormal, ChangeNormal, CheckPassed, EndOfMail,
                UpdateGossip, CheckGossiped, CheckVerified, CheckFails, Fill, Verify
  <2>2. CASE CheckPassed
    BY <1>b, <2>1, <2>2 DEF CheckPassed, IInv, GroupInv, TypeOK
  <2>3. CASE ~CheckPassed
    BY <1>2, <1>b, <2>1, <2>3 DEF ImapStep, StartCheck, NoChange, CreateNormal, ChangeNormal, EndOfMail,
                UpdateGossip, CheckGossiped, CheckVerified, CheckFails, Fill, Verify, chat
  <2>4. QED
    BY <2>2, <2>3
<1>3. CASE UserStep
  BY <1>3, <1>b, <1>c DEF UserStep, CreateGroup, AddMember, RemoveMember, SendMsg, IInv, GroupInv
<1>4. ASSUME NEW enabled \in {0, 1}, LoadMsg(enabled) PROVE RenderInv'
  BY <1>4 DEF LoadMsg, MustEncrypt, RenderInv, chat
<1>5. ASSUME NEW p \in Peers, EncryptTo(p) PROVE RenderInv'
  <2>1. /\ message = "loaded" /\ p \in todo /\ todo' = todo \ {p}
        /\ keyUsed' = [keyUsed EXCEPT ![p] = PeekKey(p)] /\ PeekKey(p) # NoKey
        /\ UNCHANGED <<group, message, guaranteed, rcpt, encrypt, certified, verKey>>
    BY <1>5 DEF EncryptTo, CanEncryptTo, chat, history, peer
  <2>2. group = "verified" => <<p, PeekKey(p)>> \in certified
    BY <2>1 DEF PeekKey, IInv, PeersInv
  <2>3. keyUsed'[p] = PeekKey(p) /\ \A q \in Peers \ {p} : keyUsed'[q] = keyUsed[q]
    BY <2>1, <1>a DEF TypeOK
  <2>4. QED
    BY <1>a, <2>1, <2>2, <2>3 DEF IInv, RenderInv, TypeOK
<1>6. ASSUME NEW p \in Peers, CannotEncryptTo(p) PROVE RenderInv'
  <2>1. group = "verified" => GossipedUndated(p)' /\ p \in rcpt
    BY <1>a, <1>6 DEF CannotEncryptTo, CanEncryptTo, PeekKey, MustEncrypt, IInv, TypeOK, MembersAreVerified
  <2>2. /\ message' = "loaded" /\ todo' = {} /\ encrypt' = 0 /\ keyUsed' = [q \in Peers |-> NoKey]
        /\ UNCHANGED <<group, rcpt>>
    BY <1>6 DEF CannotEncryptTo, chat
  <2>3. QED
    BY <2>1, <2>2 DEF RenderInv
<1>11. CASE EncryptFails
  BY <1>11 DEF EncryptFails, RenderInv, chat
<1>7. CASE Refuse \/ TryAgainLater
  BY <1>7, <1>c DEF Refuse, TryAgainLater
<1>8. CASE Accepted
  <2>1. /\ message = "loaded" /\ todo = {} /\ (guaranteed = 1 => encrypt = 1)
        /\ guaranteed' = IF encrypt = 1 /\ rcpt # {} THEN 1 ELSE guaranteed
        /\ UNCHANGED <<group, rcpt, todo, encrypt, keyUsed, broken, certified>>
    BY <1>8 DEF Accepted, Rendered, chat, history
  <2>2. /\ group = "verified" /\ encrypt = 0 => broken = 1 \/ \E a \in rcpt : GossipedUndated(a)'
        /\ encrypt = 0 => keyUsed = [q \in Peers |-> NoKey]
        /\ encrypt = 1 => \A a \in rcpt : /\ keyUsed[a] # NoKey
                                          /\ group = "verified" => <<a, keyUsed[a]>> \in certified
    BY <1>a, <2>1 DEF IInv, RenderInv, TypeOK
  <2>3. guaranteed' = 1 => encrypt = 1
    BY <2>1
  <2>4. QED
    BY <2>1, <2>2, <2>3 DEF RenderInv
<1>9. CASE UNCHANGED vars
  BY <1>9, <1>b DEF vars, chat
<1>12. QED
  BY <1>1, <1>2, <1>3, <1>4, <1>5, <1>6, <1>7, <1>8, <1>9, <1>11 DEF Next, SmtpStep

THEOREM InductiveInvariant == Spec => []IInv
<1>1. Init => IInv
  <2>1. Init => PeersInv
    BY DEF Init, Met, PeersInv
  <2>2. QED
    BY <2>1, InitTypeOK DEF Init, IInv, GroupInv, MailInv, MembersAreVerified, RenderInv
<1>2. IInv /\ [Next]_vars => IInv'
  <2> SUFFICES ASSUME IInv, [Next]_vars PROVE IInv'
    OBVIOUS
  <2>1. TypeOK' /\ PeersInv' /\ GroupInv' /\ MailInv'
    BY StepTypeOK, StepPeersInv, StepGroupInv, StepMailInv DEF IInv
  <2>2. QED
    BY <2>1, StepMembersAreVerified, StepRenderInv DEF IInv
<1>3. QED
  BY <1>1, <1>2, PTL DEF Spec

-----------------------------------------------------------------------------
(* Of one contact: its rows say what its newest mails said.                *)
HeaderCounts(p) ==
    /\ \A h \in headers : h.from = p => pubKey[p] # NoKey /\ h.time <= seen[p]
    /\ pubKey[p] # NoKey =>
          \E h \in headers :
            /\ h.from = p /\ h.key = pubKey[p] /\ h.time = seen[p]
            /\ \/ prefer[p] = h.prefer
               \/ prefer[p] = "reset" /\ (\E x \in plains : x.from = p /\ x.time > h.time)
               \/ prefer[p] = "mutual" /\ (\E k \in Keys : <<p, k>> \in certified)

GossipCounts(p) ==
    /\ \A g \in gossips : g.about = p => /\ HasRow(p) /\ g.time <= gossipTime[p]
                                         /\ g.time > 0 => gossipKey[p] # NoKey
    /\ gossipKey[p] # NoKey =>
          [about |-> p, time |-> gossipTime[p], key |-> gossipKey[p]] \in gossips

CountsInv == \A p \in Peers : HeaderCounts(p) /\ GossipCounts(p)

LEMMA DegradeCounts ==
  ASSUME TypeOK, NEW p \in Peers, HeaderCounts(p), NEW h \in Incoming, Degrade(h),
         UNCHANGED certified
  PROVE  HeaderCounts(p)'
<1>1. UNCHANGED <<pubKey, seen, headers, certified>> /\ plains \subseteq plains'
  BY DEF Degrade
<1>2. CASE prefer'[p] = prefer[p]
  BY <1>1, <1>2 DEF HeaderCounts
<1>3. CASE prefer'[p] # prefer[p]
  <2>1. /\ p = h.from /\ h.time > seen[p] /\ prefer'[p] = "reset"
        /\ [from |-> p, time |-> h.time] \in plains'
    BY <1>3 DEF Degrade, IsNewer, TypeOK
  <2>2. \E x \in plains' : x.from = p /\ x.time > seen[p]
    BY <2>1
  <2>3. QED
    BY <1>1, <2>1, <2>2 DEF HeaderCounts
<1>4. QED
  BY <1>2, <1>3

LEMMA ApplyHeaderCounts ==
  ASSUME TypeOK, PeersInv, NEW p \in Peers, HeaderCounts(p), NEW h \in Incoming, h.key # NoKey,
         ApplyHeader(h), UNCHANGED certified
  PROVE  HeaderCounts(p)'
<1>1. /\ headers' = IF h.time > 0 THEN headers \cup {h} ELSE headers
      /\ \A x \in headers : x.time \in Nat
      /\ UNCHANGED plains
  BY HeaderFields DEF ApplyHeader, TypeOK
<1>2. h.from \in Peers /\ h.time \in Int /\ h.key \in Keys /\ seen[p] \in Nat
  BY IncomingFields DEF TypeOK
<1>3. CASE p = h.from /\ IsNewer(h)
  <2>1. pubKey'[p] = h.key /\ seen'[p] = h.time /\ prefer'[p] = h.prefer /\ h.key # NoKey
    BY <1>2, <1>3 DEF ApplyHeader, TypeOK
  <2>2. \A x \in headers : x.from = p => x.time <= h.time
    BY <1>1, <1>2, <1>3 DEF HeaderCounts, IsNewer
  <2>3. headers' = headers \cup {h}
    BY <1>1, <1>3 DEF IsNewer
  <2>4. QED
    BY <1>2, <1>3, <2>1, <2>2, <2>3 DEF HeaderCounts
<1>4. CASE ~(p = h.from /\ IsNewer(h))
  <2>1. pubKey'[p] = pubKey[p] /\ seen'[p] = seen[p] /\ prefer'[p] = prefer[p]
    BY <1>4 DEF ApplyHeader, TypeOK
  <2>2. ASSUME p = h.from, h.time > 0 PROVE h.time <= seen[p] /\ pubKey[p] # NoKey
    <3>1. h.time <= seen[p] /\ seen[p] # 0
      BY <1>2, <1>4, <2>2 DEF IsNewer
    <3>2. QED
      BY <3>1 DEF PeersInv
  <2>3. \A x \in headers' : x.from = p => pubKey[p] # NoKey /\ x.time <= seen[p]
    BY <1>1, <2>2 DEF HeaderCounts
  <2>4. headers \subseteq headers'
    BY <1>1
  <2>5. QED
    BY <1>1, <2>1, <2>3, <2>4 DEF HeaderCounts
<1>5. QED
  BY <1>3, <1>4

(* The row of a sender stays a row.                                        *)
LEMMA SenderGossipCounts ==
  ASSUME TypeOK, PeersInv, NEW p \in Peers, GossipCounts(p), NEW h \in Incoming, UpdateSender(h),
         UNCHANGED <<gossipKey, gossipTime, gossips>>
  PROVE  GossipCounts(p)'
<1>1. HasRow(p) => HasRow(p)'
  BY SenderPeers DEF HasRow
<1>2. QED
  BY <1>1 DEF GossipCounts

LEMMA VerifyCounts ==
  ASSUME TypeOK, NEW p \in Peers, HeaderCounts(p), NEW a \in Peers, Verify(a)
  PROVE  HeaderCounts(p)'
<1>1. UNCHANGED <<pubKey, seen, headers, plains>> /\ certified \subseteq certified'
  BY DEF Verify
<1>2. CASE p = a
  <2>1. prefer'[p] = "mutual" /\ pubKey[p] \in Keys /\ <<p, pubKey[p]>> \in certified'
    BY <1>2 DEF Verify, TypeOK
  <2>2. QED
    BY <1>1, <2>1 DEF HeaderCounts
<1>3. CASE p # a
  <2>1. prefer'[p] = prefer[p]
    BY <1>3 DEF Verify, TypeOK
  <2>2. QED
    BY <1>1, <2>1 DEF HeaderCounts
<1>4. QED
  BY <1>2, <1>3

LEMMA GossipUpdateCounts ==
  ASSUME TypeOK, PeersInv, MailInv, NEW p \in Peers, GossipCounts(p), NEW a \in Peers,
         UpdateGossip(a)
  PROVE  GossipCounts(p)'
<1> DEFINE g == [about |-> a, time |-> helper.time, key |-> helper.gossip[a]]
<1>1. gossips' = gossips \cup {g} /\ g.about = a /\ g.time = helper.time
  BY DEF UpdateGossip
<1>2. /\ helper.time \in Int /\ gossipTime[p] \in Int
      /\ helper.gossip[a] # NoKey /\ \A x \in gossips : x.time \in Int
  BY HelperFields DEF TypeOK, MailInv, UpdateGossip, Gossip
<1>3. CASE p # a
  <2>1. gossipKey'[p] = gossipKey[p] /\ gossipTime'[p] = gossipTime[p] /\ pubKey' = pubKey
    BY <1>3 DEF UpdateGossip, TypeOK
  <2>2. QED
    BY <1>1, <1>3, <2>1 DEF GossipCounts, HasRow
<1>4. CASE p = a /\ (~HasRow(a) \/ helper.time > gossipTime[a])
  <2>1. gossipKey'[p] = helper.gossip[a] /\ gossipTime'[p] = helper.time
    BY <1>4 DEF UpdateGossip, TypeOK
  <2>2. \A x \in gossips : x.about = p => x.time <= helper.time
    BY <1>2, <1>4 DEF GossipCounts
  <2>3. [about |-> p, time |-> gossipTime'[p], key |-> gossipKey'[p]] \in gossips'
    BY <1>1, <1>4, <2>1
  <2>4. QED
    BY <1>1, <1>2, <2>1, <2>2, <2>3 DEF GossipCounts, HasRow
<1>5. CASE p = a /\ HasRow(a) /\ ~(helper.time > gossipTime[a])
  <2>1. gossipKey'[p] = gossipKey[p] /\ gossipTime'[p] = gossipTime[p] /\ pubKey' = pubKey
    BY <1>5 DEF UpdateGossip, TypeOK
  <2>2. helper.time <= gossipTime[p]
    BY <1>2, <1>5
  <2>3. ASSUME helper.time > 0 PROVE gossipKey[p] # NoKey
    <3>1. gossipTime[p] # 0
      BY <1>2, <2>2, <2>3
    <3>2. QED
      BY <3>1 DEF PeersInv
  <2>4. QED
    BY <1>1, <1>5, <2>1, <2>2, <2>3 DEF GossipCounts, HasRow
<1>6. QED
  BY <1>3, <1>4, <1>5

LEMMA StepCounts == IInv /\ CountsInv /\ [Next]_vars => CountsInv'
<1> SUFFICES ASSUME IInv, [Next]_vars, NEW p \in Peers, HeaderCounts(p), GossipCounts(p)
             PROVE  HeaderCounts(p)' /\ GossipCounts(p)'
  BY DEF CountsInv
<1>a. TypeOK /\ PeersInv /\ MailInv
  BY DEF IInv
<1>1. CASE UNCHANGED <<peer, history>>
  BY <1>1 DEF HeaderCounts, GossipCounts, HasRow, peer, history
<1>2. ASSUME NEW h \in Incoming, UpdateSender(h),
             UNCHANGED <<gossipKey, gossipTime, verKey, gossips, certified>>
      PROVE  HeaderCounts(p)' /\ GossipCounts(p)'
  BY <1>a, <1>2, DegradeCounts, ApplyHeaderCounts, SenderGossipCounts DEF UpdateSender
<1>4. ASSUME NEW a \in Peers, Verify(a) PROVE HeaderCounts(p)' /\ GossipCounts(p)'
  <2>1. UNCHANGED <<pubKey, gossipKey, gossipTime, gossips>>
    BY <1>4 DEF Verify
  <2>2. QED
    BY <1>a, <1>4, <2>1, VerifyCounts DEF GossipCounts, HasRow
<1>5. ASSUME NEW a \in Peers, UpdateGossip(a) PROVE HeaderCounts(p)' /\ GossipCounts(p)'
  <2>1. UNCHANGED <<pubKey, seen, prefer, headers, plains, certified>>
    BY <1>5 DEF UpdateGossip
  <2>2. QED
    BY <1>a, <1>5, <2>1, GossipUpdateCounts DEF HeaderCounts
<1>6. ASSUME NEW a \in Peers, CheckGossiped(a) PROVE HeaderCounts(p)' /\ GossipCounts(p)'
  <2>1. /\ UNCHANGED <<pubKey, seen, prefer, headers, plains>> /\ certified \subseteq certified'
        /\ UNCHANGED <<gossipKey, gossipTime, gossips>>
    BY <1>6 DEF CheckGossiped
  <2>2. QED
    BY <2>1 DEF HeaderCounts, GossipCounts, HasRow
<1>7. QED
  BY <1>1, <1>2, <1>4, <1>5, <1>6, PeersChange

(* The rows of acpeerstates say what the newest mails said, however the    *)
(* mails are reordered, for any number of them.                            *)
THEOREM RowsAreNewest == Spec => []NewestMailCounts
<1>1. Init => CountsInv
  <2> SUFFICES ASSUME Init, NEW p \in Peers PROVE HeaderCounts(p) /\ GossipCounts(p)
    BY DEF CountsInv
  <2>1. GossipCounts(p)
    BY DEF Init, GossipCounts
  <2>2. \A h \in headers : \E f \in Met : h = FirstHeader(f)
    BY DEF Init
  <2>3. \A h \in headers : h.from = p => p \in Met /\ h.time = 1
    BY <2>2 DEF FirstHeader
  <2>4. ASSUME p \in Met PROVE HeaderCounts(p)
    <3>1. /\ FirstHeader(p).from = p /\ FirstHeader(p).key = pubKey[p]
          /\ FirstHeader(p).time = 1 /\ FirstHeader(p).prefer = "mutual"
      BY DEF FirstHeader
    <3>2. FirstHeader(p) \in headers /\ seen[p] = 1 /\ prefer[p] = "mutual" /\ pubKey[p] # NoKey
      BY <2>4, FirstHeaders, ConstantsAssumption
    <3>3. QED
      BY <2>3, <3>1, <3>2 DEF HeaderCounts
  <2>5. ASSUME p \notin Met PROVE HeaderCounts(p)
    BY <2>3, <2>5 DEF HeaderCounts, Met
  <2>6. QED
    BY <2>1, <2>4, <2>5
<1>2. TypeOK /\ CountsInv => NewestMailCounts
  BY DEF TypeOK, CountsInv, HeaderCounts, GossipCounts, NewestMailCounts
<1>3. IInv => TypeOK
  BY DEF IInv
<1>4. QED
  BY <1>1, <1>2, <1>3, StepCounts, InductiveInvariant, PTL DEF Spec

(* Every member of a verified group is verified, and whoever the message   *)
(* at hand goes to, but for the contacts that a mail without a valid date  *)
(* has gossiped.                                                           *)
THEOREM OnlyVerifiedMembers == Spec => []MembersAreVerified
BY InductiveInvariant, PTL DEF IInv

(* A message whose encryption was guaranteed is encrypted, and one that is *)
(* has a key of every recipient, a verified one in a verified group; there *)
(* the clear takes a failed encryption or a contact gossiped without a     *)
(* date.                                                                   *)
THEOREM PromiseIsKept == Spec => []SentAsPromised
<1>1. IInv => SentAsPromised
  BY DEF IInv, TypeOK, RenderInv, SentAsPromised
<1>2. QED
  BY <1>1, InductiveInvariant, PTL

-----------------------------------------------------------------------------
(* The refinement of VerifiedGroup.  What is not on its way or sent yet    *)
(* has nobody's key.                                                       *)
LEMMA OutgoingUnsent ==
  ASSUME message # "sent"
  PROVE  Outgoing = Promise!Message(Status, guaranteed, broken, Promise!ToNobody)
<1>1. [a \in (IF message = "sent" THEN rcpt ELSE {}) |-> keyUsed[a]] = [a \in {} |-> NoKey]
  OBVIOUS
<1>2. QED
  BY <1>1 DEF Outgoing, Promise!Message, Promise!ToNobody

(* The steps of the threads the abstract group does not see.               *)
LEMMA OutgoingStays ==
  ASSUME UNCHANGED send
  PROVE  Outgoing' = Outgoing
BY DEF send, Outgoing, Status

LEMMA StraysStay ==
  ASSUME UNCHANGED gossips
  PROVE  Strays' = Strays
BY DEF Strays, GossipedUndated

LEMMA NothingPromised ==
  ASSUME UNCHANGED <<certified, gossips, chat, send>>
  PROVE  UNCHANGED Promise!vars
BY OutgoingStays, StraysStay DEF Promise!vars, chat

(* Who may enter is trusted or a stray.                                    *)
LEMMA WhoMayEnter ==
  ASSUME TypeOK, PeersInv, NEW a \in Peers, MayEnter(a)
  PROVE  a \in Promise!Trusted \cup Strays
<1>1. CASE verKey[a] # NoKey
  <2>1. verKey[a] \in Keys /\ <<a, verKey[a]>> \in certified
    BY <1>1 DEF TypeOK, PeersInv
  <2>2. QED
    BY <2>1 DEF Promise!Trusted
<1>2. CASE GossipedUndated(a)
  BY <1>2 DEF Strays
<1>3. QED
  BY <1>1, <1>2 DEF MayEnter

(* The IMAP thread: handshakes and gossip certify, groups are created, and *)
(* their members are written again one by one.                             *)
LEMMA ImapStepPromise ==
  ASSUME IInv, ImapStep
  PROVE  [Promise!Next]_(Promise!vars)
<1> USE DEF IInv, history
<1>1. CASE StartCheck \/ NoChange \/ EndOfMail
  BY <1>1, NothingPromised DEF StartCheck, NoChange, EndOfMail
<1>2. ASSUME NEW t \in {"normal", "verified"}, group = "none", group' = t, members' = {},
             UNCHANGED <<certified, gossips, send>>
      PROVE  Promise!Next
  <2>1. Promise!Create(t)
    BY <1>2, OutgoingStays, StraysStay DEF GroupInv, Promise!Create
  <2>2. QED
    BY <2>1 DEF Promise!Next
<1>3. ASSUME members' \in SUBSET members, UNCHANGED <<group, certified, gossips, send>>
      PROVE  Promise!Next
  BY <1>3, OutgoingStays, StraysStay DEF Promise!Remove, Promise!Next
<1>4. CASE CreateNormal
  BY <1>2, <1>4 DEF CreateNormal, Recreate
<1>5. CASE ChangeNormal
  BY <1>3, <1>5 DEF ChangeNormal, Recreate
<1>6. CASE CheckPassed
  <2>1. CASE group = "none"
    BY <1>2, <1>6, <2>1 DEF CheckPassed, Recreate
  <2>2. CASE group # "none"
    <3>1. group = "verified"
      BY <1>6, <2>2 DEF CheckPassed, TypeOK, GroupInv
    <3>2. QED
      BY <1>3, <1>6, <3>1 DEF CheckPassed, Recreate
  <2>3. QED
    BY <2>1, <2>2
<1>7. ASSUME NEW a \in Peers, CheckVerified(a)
      PROVE  UNCHANGED Promise!vars
  BY <1>7, NothingPromised DEF CheckVerified
<1>13. ASSUME NEW a \in Peers, UpdateGossip(a)
       PROVE  [Promise!Next]_(Promise!vars)
  <2> DEFINE g == [about |-> a, time |-> helper.time, key |-> helper.gossip[a]]
  <2>1. UNCHANGED <<certified, chat, Outgoing>> /\ gossips' = gossips \cup {g}
    BY <1>13, OutgoingStays DEF UpdateGossip
  <2>2. Strays' = Strays \/ Strays' = Strays \cup {a}
    <3>1. \A p \in Peers : GossipedUndated(p)' = (GossipedUndated(p) \/ (p = a /\ helper.time <= 0))
      <4>1. g.about = a /\ g.time = helper.time
        OBVIOUS
      <4> HIDE DEF g
      <4>2. QED
        BY <2>1, <4>1 DEF GossipedUndated
    <3>2. QED
      BY <3>1 DEF Strays
  <2>3. CASE Strays' = Strays
    BY <2>1, <2>3 DEF Promise!vars, chat
  <2>4. CASE Strays' = Strays \cup {a}
    BY <2>1, <2>4 DEF Promise!Stray, Promise!Next, chat
  <2>5. QED
    BY <2>2, <2>3, <2>4
<1>8. ASSUME NEW a \in Peers, CheckGossiped(a)
      PROVE  [Promise!Next]_(Promise!vars)
  <2>1. CASE gossipKey[a] = NoKey
    <3>1. certified' = certified /\ UNCHANGED <<gossips, chat, send>>
      BY <1>8, <2>1 DEF CheckGossiped
    <3>2. QED
      BY <3>1, NothingPromised
  <2>2. CASE gossipKey[a] # NoKey
    <3>1. gossipKey[a] \in Keys
      BY <2>2 DEF TypeOK
    <3>2. Promise!Certify(a, gossipKey[a])
      BY <1>8, <2>2, OutgoingStays, StraysStay DEF CheckGossiped, chat, Promise!Certify
    <3>3. QED
      BY <3>1, <3>2 DEF Promise!Next
  <2>3. QED
    BY <2>1, <2>2
<1>9. ASSUME NEW a \in Peers, CheckFails(a)
      PROVE  [Promise!Next]_(Promise!vars)
  <2>1. CASE group = "verified" /\ UNCHANGED chat
    BY <1>9, <2>1, NothingPromised DEF CheckFails
  <2>2. CASE group = "none" /\ group' = "normal" /\ Recreate
    BY <1>2, <1>9, <2>2 DEF CheckFails, Recreate
  <2>3. QED
    BY <1>9, <2>1, <2>2 DEF CheckFails
<1>10. ASSUME NEW a \in Peers, Fill(a)
       PROVE  Promise!Next
  <2>1. group # "none" /\ (group = "verified" => a \in Promise!Trusted \cup Strays)
    BY <1>10, WhoMayEnter DEF Fill, GroupInv, MailInv
  <2>2. Promise!Add(a)
    BY <1>10, <2>1, OutgoingStays, StraysStay DEF Fill, Promise!Add
  <2>3. QED
    BY <2>2 DEF Promise!Next
<1>11. ASSUME NEW a \in Peers, Verify(a)
       PROVE  Promise!Next
  <2>1. pubKey[a] \in Keys
    BY <1>11 DEF Verify, TypeOK
  <2>2. Promise!Certify(a, pubKey[a])
    BY <1>11, OutgoingStays, StraysStay DEF Verify, chat, Promise!Certify
  <2>3. QED
    BY <2>1, <2>2 DEF Promise!Next
<1>12. QED
  BY <1>1, <1>4, <1>5, <1>6, <1>7, <1>8, <1>9, <1>10, <1>11, <1>13 DEF ImapStep

(* The user creates the group, changes its members and writes to it.       *)
LEMMA UserStepPromise ==
  ASSUME IInv, UserStep
  PROVE  [Promise!Next]_(Promise!vars)
<1> USE DEF IInv, history
<1>1. ASSUME NEW g \in {"normal", "verified"}, CreateGroup(g)
      PROVE  Promise!Next
  <2>1. Promise!Create(g)
    BY <1>1, OutgoingStays, StraysStay DEF CreateGroup, Promise!Create
  <2>2. QED
    BY <2>1 DEF Promise!Next
<1>2. ASSUME NEW a \in Peers, AddMember(a)
      PROVE  Promise!Next
  <2>1. Promise!Add(a)
    BY <1>2, OutgoingStays, StraysStay, WhoMayEnter DEF AddMember, MayEnter, Promise!Add
  <2>2. QED
    BY <2>1 DEF Promise!Next
<1>3. ASSUME NEW a \in Peers, RemoveMember(a)
      PROVE  Promise!Next
  BY <1>3, OutgoingStays, StraysStay DEF RemoveMember, Promise!Remove, Promise!Next
<1>4. ASSUME NEW x \in Peers \cup {NoPeer}, NEW enabled \in {0, 1}, NEW last \in {0, 1},
             SendMsg(x, enabled, last)
      PROVE  Promise!Next
  <2>1. Outgoing.status # "waiting"
    BY <1>4 DEF SendMsg, Outgoing, Status
  <2>2. Outgoing' = Promise!Message("waiting", guaranteed', 0, Promise!ToNobody)
    <3>1. Outgoing' = [status |-> "waiting", promised |-> guaranteed', failed |-> 0,
                       key |-> [a \in {} |-> keyUsed'[a]]]
      BY <1>4 DEF SendMsg, Outgoing, Status
    <3>2. [a \in {} |-> keyUsed'[a]] = [a \in {} |-> NoKey]
      OBVIOUS
    <3>3. QED
      BY <3>1, <3>2 DEF Promise!Message, Promise!ToNobody
  <2>3. guaranteed' \in {0, 1}
    BY <1>4 DEF SendMsg
  <2>4. Promise!Compose(guaranteed')
    BY <1>4, <2>1, <2>2, StraysStay DEF SendMsg, chat, Promise!Compose
  <2>5. QED
    BY <2>3, <2>4 DEF Promise!Next
<1>5. QED
  BY <1>1, <1>2, <1>3, <1>4 DEF UserStep

(* The message leaves as it was rendered.                                  *)
LEMMA AcceptedPromise ==
  ASSUME IInv, Accepted
  PROVE  Promise!Next
<1> DEFINE key == [a \in rcpt |-> keyUsed[a]]
<1>1. /\ message = "loaded" /\ todo = {} /\ message' = "sent"
      /\ UNCHANGED <<chat, certified, gossips, rcpt, keyUsed, broken>>
      /\ guaranteed = 1 => encrypt = 1
      /\ guaranteed' = IF encrypt = 1 /\ rcpt # {} THEN 1 ELSE guaranteed
  BY DEF Accepted, Rendered, history
<1>2. /\ rcpt \in SUBSET Peers /\ key \in [rcpt -> Keys \cup {NoKey}]
      /\ encrypt \in {0, 1} /\ guaranteed \in {0, 1} /\ guaranteed' \in {0, 1}
  BY <1>1 DEF IInv, TypeOK
<1>3. \A a \in rcpt : key[a] = keyUsed[a]
  OBVIOUS
<1>4. guaranteed' = 1 => Promise!Encrypted(rcpt, key)
  <2>1. guaranteed' = 1 => encrypt = 1
    BY <1>1
  <2>2. encrypt = 1 => \A a \in rcpt : /\ keyUsed[a] \in Keys
                                       /\ group = "verified" => <<a, keyUsed[a]>> \in certified
    BY <1>1 DEF IInv, RenderInv, TypeOK
  <2>3. QED
    BY <1>3, <2>1, <2>2 DEF Promise!Encrypted
<1>5. guaranteed' = 0 /\ rcpt # {} => Promise!InTheClear(rcpt, key)
  <2> SUFFICES ASSUME guaranteed' = 0, rcpt # {} PROVE Promise!InTheClear(rcpt, key)
    OBVIOUS
  <2>1. encrypt = 0 /\ guaranteed = 0
    BY <1>1, <1>2
  <2>2. \A a \in rcpt : key[a] = NoKey
    BY <1>1, <1>3, <2>1 DEF IInv, RenderInv, TypeOK
  <2>3. group = "verified" => broken = 1 \/ rcpt \cap Strays # {}
    BY <1>1, <1>2, <2>1 DEF IInv, RenderInv, Strays
  <2>4. Outgoing.promised = 0 /\ Outgoing.failed = broken
    BY <2>1 DEF Outgoing
  <2>5. QED
    BY <2>2, <2>3, <2>4 DEF Promise!InTheClear
<1>6. /\ Outgoing.status = "waiting" /\ Outgoing.promised = guaranteed
      /\ Outgoing.failed = broken
  BY <1>1 DEF Outgoing, Status
<1>7. Outgoing' = Promise!Message("sent", guaranteed', broken, key)
  BY <1>1 DEF Outgoing, Status, Promise!Message
<1>8. guaranteed = 1 => guaranteed' = 1
  BY <1>1
<1>9. UNCHANGED <<certified, group, members, Strays>>
  BY <1>1, StraysStay DEF chat
<1> HIDE DEF key
<1>10. Promise!Send(rcpt, key, guaranteed')
  BY <1>4, <1>5, <1>6, <1>7, <1>8, <1>9 DEF Promise!Send
<1>11. QED
  BY <1>2, <1>10 DEF Promise!Next

(* The SMTP thread loads and renders out of sight.                         *)
LEMMA SmtpStepPromise ==
  ASSUME IInv, SmtpStep
  PROVE  [Promise!Next]_(Promise!vars)
<1> USE DEF history
<1>1. ASSUME message \in {"pending", "loaded"}, message' \in {"pending", "loaded"},
             broken' \in {0, 1}, UNCHANGED <<chat, certified, gossips, guaranteed>>
      PROVE  Promise!Next
  <2>1. Outgoing = [status |-> "waiting", promised |-> guaranteed, failed |-> broken,
                    key |-> [a \in {} |-> keyUsed[a]]]
    BY <1>1 DEF Outgoing, Status
  <2>2. Outgoing' = [status |-> "waiting", promised |-> guaranteed, failed |-> broken',
                     key |-> [a \in {} |-> keyUsed'[a]]]
    BY <1>1 DEF Outgoing, Status
  <2>3. [a \in {} |-> keyUsed[a]] = [a \in {} |-> keyUsed'[a]]
    OBVIOUS
  <2>4. Outgoing.status = "waiting" /\ Outgoing' = [Outgoing EXCEPT !.failed = broken']
    BY <2>1, <2>2, <2>3
  <2>5. Promise!Try(broken')
    BY <1>1, <2>4, StraysStay DEF chat, Promise!Try
  <2>6. QED
    BY <1>1, <2>5 DEF Promise!Next
<1>2. ASSUME NEW enabled \in {0, 1}, LoadMsg(enabled)
      PROVE  Promise!Next
  BY <1>1, <1>2 DEF LoadMsg
<1>3. ASSUME NEW a \in Peers, EncryptTo(a) \/ CannotEncryptTo(a)
      PROVE  Promise!Next
  BY <1>1, <1>3 DEF EncryptTo, CannotEncryptTo, IInv, TypeOK
<1>8. CASE EncryptFails
  BY <1>1, <1>8 DEF EncryptFails
<1>4. CASE TryAgainLater
  BY <1>1, <1>4 DEF TryAgainLater, Rendered
<1>5. CASE Refuse
  <2>1. /\ Outgoing = [status |-> "waiting", promised |-> 1, failed |-> broken,
                       key |-> [a \in {} |-> keyUsed[a]]]
        /\ Outgoing' = [status |-> "failed", promised |-> 1, failed |-> broken,
                        key |-> [a \in {} |-> keyUsed[a]]]
    BY <1>5 DEF Refuse, Rendered, Outgoing, Status
  <2>2. Promise!Refuse
    BY <1>5, <2>1, StraysStay DEF Refuse, chat, Promise!Refuse
  <2>3. QED
    BY <2>2 DEF Promise!Next
<1>6. CASE Accepted
  BY <1>6, AcceptedPromise
<1>7. QED
  BY <1>2, <1>3, <1>4, <1>5, <1>6, <1>8 DEF SmtpStep

(* The rows, the rewriting of a list of members and the rendering keep     *)
(* what VerifiedGroup promises (check_verified_properties(),               *)
(* create_or_lookup_group(), dc_e2ee_encrypt()).                           *)
THEOREM Implements == Spec => ImplementsVerifiedGroup
<1>1. Init => Promise!Init
  <2> SUFFICES ASSUME Init PROVE Promise!Init
    OBVIOUS
  <2>1. certified \subseteq Peers \X Keys
    BY DEF Init, Met
  <2>2. Outgoing = Promise!Message("none", 0, 0, Promise!ToNobody)
    BY OutgoingUnsent DEF Init, Status
  <2>3. QED
    BY <2>1, <2>2 DEF Init, Strays, GossipedUndated, Promise!Init
<1>2. IInv /\ [Next]_vars => [Promise!Next]_(Promise!vars)
  <2> SUFFICES ASSUME IInv, [Next]_vars PROVE [Promise!Next]_(Promise!vars)
    OBVIOUS
  <2>1. CASE UNCHANGED vars
    BY <2>1, NothingPromised DEF vars, history
  <2>2. CASE ReceiveMail
    BY <2>2, NothingPromised DEF ReceiveMail, ReceiveOther, ReceiveGroup
  <2>3. QED
    BY <2>1, <2>2, ImapStepPromise, UserStepPromise, SmtpStepPromise DEF Next
<1>3. QED
  BY InductiveInvariant, <1>1, <1>2, PTL DEF Spec, ImplementsVerifiedGroup, Promise!Spec
=============================================================================
