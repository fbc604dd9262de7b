---------------------------- MODULE VerifiedGroup ----------------------------
(***************************************************************************)
(* What Delta Chat Core promises about a group and what is sent to it,     *)
(* without mails, rows and threads: a key that was verified stays on       *)
(* record, a verified group is one from its beginning and takes only       *)
(* members with such a key, and a message is sent without encryption only  *)
(* if that was not promised.                                               *)
(*                                                                         *)
(* What it falls short of by its own documentation is here too, for it is  *)
(* what the code does: a contact gossiped by a mail without a valid date,  *)
(* a stray, may get into a verified group without a key, and a message of  *)
(* a verified group whose encryption was not guaranteed is sent in the     *)
(* clear if there is a stray among its recipients or if the encryption     *)
(* itself has failed.                                                      *)
(***************************************************************************)
EXTENDS Naturals

CONSTANTS Peers, Keys, NoKey

VARIABLES certified, \* <<contact, key>> that was verified
          strays,    \* the contacts gossiped by a mail without a valid date
          type,      \* of the group: "none", "normal", "verified"
          members,   \* of the group, less the user
          outgoing   \* the message at hand: how far it is, whether its
                     \* encryption is promised and has failed, the key of
                     \* each recipient

vars == <<certified, strays, type, members, outgoing>>

ToNobody == [a \in {} |-> NoKey]
Message(status, promised, failed, key) ==
    [status |-> status, promised |-> promised, failed |-> failed, key |-> key]

Trusted == {p \in Peers : \E k \in Keys : <<p, k>> \in certified}

Init ==
    /\ certified \subseteq Peers \X Keys
    /\ strays = {}
    /\ type = "none" /\ members = {}
    /\ outgoing = Message("none", 0, 0, ToNobody)

Certify(p, k) ==
    /\ certified' = certified \cup {<<p, k>>}
    /\ UNCHANGED <<strays, type, members, outgoing>>

Stray(p) ==
    /\ strays' = strays \cup {p}
    /\ UNCHANGED <<certified, type, members, outgoing>>

Create(t) ==
    /\ type = "none" /\ type' = t
    /\ UNCHANGED <<certified, strays, members, outgoing>>

Add(p) ==
    /\ type # "none"
    /\ type = "verified" => p \in Trusted \cup strays
    /\ members' = members \cup {p}
    /\ UNCHANGED <<certified, strays, type, outgoing>>

Remove ==
    /\ members' \in SUBSET members
    /\ UNCHANGED <<certified, strays, type, outgoing>>

(* The user writes to the group.                                           *)
Compose(promised) ==
    /\ type # "none" /\ outgoing.status # "waiting"
    /\ outgoing' = Message("waiting", promised, 0, ToNobody)
    /\ UNCHANGED <<certified, strays, type, members>>

(* A try to encrypt it fails, or a new try begins.                         *)
Try(failed) ==
    /\ outgoing.status = "waiting"
    /\ outgoing' = [outgoing EXCEPT !.failed = failed]
    /\ UNCHANGED <<certified, strays, type, members>>

(* It leaves for its recipients, with the padlock or without.              *)
Encrypted(to, key) ==
    \A a \in to : key[a] \in Keys /\ (type = "verified" => <<a, key[a]>> \in certified)

InTheClear(to, key) ==
    /\ outgoing.promised = 0
    /\ \A a \in to : key[a] = NoKey
    /\ type = "verified" => outgoing.failed = 1 \/ to \cap strays # {}

Send(to, key, padlock) ==
    /\ outgoing.status = "waiting"
    /\ outgoing.promised = 1 => padlock = 1
    /\ padlock = 1 => Encrypted(to, key)
    /\ padlock = 0 => to = {} \/ InTheClear(to, key)
    /\ outgoing' = Message("sent", padlock, outgoing.failed, key)
    /\ UNCHANGED <<certified, strays, type, members>>

(* What cannot be encrypted as promised is not sent.                       *)
Refuse ==
    /\ outgoing.status = "waiting" /\ outgoing.promised = 1
    /\ outgoing' = [outgoing EXCEPT !.status = "failed"]
    /\ UNCHANGED <<certified, strays, type, members>>

Next ==
    \/ \E p \in Peers, k \in Keys : Certify(p, k)
    \/ \E p \in Peers : Stray(p) \/ Add(p)
    \/ \E t \in {"normal", "verified"} : Create(t)
    \/ Remove
    \/ \E promised \in {0, 1} : Compose(promised)
    \/ \E failed \in {0, 1} : Try(failed)
    \/ \E to \in SUBSET Peers : \E key \in [to -> Keys \cup {NoKey}], padlock \in {0, 1} :
          Send(to, key, padlock)
    \/ Refuse

Spec == Init /\ [][Next]_vars
=============================================================================
