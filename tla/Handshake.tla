----------------------------- MODULE Handshake -----------------------------
(***************************************************************************)
(* What secure join promises to Bob, without mails, flags and threads: an  *)
(* inviter verifies Bob only after Bob has scanned the code, Bob verifies  *)
(* the inviter only after that - or after the inviter added somebody else, *)
(* which dc_handle_securejoin_handshake() does not tell apart - and has    *)
(* the verified group only with a verified inviter.  Nothing of this is    *)
(* taken back.                                                             *)
(***************************************************************************)
CONSTANTS Inviters, Groups

VARIABLES scanned,   \* inviters whose code Bob has scanned
          others,    \* inviters that added another member
          known,     \* inviters that have verified Bob
          verified,  \* inviters Bob has verified
          joined     \* inviters whose group Bob has

vars == <<scanned, others, known, verified, joined>>

Init ==
    /\ scanned = {} /\ others = {}
    /\ known = {} /\ verified = {} /\ joined = {}

Scan(a) ==
    /\ scanned' = scanned \cup {a}
    /\ UNCHANGED <<others, known, verified, joined>>

AddOther(a) ==
    /\ a \in Groups
    /\ others' = others \cup {a}
    /\ UNCHANGED <<scanned, known, verified, joined>>

InviterVerifies(a) ==
    /\ a \in scanned
    /\ known' = known \cup {a}
    /\ UNCHANGED <<scanned, others, verified, joined>>

BobVerifies(a) ==
    /\ a \in scanned
    /\ a \in known \cup others
    /\ verified' = verified \cup {a}
    /\ UNCHANGED <<scanned, others, known, joined>>

JoinGroup(a) ==
    /\ a \in Groups \cap known \cap verified
    /\ joined' = joined \cup {a}
    /\ UNCHANGED <<scanned, others, known, verified>>

Next ==
    \E a \in Inviters :
        \/ Scan(a) \/ AddOther(a)
        \/ InviterVerifies(a) \/ BobVerifies(a) \/ JoinGroup(a)

Spec == Init /\ [][Next]_vars
=============================================================================
