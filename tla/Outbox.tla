------------------------------- MODULE Outbox -------------------------------
(***************************************************************************)
(* What Delta Chat Core promises about an outgoing message, without jobs,  *)
(* threads, retries and receipts: the state it shows is true, it fails     *)
(* only if no copy of it is left that was accepted and noticed, and it is  *)
(* handed to the SMTP server again only if the last time went unnoticed.   *)
(* It is delivered by an acceptance, or because nobody else is in the      *)
(* chat, and once for each of these.                                       *)
(***************************************************************************)
EXTENDS Naturals

CONSTANT Msgs

VARIABLES shown,   \* [Msgs -> what the user sees]
          copies,  \* [Msgs -> how often the server accepted it]
          excuse,  \* [Msgs -> how many of these went unnoticed]
          fresh,   \* messages whose acceptance (or empty chat) is not yet shown
          others   \* the other members of the chat

vars == <<shown, copies, excuse, fresh, others>>

Init ==
    /\ shown = [m \in Msgs |-> "unsent"]
    /\ copies = [m \in Msgs |-> 0]
    /\ excuse = [m \in Msgs |-> 0]
    /\ fresh = {}

Show(m, s) == shown' = [shown EXCEPT ![m] = s] /\ UNCHANGED <<copies, excuse, others>>

Visible(m) == shown[m] \notin {"unsent", "removed"}

Send(m) == shown[m] = "unsent" /\ Show(m, "pending") /\ UNCHANGED fresh

(* Every acceptance but at most the last went unnoticed.                   *)
Due(m) == shown[m] # "unsent" /\ m \notin fresh /\ copies[m] = excuse[m]

Accept(m) ==
    /\ Due(m)
    /\ copies' = [copies EXCEPT ![m] = @ + 1]
    /\ fresh' = fresh \cup {m}
    /\ UNCHANGED <<shown, excuse, others>>

(* The reply is lost.                                                      *)
AcceptUnnoticed(m) ==
    /\ Due(m)
    /\ copies' = [copies EXCEPT ![m] = @ + 1]
    /\ excuse' = [excuse EXCEPT ![m] = @ + 1]
    /\ UNCHANGED <<shown, fresh, others>>

(* Nobody else is in the chat, or it was removed: it is sent to nobody.    *)
FindNobody(m) ==
    /\ Due(m)
    /\ others = {} \/ shown[m] = "removed"
    /\ fresh' = fresh \cup {m}
    /\ UNCHANGED <<shown, copies, excuse, others>>

(* A crash, before this is noted for good.                                 *)
Forget(m) ==
    /\ copies[m] > excuse[m] \/ m \in fresh
    /\ excuse' = [excuse EXCEPT ![m] = copies[m]]
    /\ fresh' = fresh \ {m}
    /\ UNCHANGED <<shown, copies, others>>

Fail(m) == Visible(m) /\ Due(m) /\ Show(m, "error") /\ UNCHANGED fresh

(* Shown even if the message was read already: the second checkmark is     *)
(* lost then, until the next receipt.                                      *)
Deliver(m) ==
    /\ m \in fresh
    /\ Show(m, IF Visible(m) THEN "delivered" ELSE shown[m])
    /\ fresh' = fresh \ {m}

Read(m) == Visible(m) /\ copies[m] > 0 /\ Show(m, "read") /\ UNCHANGED fresh

Remove(m) == Visible(m) /\ Show(m, "removed") /\ UNCHANGED fresh

ChangeMembers == UNCHANGED <<shown, copies, excuse, fresh>>

Next ==
    \/ ChangeMembers
    \/ \E m \in Msgs :
        \/ Send(m) \/ Accept(m) \/ AcceptUnnoticed(m) \/ FindNobody(m) \/ Forget(m)
        \/ Fail(m) \/ Deliver(m) \/ Read(m) \/ Remove(m)

Spec == Init /\ [][Next]_vars
=============================================================================
