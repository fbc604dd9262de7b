------------------------------- MODULE Mailbox -------------------------------
(***************************************************************************)
(* What Delta Chat Core promises about the messages on the server, without *)
(* jobs, folders and connections: they are changed as the user asked only. *)
(* Nothing disappears that was not deleted, nothing is seen that was not   *)
(* read, and an upload or a receipt is repeated only after a fault - a     *)
(* receipt not even then, if the server can remember it.                   *)
(***************************************************************************)
EXTENDS Naturals

CONSTANTS Incoming, Outgoing, MdnFlag

VARIABLES asked,    \* messages that were read, or sent
          dropped,  \* messages that were deleted
          copies,   \* [messages -> copies on the server]
          seen,     \* messages \Seen on the server
          receipts, \* [messages -> receipts sent]
          refused,  \* messages a flag of which the server refused
          faults    \* broken streams, lost replies, refusals and crashes

vars == <<asked, dropped, copies, seen, receipts, refused, faults>>

Init ==
    /\ asked = {} /\ dropped = {} /\ seen = {} /\ refused = {}
    /\ copies = [m \in Incoming \cup Outgoing |-> IF m \in Incoming THEN 1 ELSE 0]
    /\ receipts = [m \in Incoming \cup Outgoing |-> 0]
    /\ faults = 0

(* The user reads a message, or has sent it.                               *)
Ask(m) ==
    /\ m \in Incoming => m \notin dropped
    /\ asked' = asked \cup {m}
    /\ UNCHANGED <<dropped, copies, seen, receipts, refused, faults>>

Drop(m) ==
    /\ dropped' = dropped \cup {m}
    /\ UNCHANGED <<asked, copies, seen, receipts, refused, faults>>

Fault ==
    /\ faults' = faults + 1
    /\ UNCHANGED <<asked, dropped, copies, seen, receipts, refused>>

(* The server does as it is told, and the answer arrives, or is lost.      *)
Answer == UNCHANGED faults \/ faults' = faults + 1

Upload(m) ==
    /\ m \in Outgoing \cap asked
    /\ copies[m] <= faults
    /\ copies' = [copies EXCEPT ![m] = @ + 1]
    /\ Answer
    /\ UNCHANGED <<asked, dropped, seen, receipts, refused>>

Delete(m) ==
    /\ m \in dropped
    /\ copies[m] > 0
    /\ copies' = [copies EXCEPT ![m] = @ - 1]
    /\ Answer
    /\ UNCHANGED <<asked, dropped, seen, receipts, refused>>

MarkSeen(m) ==
    /\ m \in Incoming \cap asked
    /\ seen' = seen \cup {m}
    /\ Answer
    /\ UNCHANGED <<asked, dropped, copies, receipts, refused>>

(* The server refuses a flag: it forgets what became of the message.       *)
Refuse(m) ==
    /\ m \in Incoming \cap asked
    /\ seen' \in {seen, seen \cup {m}}
    /\ refused' = refused \cup {m}
    /\ faults' = faults + 1
    /\ UNCHANGED <<asked, dropped, copies, receipts>>

SendReceipt(m) ==
    /\ m \in Incoming \cap asked
    /\ IF MdnFlag /\ m \notin refused
       THEN m \in seen /\ receipts[m] = 0
       ELSE receipts[m] <= faults
    /\ receipts' = [receipts EXCEPT ![m] = @ + 1]
    /\ UNCHANGED <<asked, dropped, copies, seen, refused, faults>>

Next ==
    \/ \E m \in Incoming \cup Outgoing :
          Ask(m) \/ Drop(m) \/ Upload(m) \/ Delete(m) \/ MarkSeen(m)
          \/ Refuse(m) \/ SendReceipt(m)
    \/ Fault

Spec == Init /\ [][Next]_vars
=============================================================================
