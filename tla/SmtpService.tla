---------------------------- MODULE SmtpService ----------------------------
(***************************************************************************)
(* What the job queue of the SMTP thread promises to the rest of Delta     *)
(* Chat Core, without flags, mutexes and idling: jobs are submitted at any *)
(* time; a worker makes passes over the rows it finds; a row leaves the    *)
(* table only after a pass took it up; and an exclusive section (CONFIGURE *)
(* or IMEX in the IMAP thread) never overlaps a pass.                      *)
(***************************************************************************)
EXTENDS Naturals

CONSTANT Jobs

VARIABLES rows,       \* jobs in the table
          taken,      \* jobs some pass has taken up
          phase,      \* the worker: "resting" or "working"
          exclusive   \* an exclusive section is active

vars == <<rows, taken, phase, exclusive>>

Init ==
    /\ rows \in SUBSET Jobs
    /\ taken = {}
    /\ phase = "working"
    /\ exclusive = FALSE

Submit(j) ==
    /\ j \notin rows \cup taken
    /\ rows' = rows \cup {j}
    /\ UNCHANGED <<taken, phase, exclusive>>

Take ==
    /\ phase = "working"
    /\ taken' = taken \cup rows
    /\ UNCHANGED <<rows, phase, exclusive>>

Finish(j) ==
    /\ phase = "working"
    /\ j \in rows \cap taken
    /\ rows' = rows \ {j}
    /\ UNCHANGED <<taken, phase, exclusive>>

Rest ==
    /\ phase = "working"
    /\ phase' = "resting"
    /\ UNCHANGED <<rows, taken, exclusive>>

Work ==
    /\ phase = "resting"
    /\ ~exclusive
    /\ phase' = "working"
    /\ UNCHANGED <<rows, taken, exclusive>>

BeginExclusive ==
    /\ phase = "resting"
    /\ ~exclusive
    /\ exclusive' = TRUE
    /\ UNCHANGED <<rows, taken, phase>>

EndExclusive ==
    /\ exclusive
    /\ exclusive' = FALSE
    /\ UNCHANGED <<rows, taken, phase>>

Next ==
    \/ \E j \in Jobs : Submit(j) \/ Finish(j)
    \/ Take \/ Rest \/ Work
    \/ BeginExclusive \/ EndExclusive

Spec == Init /\ [][Next]_vars
=============================================================================
