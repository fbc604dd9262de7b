----------------------------- MODULE MCImapIdle -----------------------------
(* Instances of ImapIdle for TLC; no symmetry set, every run checks        *)
(* liveness.                                                               *)
EXTENDS ImapIdle, TLC
=============================================================================
