----------------------------- MODULE MCImapFetch -----------------------------
(* Instances of ImapFetch for TLC; no symmetry set, the run checks         *)
(* liveness.                                                               *)
EXTENDS ImapFetch, TLC
=============================================================================
