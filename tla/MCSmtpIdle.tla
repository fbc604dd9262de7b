----------------------------- MODULE MCSmtpIdle -----------------------------
(***************************************************************************)
(* Instances of SmtpIdle for TLC.  There is no symmetry set: every run     *)
(* checks a liveness property, for which symmetry is not sound.            *)
(***************************************************************************)
EXTENDS SmtpIdle, TLC
=============================================================================
