----------------------------- MODULE MCSecureJoin -----------------------------
(* Instances of SecureJoin for TLC: an inviter with a code for a contact    *)
(* and one with a code for a group.                                         *)
EXTENDS SecureJoin
=============================================================================
