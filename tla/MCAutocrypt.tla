----------------------------- MODULE MCAutocrypt -----------------------------
(* Instances of Autocrypt for TLC; contacts and keys are interchangeable.   *)
EXTENDS Autocrypt, TLC

Symmetry == Permutations(Peers) \cup Permutations(Keys)

(* What follows a message that is done is what follows none: SendMsg sets   *)
(* all its variables, and no other action looks at them then.               *)
MessageNotDone == message \notin {"sent", "failed"}

(* Bounds: two mails bring no more than two headers, the one with which a   *)
(* contact was met before counted too; and the mails of the group prefer    *)
(* encryption, other ones may not.                                          *)
FewHeaders ==
    /\ inputs = 2 /\ message = "none" => Cardinality(headers) <= 2
    /\ step # "idle" => \A h \in headers : h.prefer = "mutual"
=============================================================================
