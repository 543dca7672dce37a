-------------------------- MODULE MCMailSuppression --------------------------
(***************************************************************************)
(* Instances of MailSuppression for TLC: two events and two senders.       *)
(***************************************************************************)
EXTENDS MailSuppression

CONSTANTS e1, e2, s1, s2

TwoEvents == {e1, e2}
TwoSenders == {s1, s2}
=============================================================================
