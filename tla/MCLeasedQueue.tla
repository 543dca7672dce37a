--------------------------- MODULE MCLeasedQueue ---------------------------
(* Two rows of each table, two workers.                                     *)
EXTENDS LeasedQueue

Tables ==
  {"job", "webhook", "email", "outbox", "unleased job", "unleased outbox", "inbox", "inbox once"}
=============================================================================
