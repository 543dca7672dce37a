---------------------------- MODULE AtLeastOnce ----------------------------
(***************************************************************************)
(* What a table of work promises whoever inserts rows into it: a row is    *)
(* acknowledged only when its effect has taken place, perhaps more than    *)
(* once, and given up only after enough attempts.  A firm queue stands by  *)
(* either; one that is not firm may open a row again.                      *)
(***************************************************************************)
EXTENDS Naturals

CONSTANTS Rows, MaxTries

VARIABLES
  firm,       \* whether acknowledged and given up are for good
  state,      \* "open", "acknowledged" or "dropped", per row
  tried,      \* attempts per row
  delivered   \* rows whose effect has taken place

vars == <<firm, state, tried, delivered>>

Init ==
  /\ firm \in BOOLEAN
  /\ state = [r \in Rows |-> "open"]
  /\ tried = [r \in Rows |-> 0]
  /\ delivered = {}

Try ==
  /\ \E S \in SUBSET {r \in Rows : state[r] = "open"} :
        tried' = [r \in Rows |-> IF r \in S THEN tried[r] + 1 ELSE tried[r]]
  /\ UNCHANGED <<firm, state, delivered>>

(* The effect may come with the acknowledgement, before it, or late.        *)
Deliver(r) ==
  /\ tried[r] > 0
  /\ delivered' = delivered \cup {r}
  /\ UNCHANGED <<firm, state, tried>>

Movable(r) == state[r] = "open" \/ ~firm

Acknowledge(r) ==
  /\ Movable(r) /\ tried[r] > 0
  /\ delivered' \in {delivered, delivered \cup {r}} /\ r \in delivered'
  /\ state' = [state EXCEPT ![r] = "acknowledged"]
  /\ UNCHANGED <<firm, tried>>

Drop(r) ==
  /\ Movable(r) /\ tried[r] >= MaxTries
  /\ state' = [state EXCEPT ![r] = "dropped"]
  /\ UNCHANGED <<firm, tried, delivered>>

Reopen(r) ==
  /\ ~firm
  /\ state' = [state EXCEPT ![r] = "open"]
  /\ UNCHANGED <<firm, tried, delivered>>

Next == Try \/ \E r \in Rows : Deliver(r) \/ Acknowledge(r) \/ Drop(r) \/ Reopen(r)

Spec == Init /\ [][Next]_vars
=============================================================================
