------------------------------ MODULE Delivery ------------------------------
(***************************************************************************)
(* What a merchant may expect of an event (apps/webhooks/services.py,      *)
(* tasks.py), without tasks, retries and processes: copies of it arrive    *)
(* while it is pending, at most MaxPosts of them and none after the one    *)
(* the merchant took; it is closed once, as delivered exactly if the       *)
(* merchant took it.  It may stay pending for good.                        *)
(***************************************************************************)
EXTENDS Naturals

CONSTANTS Events, MaxPosts

VARIABLES
  phase,   \* "none" until the event happens, then what the merchant's list says
  copies,  \* how often it arrived
  taken    \* the events of which an arrival was answered with success

state == <<phase, copies, taken>>

Init ==
  /\ phase = [e \in Events |-> "none"]
  /\ copies = [e \in Events |-> 0]
  /\ taken = {}

Happen(e) ==
  /\ phase[e] = "none"
  /\ phase' = [phase EXCEPT ![e] = "pending"]
  /\ UNCHANGED <<copies, taken>>

Arrive(e) ==
  /\ phase[e] = "pending"
  /\ e \notin taken
  /\ copies[e] < MaxPosts
  /\ copies' = [copies EXCEPT ![e] = @ + 1]
  /\ taken' \in {taken, taken \cup {e}}
  /\ UNCHANGED phase

Close(e) ==
  /\ phase[e] = "pending"
  /\ phase' = [phase EXCEPT ![e] = IF e \in taken THEN "delivered" ELSE "exhausted"]
  /\ UNCHANGED <<copies, taken>>

Next == \E e \in Events : Happen(e) \/ Arrive(e) \/ Close(e)

Spec == Init /\ [][Next]_state
=============================================================================
