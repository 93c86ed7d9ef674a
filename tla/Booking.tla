------------------------------- MODULE Booking -------------------------------
(***************************************************************************)
(* What the booking of Pix payments promises (apps/payments/services.py,   *)
(* ledger/services.py, webhooks/services.py), without the statements that  *)
(* keep the promise: a process claims an open charge, settles it, and only *)
(* then writes its chain of records, each once and in order.  The claim    *)
(* may be given up anywhere; nobody claims a settled charge again.         *)
(*                                                                         *)
(* Two processes may claim one charge while it is open, and then both book *)
(* it: that much the code does not exclude.                                *)
(***************************************************************************)
EXTENDS Naturals

CONSTANTS Processes, Charges, Nothing

VARIABLES
  claim,    \* the charge a process works for, or Nothing
  settled,  \* settled charges
  book      \* how often a process wrote each record of a charge

state == <<claim, settled, book>>

\* CASH entry, RECEIVABLE entry, event row, task of the event.
Chain == 1..4

Init ==
  /\ claim = [p \in Processes |-> Nothing]
  /\ settled = {}
  /\ book = [c \in Charges |-> [p \in Processes |-> [n \in Chain |-> 0]]]

Claim(p, c) ==
  /\ claim[p] = Nothing
  /\ c \notin settled
  /\ claim' = [claim EXCEPT ![p] = c]
  /\ UNCHANGED <<settled, book>>

Settle(p) ==
  /\ claim[p] # Nothing
  /\ settled' = settled \cup {claim[p]}
  /\ UNCHANGED <<claim, book>>

GiveUp(p) ==
  /\ claim' = [claim EXCEPT ![p] = Nothing]
  /\ UNCHANGED <<settled, book>>

\* Record n of the chain follows the ones before it; with it the process may
\* be done with the charge.
Write(p, c, n) ==
  /\ claim[p] = c
  /\ c \in settled
  /\ \A k \in 1..(n - 1) : book[c][p][k] = 1
  /\ book[c][p][n] = 0
  /\ book' = [book EXCEPT ![c][p][n] = 1]
  /\ claim' \in {claim, [claim EXCEPT ![p] = Nothing]}
  /\ UNCHANGED settled

Next ==
  \E p \in Processes :
    \/ \E c \in Charges : Claim(p, c)
    \/ Settle(p)
    \/ GiveUp(p)
    \/ \E c \in Charges, n \in Chain : Write(p, c, n)

Spec == Init /\ [][Next]_state
=============================================================================
