------------------------------- MODULE Outbox -------------------------------
(***************************************************************************)
(* What the outreach outbox promises, with no engine in it: the approval   *)
(* state machine of one table (src/src/outreach/store.ts) and the mail     *)
(* that leaves because of it.  A row is queued as a draft, a human         *)
(* approves or rejects it, an approved row may put copies of its message   *)
(* on the wire, and it is closed once, as sent only after a copy left.     *)
(* Outreach implements it.                                                 *)
(***************************************************************************)
EXTENDS Naturals

CONSTANT Row       \* the outbox rows that may ever be queued

VARIABLES
  status,          \* the row's status column, "none" before the INSERT
  copies           \* copies of the row's message a mail server accepted

vars == <<status, copies>>

Status == {"none", "pending", "approved", "rejected", "sent", "failed"}

Init ==
  /\ status = [r \in Row |-> "none"]
  /\ copies = [r \in Row |-> 0]

\* queueOutbox: nothing creates a row in any status but 'pending'.
Queue(r) ==
  /\ status[r] = "none"
  /\ status' = [status EXCEPT ![r] = "pending"]
  /\ UNCHANGED copies

\* decide: the human's click, on a pending row only.
Decide(r, verdict) ==
  /\ status[r] = "pending"
  /\ status' = [status EXCEPT ![r] = verdict]
  /\ UNCHANGED copies

\* A copy leaves, and the row is approved while it does.
Deliver(r) ==
  /\ status[r] = "approved"
  /\ copies' = [copies EXCEPT ![r] = @ + 1]
  /\ UNCHANGED status

\* markSent: only a message that left is recorded as sent.
CloseSent(r) ==
  /\ status[r] = "approved"
  /\ copies[r] > 0
  /\ status' = [status EXCEPT ![r] = "sent"]
  /\ UNCHANGED copies

\* markFailed: a send that threw may still have left a copy behind, so a
\* failed row says nothing about the wire.
CloseFailed(r) ==
  /\ status[r] = "approved"
  /\ status' = [status EXCEPT ![r] = "failed"]
  /\ UNCHANGED copies

Next ==
  \E r \in Row :
    \/ Queue(r)
    \/ Decide(r, "approved")
    \/ Decide(r, "rejected")
    \/ Deliver(r)
    \/ CloseSent(r)
    \/ CloseFailed(r)

Spec == Init /\ [][Next]_vars
=============================================================================
