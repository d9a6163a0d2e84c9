----------------------------- MODULE MCOutreach -----------------------------
(* Model-checking instances of Outreach: values for its constants. *)
EXTENDS Outreach, TLC

CONSTANTS a1, a2, d1, d2, d3

\* Three drafts: two recipients on the first account, and the first recipient
\* again on the second account.
MCAccountOf == (d1 :> a1) @@ (d2 :> a1) @@ (d3 :> a2)
MCRecipientOf == (d1 :> "ann") @@ (d2 :> "bob") @@ (d3 :> "ann")
=============================================================================
