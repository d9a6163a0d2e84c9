----------------------------- MODULE MCReplies -----------------------------
(* Model-checking instances of Replies: values for its constants. *)
EXTENDS Replies, TLC

CONSTANTS standup, left, right, tab, button

\* Calls are alike, and so are passes: safety does not tell them apart.
MCSymmetry == Permutations({left, right}) \cup Permutations({tab, button})
=============================================================================
