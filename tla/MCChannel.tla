----------------------------- MODULE MCChannel -----------------------------
(* Model-checking instances of Channel: values for its constants. *)
EXTENDS Channel, TLC

CONSTANTS serve, stdio, desktop, laptop, terminal, work, home

\* The desktop and laptop clients speak HTTP to the server; the terminal one has
\* a stdio process of its own.
MCProcOf == [c \in Client |-> IF c = terminal THEN stdio ELSE serve]

\* The two are alike, safety does not tell them apart.
MCSymmetry == Permutations({desktop, laptop})

MCOneChat == [m \in Message |-> work]
MCTwoChats == <<work, home>>
=============================================================================
