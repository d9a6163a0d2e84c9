------------------------------ MODULE MCLauncher ------------------------------
EXTENDS Sessions, TLC
CONSTANTS claude, codex, l1, l2, l3, l4, r1, r2
\* Two calls name the driven agent and two the agent with a child.
MCAgentOf == (l1 :> claude) @@ (l2 :> claude) @@ (l3 :> codex) @@ (l4 :> codex)
MCSymmetry == {f @@ g @@ h : f \in Permutations({l1, l2}), g \in Permutations({l3, l4}),
                              h \in Permutations({r1, r2})}
=============================================================================
