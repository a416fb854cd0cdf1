------------------------------ MODULE MCVictor ------------------------------
(* Values for the constants of Victor.tla that a configuration cannot write. *)
EXTENDS Victor

\* Chapters 0, 1, 2 and 12 as JLIPTest sends them to a DVD, and bytes that are no
\* digits (chapter 2 again).
MCSeekParams == {<<0, 0, c>> : c \in 0 .. 2} \cup {<<0, 1, 2>>, <<10, 20, 12>>}
=============================================================================
