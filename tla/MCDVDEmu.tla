------------------------------ MODULE MCDVDEmu ------------------------------
(* Values for the constants of DVDEmu.tla that a configuration cannot write. *)
EXTENDS DVDEmu

Plain(type, names) == [says |-> type, files |-> {0} \cup names, listed |-> {0} \cup names]

\* Of each type, an unknown one, with nothing but the type file, with other files,
\* with a chapter left out, and without a type file.
MCDiscs ==
  {Plain("XV-D701-VCD", 1 .. 2), Plain("XV-D701-DVD", 1 .. 3),
   Plain("SD-B100-DVD", 1 .. 1), Plain("unknown", 1 .. 2), Plain("XV-D701-DVD", {}),
   Plain("XV-D701-DVD", {-2, -1, 1, 2}), Plain("SD-B100-DVD", {1, 3}),
   [says |-> "none", files |-> 1 .. 2, listed |-> 1 .. 2]}
=============================================================================
