----------------------------- MODULE MCJLIPHost -----------------------------
(* Values for the constants of JLIPHost.tla that a configuration cannot write. *)
EXTENDS JLIPHost

Only(commands) == {<<NoArg(c)>> : c \in commands}

Seeks(chapters) == {<<[command |-> "seek", arg |-> c]>> : c \in chapters}

SetIds(ids) == {<<[command |-> "set id", arg |-> i]>> : i \in ids}

\* Commands of one request, with arguments in and out of range.
MCShort == Only({"turn on", "next"}) \cup SetIds({2, 64}) \cup Seeks({2, 12})

\* Every command the device knows, some it does not know, and those of several
\* requests.
MCPrompt ==
  Only({"turn on", "turn off", "play", "pause", "stop", "next", "previous",
        "eject", "insert", "unknown"})
    \cup Seeks({0, 2, 12}) \cup SetIds({0, 2, 64}) \cup {Status, DiskStatus}
=============================================================================
