---------------------------- MODULE MCPipelines ----------------------------
(* Every command line of one or two commands, and those of three commands  *)
(* that all exist and start with one that writes on, or whose second one   *)
(* does not exist.                                                         *)
EXTENDS Pipelines

Lines(len, ks) == [1..len -> ks]

MCCommandLines ==
  Lines(1, Kinds) \cup Lines(2, Kinds)
    \cup {line \in Lines(3, Kinds \ {"missing"}) : line[1] # "head"}
    \cup {<<"cat", "missing", "cat">>}

(* A writer that only a signal stops, in front of a reader that leaves.    *)
MCYesHead == {<<"yes", "head">>}
=============================================================================
