------------------------------ MODULE MCDriver ------------------------------
(***************************************************************************)
(* Instances of RewriteDriver: every short block of the kinds of interest. *)
(***************************************************************************)
EXTENDS RewriteDriver

BlocksOf(kinds, maxLen) == UNION {[1 .. n -> kinds] : n \in 1 .. maxLen}

\* Every instruction has a rewriting.
MCImplemented ==
  BlocksOf({"native", "early", "late"}, 4) \cup BlocksOf({"native", "early", "late", "kept"}, 3)

\* The last AVX-512 instruction of the block has none.
MCLastMissing ==
  {front \o <<missing>> \o back :
     front \in BlocksOf({"native", "early", "late"}, 2) \cup {<<>>},
     missing \in {"empty", "null"},
     back \in {<<>>, <<"native">>}}

MCBlocks == MCImplemented \cup MCLastMissing

MCEmpty == BlocksOf({"native", "early", "empty"}, 2)
MCNull  == BlocksOf({"native", "early", "null"}, 2)
=============================================================================
