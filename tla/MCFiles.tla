------------------------------ MODULE MCFiles ------------------------------
(* A small disk for Files: inode 2 holds "a" (3) and "aa" (6), 3 holds "a" *)
(* (4), and 4 holds a file (5) whose entry is longer than its block.  Each *)
(* inode has 3 units, 2 of them read, in a table of blocks of 4 units, and *)
(* a group has 4 inodes.                                                   *)
EXTENDS Files

Ent(n, name) == [inode |-> n, name |-> name, shape |-> "fits"]

MCDirBlocks ==
  ("r1" :> <<Ent(2, <<DOT>>), Ent(2, <<DOT, DOT>>), Ent(0, <<DOT, letter.a>>)>>)
  @@ ("r2" :> <<Ent(3, <<letter.a>>), Ent(6, <<letter.a, letter.a>>)>>)
  @@ ("d1" :> <<Ent(3, <<DOT>>), Ent(2, <<DOT, DOT>>), Ent(4, <<letter.a>>),
                [Ent(0, << >>) EXCEPT !.shape = "zero"], Ent(6, <<DOT, letter.a>>)>>)
  @@ ("e1" :> <<Ent(4, <<DOT>>), Ent(3, <<DOT, DOT>>),
                [Ent(5, <<letter.a>>) EXCEPT !.shape = "too_long"]>>)
  @@ ("e2" :> <<Ent(6, <<letter.a, letter.a>>)>>)

Dir(blocks) == [dir |-> TRUE, block |-> blocks]
File == [dir |-> FALSE, block |-> <<>>]

MCInodes ==
  <<File, Dir(<<"r1", "", "r2">>), Dir(<<"d1">>), Dir(<<"e1", "", "", "e2">>),
    File, File>>

MCArgs ==
  LET C == {SLASH, DOT, letter.a}
  IN  UNION {[1..n -> C] : n \in 0..2}
      \cup {<<DOT, DOT, SLASH, letter.a>>, <<SLASH, letter.a, SLASH, letter.a>>, <<letter.a, SLASH, DOT, DOT>>,
            <<SLASH, letter.a, SLASH, letter.a, SLASH, letter.a>>, <<letter.a, SLASH, letter.a>>,
            <<letter.a, SLASH, letter.a, SLASH, letter.a>>,
            <<SLASH, letter.a, SLASH, letter.a, SLASH, DOT, DOT, SLASH>>}

(* Drives and images for all the ways a mount that returns may end.        *)
MCDrives ==
  {[kind |-> "absent", bad |-> {}], [kind |-> "ready", bad |-> {}],
   [kind |-> "ready", bad |-> {4}]}

MCImages ==
  {[magic |-> magic, log_block_size |-> log, blocks_count |-> 8, blocks_per_group |-> 8] :
     magic \in BOOLEAN, log \in {0, 3}}
=============================================================================
