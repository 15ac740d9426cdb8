---------------------------- MODULE MCMemoryPools ----------------------------
(* Constants of the model-checked instance of MemoryPools that a .cfg file *)
(* cannot write down.                                                      *)
EXTENDS MemoryPools

MCPoolCounts == {<<2, 2, 1>>, <<2, 1, 4>>, <<1, 1, 12>>}
MCShapes == {<<2, 2>>, <<1, 3>>, <<1, 0>>}
=============================================================================
