------------------------------- MODULE MCHeap -------------------------------
(* The heap on an instance small enough for TLC, in units of 32 bytes: the *)
(* header is one unit and the split threshold two, as in the build.        *)
EXTENDS Heap

MCArrays == {<<2, 2>>, <<0, 5>>}
=============================================================================
