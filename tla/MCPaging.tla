------------------------------ MODULE MCPaging ------------------------------
(* Constants of the model-checked instance of Paging: tables of three      *)
(* entries, two of them doubled in a PML4, and one PML2 of large pages.    *)
(* The two pages of the area share their tables; two pages are twins,      *)
(* beside the large pages; one lies in a large page.                       *)
EXTENDS Paging

MCArea == <<<<2, 0, 0, 0>>, <<2, 0, 0, 1>>>>

MCPages ==
  {<<2, 0, 0, 0>>, <<2, 0, 0, 1>>, <<0, 1, 0, 0>>, <<1, 1, 0, 0>>, <<0, 0, 0, 0>>}

MCPml2 == <<3>>
=============================================================================
