------------------------------ MODULE MC_Mkfs ------------------------------
(* mkfs() over host trees of HostTrees, with one refused sink write at any *)
(* position of the image or none.                                          *)
EXTENDS Mkfs, HostTrees

(* A tree with every inode kind, one whose image spans several data and   *)
(* index LEBs, and one on which write_data fails.                          *)
MC_MkfsTrees == {MC_Rich(TRUE), MC_Big, MC_Grown}

(* The tree whose data outgrows max_leb_cnt.                               *)
MC_HugeTrees == {MC_Huge}

(* Images of MC_Big have 14 LEBs: every one of them may be the one the     *)
(* sink refuses.                                                           *)
MC_FaultPoints == 0 .. 14

(* The tree whose index spans two LEBs, alone.                            *)
MC_BigTrees == {MC_Big}

(* A sink that accepts every write.                                        *)
MC_NoFault == {0}

====
