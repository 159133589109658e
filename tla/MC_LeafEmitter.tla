--------------------------- MODULE MC_LeafEmitter ---------------------------
(* write_data over the host trees of HostTrees.                            *)
EXTENDS LeafEmitter, HostTrees

MC_Trees == {MC_Rich(TRUE), MC_Rich(FALSE), MC_Grown, MC_DevReg,
             MC_LongLink, MC_StaleAttr, MC_OuterLink, MC_NoRoot, MC_Plain,
             MC_DevNoRoot}

(* The tree with a device table, alone.                                    *)
MC_DevtabTrees == {MC_Rich(TRUE)}

(* A device table and no -r.                                               *)
MC_DevNoRootTrees == {MC_DevNoRoot}

=============================================================================
