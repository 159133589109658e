---------------------------- MODULE HostTrees ----------------------------
(* Host trees the write_data models start from.  Names are byte sequences;*)
(* ids are host inode numbers.  Node 1 is the root in every tree.         *)
EXTENDS Integers, Sequences, TLC

(* Host inodes as lstat, read(2) and llistxattr see them.                  *)
MC_Dir(entries, devtab) ==
  [type |-> "dir", onhost |-> TRUE, nlink |-> 2, size |-> 4096,
   blocks |-> <<>>, xattrs |-> <<>>, tlen |-> 0,
   entries |-> entries, devtab |-> devtab]
MC_File(nlink, size, blocks, xattrs) ==
  [type |-> "reg", onhost |-> TRUE, nlink |-> nlink, size |-> size,
   blocks |-> blocks, xattrs |-> xattrs, tlen |-> 0,
   entries |-> <<>>, devtab |-> <<>>]
MC_Other(type, onhost, tlen) ==
  [type |-> type, onhost |-> onhost, nlink |-> 1, size |-> tlen,
   blocks |-> <<>>, xattrs |-> <<>>, tlen |-> tlen,
   entries |-> <<>>, devtab |-> <<>>]
MC_DevDir(devtab) == [MC_Dir(<<>>, devtab) EXCEPT !.onhost = FALSE]

Full(out)  == [len |-> 4096, zero |-> FALSE, out |-> out]
Hole       == [len |-> 4096, zero |-> TRUE, out |-> 0]
Last4k(n)  == [len |-> n, zero |-> FALSE, out |-> n]
E(name, id) == [name |-> name, id |-> id]
X(name, len) == [name |-> name, len |-> len]

(* A tree that exercises every kind of host inode: a file with an xattr    *)
(* and a short last block, a sparse file, a subdirectory holding one link *)
(* of a hard-linked file whose other link is in the root, a symlink, and  *)
(* a device table adding a character device and a directory with a block *)
(* device under the root.                                                  *)
MC_Rich(withDevtab) ==
  [root |-> 1,
   node |-> (1 :> MC_Dir(<<E(<<97>>, 2), E(<<100>>, 3), E(<<104, 50>>, 4),
                           E(<<122>>, 6)>>,
                         IF withDevtab THEN <<E(<<99>>, 7), E(<<100, 100>>, 8)>>
                                       ELSE <<>>))
         @@ (2 :> MC_File(1, 4196, <<Full(2000), Last4k(100)>>,
                          <<X(<<117, 46, 97>>, 10)>>))
         @@ (3 :> MC_Dir(<<E(<<104>>, 4), E(<<108>>, 5)>>, <<>>))
         @@ (4 :> MC_File(2, 4096, <<Full(4096)>>, <<X(<<117, 46, 98>>, 0)>>))
         @@ (5 :> MC_Other("lnk", TRUE, 10))
         @@ (6 :> MC_File(1, 8192, <<Hole, Full(300)>>, <<>>))
         @@ (7 :> MC_Other("chr", FALSE, 0))
         @@ (8 :> MC_DevDir(<<E(<<99, 50>>, 9)>>))
         @@ (9 :> MC_Other("blk", FALSE, 0)),
   attr |-> [h \in 1..9 |-> 0]]

(* Trees on which write_data stops with an error: a file that grew after  *)
(* lstat, a regular file in the device table, a symlink longer than        *)
(* UBIFS_MAX_INO_DATA, a stale image-inode-number attribute.               *)
MC_Grown ==
  [root |-> 1,
   node |-> (1 :> MC_Dir(<<E(<<97>>, 2)>>, <<>>))
         @@ (2 :> MC_File(1, 4096, <<Full(100), Full(100)>>, <<>>)),
   attr |-> [h \in 1..2 |-> 0]]
MC_DevReg ==
  [root |-> 1,
   node |-> (1 :> MC_Dir(<<>>, <<E(<<102>>, 2)>>))
         @@ (2 :> [MC_File(1, 0, <<>>, <<>>) EXCEPT !.onhost = FALSE]),
   attr |-> [h \in 1..2 |-> 0]]
MC_LongLink ==
  [root |-> 1,
   node |-> (1 :> MC_Dir(<<E(<<108>>, 2)>>, <<>>))
         @@ (2 :> MC_Other("lnk", TRUE, 5000)),
   attr |-> [h \in 1..2 |-> 0]]
MC_StaleAttr ==
  [root |-> 1,
   node |-> (1 :> MC_Dir(<<E(<<97>>, 2), E(<<98>>, 3)>>, <<>>))
         @@ (2 :> MC_Other("fifo", TRUE, 0))
         @@ (3 :> MC_File(1, 100, <<Last4k(100)>>, <<>>)),
   attr |-> (1 :> 1) @@ (2 :> 65) @@ (3 :> 65)]

(* Hard links whose other links lie outside the tree, and no -r at all.    *)
MC_OuterLink ==
  [root |-> 1,
   node |-> (1 :> MC_Dir(<<E(<<97>>, 2), E(<<115>>, 3)>>, <<>>))
         @@ (2 :> MC_File(3, 0, <<>>, <<>>))
         @@ (3 :> MC_Other("sock", TRUE, 0)),
   attr |-> [h \in 1..3 |-> 0]]
MC_NoRoot ==
  [root |-> 1,
   node |-> (1 :> [MC_Dir(<<>>, <<>>) EXCEPT !.onhost = FALSE]),
   attr |-> (1 :> 0)]

(* No -r and a device table adding a character device under "/".        *)
MC_DevNoRoot ==
  [root |-> 1,
   node |-> (1 :> MC_DevDir(<<E(<<99>>, 2)>>))
         @@ (2 :> MC_Other("chr", FALSE, 0)),
   attr |-> [h \in 1..2 |-> 0]]

(* A tree without hard links: a file and a directory holding a fifo.      *)
MC_Plain ==
  [root |-> 1,
   node |-> (1 :> MC_Dir(<<E(<<97>>, 2), E(<<100>>, 3)>>, <<>>))
         @@ (2 :> MC_File(1, 100, <<Last4k(100)>>, <<>>))
         @@ (3 :> MC_Dir(<<E(<<98>>, 4)>>, <<>>))
         @@ (4 :> MC_Other("fifo", TRUE, 0)),
   attr |-> [h \in 1..4 |-> 0]]

(* Trees large enough for the image to span several LEBs.  MC_Big: twelve *)
(* files of 16 blocks that compress to 8 bytes each (about 220 leaves, so *)
(* an authenticated index fills more than one LEB) and a file of 4 blocks *)
(* that do not compress.  MC_Huge: three files of 12 incompressible     *)
(* blocks, 12 LEBs of data.                                                                 *)
BigName(k) == <<102, 48 + k>>
MC_Big ==
  [root |-> 1,
   node |-> (1 :> MC_Dir([k \in 1..13 |-> IF k = 13 THEN E(<<98>>, 14)
                                          ELSE E(BigName(k), k + 1)], <<>>))
         @@ [h \in 2..13 |-> MC_File(1, 16 * 4096, [k \in 1..16 |-> Full(8)],
                                     <<>>)]
         @@ (14 :> MC_File(1, 4 * 4096, [k \in 1..4 |-> Full(4096)], <<>>)),
   attr |-> [h \in 1..14 |-> 0]]
MC_Huge ==
  [root |-> 1,
   node |-> (1 :> MC_Dir(<<E(<<97>>, 2), E(<<98>>, 3), E(<<99>>, 4)>>, <<>>))
         @@ [h \in 2..4 |-> MC_File(1, 12 * 4096, [k \in 1..12 |-> Full(4096)],
                                    <<>>)],
   attr |-> [h \in 1..4 |-> 0]]

MC_Names == {<<97>>, <<98>>, <<99>>, <<100>>, <<102>>, <<104>>, <<108>>,
             <<115>>, <<122>>, <<104, 50>>, <<100, 100>>, <<99, 50>>,
             <<117, 46, 97>>, <<117, 46, 98>>} \cup {BigName(k) : k \in 1..12}

(* key_r5_hash stand-in with collisions: names of equal length collide.    *)
MC_NameHash == [n \in MC_Names |-> Len(n)]

====
