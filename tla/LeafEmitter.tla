---------------------------- MODULE LeafEmitter ----------------------------
(***************************************************************************)
(* write_data of mkfs.ubifs: the walk of the host tree that turns every    *)
(* directory, file, link, device and extended attribute into UBIFS leaf    *)
(* nodes, places each through the write head and records it in idx_list.  *)
(* Source: src/ubifs-utils/mkfs.ubifs/mkfs.ubifs.c, add_node .. write_data.*)
(*                                                                         *)
(* The recursion of add_directory is an explicit stack of frames, one per  *)
(* open directory.  A step handles one directory entry: for a directory    *)
(* it opens the child's frame, for anything else it runs add_non_dir and   *)
(* the entry's create_inum_attr and add_dent_node to the end.  Closing a   *)
(* frame writes the directory inode and finishes the parent's entry.       *)
(*                                                                         *)
(* The host tree is an input: a record with, for each host inode id, its   *)
(* lstat fields, the blocks read(2) returns, its xattrs, its readdir       *)
(* entries and the device-table entries of its path.  The state of the    *)
(* builder is one record em, so that the C helpers become operators that  *)
(* chain, and an error stops every later helper as the C returns do.      *)
(***************************************************************************)
EXTENDS Integers, Sequences, FiniteSets, SequencesExt

CONSTANTS
  LebSize, MinIoSize, MainFirst, MainLebs,  \* geometry, as in WriteHead
  Trees,            \* host trees (with their device tables) a run starts from
  InumAttrModes,    \* values of do_create_inum_attr (-a) to try
  NameHash          \* key_r5_hash, from names to hash values

WH == INSTANCE WriteHead

(* On-flash sizes and numbers (ubifs-media.h).                             *)
UBIFS_ROOT_INO     == 1
UBIFS_FIRST_INO    == 64
UBIFS_INO_NODE_SZ  == 160
UBIFS_DENT_NODE_SZ == 56
UBIFS_XENT_NODE_SZ == 56
UBIFS_DATA_NODE_SZ == 48
UBIFS_BLOCK_SIZE   == 4096
UBIFS_MAX_INO_DATA == 4096
CALC_DENT_SIZE(n)   == WH!Align(UBIFS_DENT_NODE_SZ + n + 1, 8)
CALC_XATTR_BYTES(n) == WH!Align(n, 8)

(* Key types; a key is <<inum, type, hash or block>> as keys_cmp orders it.*)
UBIFS_INO_KEY  == 0
UBIFS_DATA_KEY == 1
UBIFS_DENT_KEY == 2
UBIFS_XENT_KEY == 3

(* The name of the attribute create_inum_attr sets, as a name value.       *)
ImageInumAttr == <<0>>

NoErr == "none"

(* A node as written: Blank with the fields of its kind filled in.         *)
Blank == [kind |-> "", inum |-> 0, creat |-> 0, nlink |-> 0, size |-> 0,
          xcnt |-> 0, xsize |-> 0, xnames |-> 0, type |-> "", dlen |-> 0,
          block |-> 0, host |-> 0]

NoAcc == [cnt |-> 0, size |-> 0, names |-> 0]

VARIABLES
  tree,   \* the host tree of this run (never changes)
  phase,  \* "start", "walk", "multi", "done" or "error"
  em,     \* the builder's globals, see InitEm
  stack   \* open add_directory frames, innermost last

vars == <<tree, phase, em, stack>>

Node(h) == tree.node[h]

(* The builder as init() and get_options leave it.                         *)
InitEm(T, a) ==
  [wh           |-> WH!InitHead(MainFirst),
   nodes        |-> <<>>,               \* idx_list plus what each node holds
   highest_inum |-> UBIFS_FIRST_INO,
   max_sqnum    |-> 0,
   creat_sqnum  |-> 0,
   table        |-> [h \in DOMAIN T.node |-> [use_inum |-> 0, use_nlink |-> 0]],
   attr         |-> T.attr,             \* host user.image-inode-number
   inum_attr    |-> a,                  \* do_create_inum_attr
   multi_left   |-> {},
   xacc         |-> NoAcc,              \* xattr fields of the inode being built
   err          |-> NoErr]

Fail(s, why) == IF s.err = NoErr THEN [s EXCEPT !.err = why] ELSE s

-----------------------------------------------------------------------------
(* add_to_index: the node, placed at r by reserve_space, gets the next     *)
(* sqnum (ubifs_prepare_node in add_node) and is appended to idx_list.     *)
add_to_index(s, r, key, name, len, info) ==
  [s EXCEPT !.wh = r.w, !.max_sqnum = @ + 1,
            !.nodes = Append(@, [key |-> key, name |-> name,
                                 lnum |-> r.lnum, offs |-> r.offs,
                                 len |-> len, sqnum |-> s.max_sqnum + 1,
                                 info |-> info])]

(* add_node: reserve_space, whose error (a LEB the sink refused) is        *)
(* returned, then add_to_index.                                            *)
Placed(s, r, key, name, len, info) ==
  IF r.w.ioerr THEN Fail([s EXCEPT !.wh = r.w], "io")
  ELSE add_to_index(s, r, key, name, len, info)

add_node(s, key, name, len, info) ==
  IF s.err # NoErr THEN s
  ELSE Placed(s, WH!reserve_space(s.wh, len), key, name, len, info)

(* Mutant: the xattr's value bytes left out of xattr_size.                 *)
add_xattr_no_value(s, host_inum, x) ==
  LET nlen == Len(x.name)
      xinum == s.highest_inum + 1
      cs == s.max_sqnum + 1
      s1 == [s EXCEPT !.xacc = [cnt |-> @.cnt + 1,
                                size |-> @.size + CALC_DENT_SIZE(nlen),
                                names |-> @.names + nlen],
                      !.highest_inum = xinum, !.max_sqnum = cs,
                      !.creat_sqnum = cs]
      s2 == add_node(s1, <<host_inum, UBIFS_XENT_KEY, NameHash[x.name]>>, x.name,
                     UBIFS_XENT_NODE_SZ + nlen + 1,
                     [Blank EXCEPT !.kind = "xent", !.inum = xinum, !.type = "reg"])
  IN add_node(s2, <<xinum, UBIFS_INO_KEY, 0>>, <<>>, UBIFS_INO_NODE_SZ + x.len,
              [Blank EXCEPT !.kind = "ino", !.inum = xinum, !.creat = cs,
                            !.nlink = 1, !.size = x.len, !.type = "xattr",
                            !.dlen = x.len])

(* add_xattr: account the attribute in the host inode, take a new inode    *)
(* number and creat_sqnum, write the xattr entry under the host's number  *)
(* and then the xattr inode.                                               *)
add_xattr(s, host_inum, x) ==
  LET nlen == Len(x.name)
      xinum == s.highest_inum + 1
      cs == s.max_sqnum + 1
      s1 == [s EXCEPT !.xacc = [cnt |-> @.cnt + 1,
                                size |-> @.size + CALC_DENT_SIZE(nlen)
                                                + CALC_XATTR_BYTES(x.len),
                                names |-> @.names + nlen],
                      !.highest_inum = xinum, !.max_sqnum = cs,
                      !.creat_sqnum = cs]
      s2 == add_node(s1, <<host_inum, UBIFS_XENT_KEY, NameHash[x.name]>>, x.name,
                     UBIFS_XENT_NODE_SZ + nlen + 1,
                     [Blank EXCEPT !.kind = "xent", !.inum = xinum, !.type = "reg"])
  IN add_node(s2, <<xinum, UBIFS_INO_KEY, 0>>, <<>>, UBIFS_INO_NODE_SZ + x.len,
              [Blank EXCEPT !.kind = "ino", !.inum = xinum, !.creat = cs,
                            !.nlink = 1, !.size = x.len, !.type = "xattr",
                            !.dlen = x.len])

(* The attribute list llistxattr returns for host inode h: the one         *)
(* create_inum_attr may have set, then the others.                         *)
HostXattrs(s, h) ==
  (IF s.attr[h] # 0 THEN <<[name |-> ImageInumAttr, len |-> 0]>> ELSE <<>>)
  \o Node(h).xattrs

(* inode_add_xattr: no attributes for a path that is not on the host       *)
(* (ENOENT); user.image-inode-number must name inum and is not copied;     *)
(* every other attribute goes through add_xattr.                           *)
inode_add_xattr(s, h, inum) ==
  IF ~Node(h).onhost THEN s
  ELSE FoldLeft(LAMBDA t, x :
                  IF t.err # NoErr THEN t
                  ELSE IF x.name = ImageInumAttr
                    THEN IF t.attr[h] # inum THEN Fail(t, "inum mismatch") ELSE t
                  ELSE add_xattr(t, inum, x),
                s, HostXattrs(s, h))

(* add_inode: the inode takes the current creat_sqnum, its xattrs are      *)
(* added (when there is a path to read them from), then the inode node.    *)
InoNodeOf(s1, h, inum, cs, size, nlink, data_len, type) ==
  add_node(s1, <<inum, UBIFS_INO_KEY, 0>>, <<>>, UBIFS_INO_NODE_SZ + data_len,
           [Blank EXCEPT !.kind = "ino", !.inum = inum, !.creat = cs,
                         !.nlink = nlink, !.size = size, !.type = type, !.host = h,
                         !.dlen = data_len, !.xcnt = s1.xacc.cnt,
                         !.xsize = s1.xacc.size, !.xnames = s1.xacc.names])

add_inode(s, h, inum, size, nlink, data_len, xattr_path, type) ==
  InoNodeOf(IF xattr_path THEN inode_add_xattr([s EXCEPT !.xacc = NoAcc], h, inum)
                          ELSE [s EXCEPT !.xacc = NoAcc],
            h, inum, s.creat_sqnum, size, nlink, data_len, type)

(* add_file: read the file block by block; an all-zero block is a hole,    *)
(* any other becomes a data node of its compressed length.  The bytes read *)
(* must add up to the size lstat gave, then the inode is written.          *)
FileBlocks(s, h, inum) ==
  FoldLeft(LAMBDA acc, b :
             [s |-> IF b.zero THEN acc.s
                    ELSE add_node(acc.s, <<inum, UBIFS_DATA_KEY, acc.block_no>>,
                                  <<>>, UBIFS_DATA_NODE_SZ + b.out,
                                  [Blank EXCEPT !.kind = "data",
                                     !.inum = inum, !.block = acc.block_no,
                                     !.dlen = b.len]),
              block_no |-> acc.block_no + 1,
              file_size |-> acc.file_size + b.len],
           [s |-> s, block_no |-> 0, file_size |-> 0], Node(h).blocks)

FileEnd(f, h, inum, nlink) ==
  IF f.file_size # Node(h).size THEN Fail(f.s, "file size changed")
  ELSE add_inode(f.s, h, inum, Node(h).size, nlink, 0, TRUE, "reg")

(* Mutant: no check of the bytes read against st_size.                    *)
add_file_no_size_check(s, h, inum, nlink) ==
  add_inode(FileBlocks(s, h, inum).s, h, inum, Node(h).size, nlink, 0, TRUE, "reg")

add_file(s, h, inum, nlink) == FileEnd(FileBlocks(s, h, inum), h, inum, nlink)

-----------------------------------------------------------------------------
(* The stat fields add_non_dir sees: lstat's for a host entry; for a      *)
(* device-table entry, root_st copied with st_nlink set to 1.              *)
St(h, dev) ==
  IF dev THEN [size |-> Node(tree.root).size, nlink |-> 1]
  ELSE [size |-> Node(h).size, nlink |-> Node(h).nlink]

(* Mutants: a later link that does not give back its inode number, and   *)
(* one that is not counted in use_nlink.                                   *)
add_non_dir_no_rollback(s, h, inum, nlink, st) ==
  LET type == Node(h).type
      im   == s.table[h]
      n    == IF nlink # 0 THEN nlink ELSE 1
      s1   == [s EXCEPT !.max_sqnum = @ + 1, !.creat_sqnum = s.max_sqnum + 1]
  IN IF nlink = 0 /\ st.nlink > 1
       THEN IF im.use_nlink = 0
              THEN [s |-> [s EXCEPT !.table[h] = [use_inum |-> inum, use_nlink |-> 1]],
                    inum |-> inum]
              ELSE [s |-> [s EXCEPT !.table[h].use_nlink = @ + 1],
                    inum |-> im.use_inum]
     ELSE [inum |-> inum,
           s |-> CASE type = "reg" -> add_file(s1, h, inum, n)
                   [] type \in {"chr", "blk"} ->
                        add_inode(s1, h, inum, st.size, n, 8, TRUE, type)
                   [] type = "lnk" ->
                        IF ~Node(h).onhost THEN Fail(s1, "readlink")
                        ELSE IF Node(h).tlen > UBIFS_MAX_INO_DATA
                          THEN Fail(s1, "symlink too long")
                        ELSE add_inode(s1, h, inum, st.size, n, Node(h).tlen, TRUE, type)
                   [] type \in {"sock", "fifo"} ->
                        add_inode(s1, h, inum, st.size, n, 0, FALSE, type)]

add_non_dir_no_count(s, h, inum, nlink, st) ==
  LET type == Node(h).type
      im   == s.table[h]
      n    == IF nlink # 0 THEN nlink ELSE 1
      s1   == [s EXCEPT !.max_sqnum = @ + 1, !.creat_sqnum = s.max_sqnum + 1]
  IN IF nlink = 0 /\ st.nlink > 1
       THEN IF im.use_nlink = 0
              THEN [s |-> [s EXCEPT !.table[h] = [use_inum |-> inum, use_nlink |-> 1]],
                    inum |-> inum]
              ELSE [s |-> [s EXCEPT !.highest_inum = @ - 1],
                    inum |-> im.use_inum]
     ELSE [inum |-> inum,
           s |-> CASE type = "reg" -> add_file(s1, h, inum, n)
                   [] type \in {"chr", "blk"} ->
                        add_inode(s1, h, inum, st.size, n, 8, TRUE, type)
                   [] type = "lnk" ->
                        IF ~Node(h).onhost THEN Fail(s1, "readlink")
                        ELSE IF Node(h).tlen > UBIFS_MAX_INO_DATA
                          THEN Fail(s1, "symlink too long")
                        ELSE add_inode(s1, h, inum, st.size, n, Node(h).tlen, TRUE, type)
                   [] type \in {"sock", "fifo"} ->
                        add_inode(s1, h, inum, st.size, n, 0, FALSE, type)]

(* add_non_dir: an inode with more than one host link, met through a      *)
(* directory, is parked in the hash table (lookup_inum_mapping); a later   *)
(* link reuses the first link's number and returns its own.  Otherwise    *)
(* the inode gets a creat_sqnum and is written by type.  Returns the new  *)
(* builder state and the inode number the entry points to.                 *)
add_non_dir(s, h, inum, nlink, st) ==
  LET type == Node(h).type
      im   == s.table[h]
      n    == IF nlink # 0 THEN nlink ELSE 1
      s1   == [s EXCEPT !.max_sqnum = @ + 1, !.creat_sqnum = s.max_sqnum + 1]
  IN IF nlink = 0 /\ st.nlink > 1
       THEN IF im.use_nlink = 0
              THEN [s |-> [s EXCEPT !.table[h] = [use_inum |-> inum, use_nlink |-> 1]],
                    inum |-> inum]
              ELSE [s |-> [s EXCEPT !.table[h].use_nlink = @ + 1,
                                    !.highest_inum = @ - 1],
                    inum |-> im.use_inum]
     ELSE [inum |-> inum,
           s |-> CASE type = "reg" -> add_file(s1, h, inum, n)
                   [] type \in {"chr", "blk"} ->
                        add_inode(s1, h, inum, st.size, n, 8, TRUE, type)
                   [] type = "lnk" ->
                        IF ~Node(h).onhost THEN Fail(s1, "readlink")
                        ELSE IF Node(h).tlen > UBIFS_MAX_INO_DATA
                          THEN Fail(s1, "symlink too long")
                        ELSE add_inode(s1, h, inum, st.size, n, Node(h).tlen, TRUE, type)
                   [] type \in {"sock", "fifo"} ->
                        add_inode(s1, h, inum, st.size, n, 0, FALSE, type)]

(* create_inum_attr: with -a, lsetxattr user.image-inode-number on the     *)
(* host path; it fails on a path the host does not have.                   *)
create_inum_attr(s, inum, h) ==
  IF s.err # NoErr \/ ~s.inum_attr THEN s
  ELSE IF ~Node(h).onhost THEN Fail(s, "lsetxattr")
  ELSE [s EXCEPT !.attr[h] = inum]

(* add_dent_node: the entry is keyed by the directory's inode number and  *)
(* the hash of its name.                                                   *)
add_dent_node(s, dir_inum, name, inum, type) ==
  add_node(s, <<dir_inum, UBIFS_DENT_KEY, NameHash[name]>>, name,
           UBIFS_DENT_NODE_SZ + Len(name) + 1,
           [Blank EXCEPT !.kind = "dent", !.inum = inum, !.type = type])

-----------------------------------------------------------------------------
(* Mutant: a directory's size starting from 0.                            *)
OpenFrame_zero_size(s, h, inum, existing) ==
  [s |-> [s EXCEPT !.max_sqnum = @ + 1],
   f |-> [h |-> h, inum |-> inum, existing |-> existing,
          stage |-> IF existing THEN "host" ELSE "dev", pos |-> 1,
          size |-> 0, nlink |-> 2, dsq |-> s.max_sqnum + 1]]

(* The head of add_directory: dir_creat_sqnum is taken before anything     *)
(* else; a directory that exists on the host is read first ("host"), then *)
(* the device-table entries of its path ("dev").                           *)
OpenFrame(s, h, inum, existing) ==
  [s |-> [s EXCEPT !.max_sqnum = @ + 1],
   f |-> [h |-> h, inum |-> inum, existing |-> existing,
          stage |-> IF existing THEN "host" ELSE "dev", pos |-> 1,
          size |-> UBIFS_INO_NODE_SZ, nlink |-> 2, dsq |-> s.max_sqnum + 1]]

Entries(f) == IF f.stage = "host" THEN Node(f.h).entries ELSE Node(f.h).devtab

Top == stack[Len(stack)]

(* Mutant: the entry's size added unaligned.                               *)
FinishEntry_unaligned(s, f, inum, type) ==
  LET e == Entries(f)[f.pos]
  IN [s |-> add_dent_node(create_inum_attr(s, inum, e.id), f.inum, e.name,
                          inum, type),
      f |-> [f EXCEPT !.pos = @ + 1,
                      !.size = @ + UBIFS_DENT_NODE_SZ + Len(e.name) + 1]]

(* Mutant: the attribute set to the directory's number, not the entry's.  *)
FinishEntry_dir_inum(s, f, inum, type) ==
  LET e == Entries(f)[f.pos]
  IN [s |-> add_dent_node(create_inum_attr(s, f.inum, e.id), f.inum, e.name,
                          inum, type),
      f |-> [f EXCEPT !.pos = @ + 1, !.size = @ + CALC_DENT_SIZE(Len(e.name))]]

(* The tail of one loop iteration of add_directory, once the entry's      *)
(* inode is done: create_inum_attr, add_dent_node, size.                   *)
FinishEntry(s, f, inum, type) ==
  LET e == Entries(f)[f.pos]
  IN [s |-> add_dent_node(create_inum_attr(s, inum, e.id), f.inum, e.name,
                          inum, type),
      f |-> [f EXCEPT !.pos = @ + 1, !.size = @ + CALC_DENT_SIZE(Len(e.name))]]

PhaseAfter(s, ok) == IF s.err = NoErr THEN ok ELSE "error"

(* The walk goes on with builder state x.s and innermost frame x.f.        *)
WalkOn(x) ==
  /\ em' = x.s
  /\ stack' = [stack EXCEPT ![Len(stack)] = x.f]
  /\ phase' = PhaseAfter(x.s, "walk")

(* A device table was parsed, so devtbl_find_path searches path_htbl.    *)
DevtableLoaded == \E h \in DOMAIN tree.node : tree.node[h].devtab # <<>>

(* Without -r, root is NULL and root_len 0: add_directory passes           *)
(* NULL + root_len - 1 to devtbl_find_path (line 1951).  With no table     *)
(* loaded the lookup returns before using it; with one, the hash of the    *)
(* string at that address is undefined behaviour.                          *)
RootLookupUB == ~Node(tree.root).onhost /\ DevtableLoaded

(* write_data up to add_directory of the root.                             *)
WriteDataStart ==
  /\ phase = "start"
  /\ LET s1 == create_inum_attr(em, UBIFS_ROOT_INO, tree.root)
         o  == OpenFrame(s1, tree.root, UBIFS_ROOT_INO, Node(tree.root).onhost)
     IN /\ ~(RootLookupUB /\ s1.err = NoErr)
        /\ em' = IF s1.err = NoErr THEN o.s ELSE s1
        /\ stack' = IF s1.err = NoErr THEN <<o.f>> ELSE <<>>
        /\ phase' = PhaseAfter(s1, "walk")
  /\ UNCHANGED tree

(* The outcomes of the lookup at NULL - 1 on this build: the process dies  *)
(* (SIGSEGV reading the unmapped address), or the lookup matches nothing   *)
(* and the root's device-table loop runs no iteration.                     *)
NoRootOpen(s1) ==
  /\ s1.err = NoErr
  /\ \/ phase' = "crashed" /\ UNCHANGED <<em, stack>>
     \/ LET o == OpenFrame(s1, tree.root, UBIFS_ROOT_INO, FALSE)
        IN /\ em' = o.s
           /\ stack' = <<[o.f EXCEPT !.pos = Len(Node(tree.root).devtab) + 1]>>
           /\ phase' = "walk"

(* write_data up to add_directory of the root, no -r and a device table.  *)
WriteDataStartNoRoot ==
  /\ phase = "start"
  /\ RootLookupUB
  /\ NoRootOpen(create_inum_attr(em, UBIFS_ROOT_INO, tree.root))
  /\ UNCHANGED tree

(* The current entry, from readdir or from the device table.  The device  *)
(* table may not create a regular file.                                    *)
CurrentEntry ==
  /\ phase = "walk"
  /\ Top.pos <= Len(Entries(Top))

DevTableRegular ==
  /\ CurrentEntry
  /\ Top.stage = "dev"
  /\ Node(Entries(Top)[Top.pos].id).type = "reg"
  /\ em' = Fail(em, "devtable regular file")
  /\ phase' = "error"
  /\ UNCHANGED <<tree, stack>>

(* An entry that is a directory: inum = ++highest_inum and the recursive   *)
(* add_directory starts.                                                   *)
OpenDir ==
  /\ CurrentEntry
  /\ LET e == Entries(Top)[Top.pos]
         o == OpenFrame([em EXCEPT !.highest_inum = @ + 1], e.id,
                        em.highest_inum + 1, Top.stage = "host")
     IN /\ Node(e.id).type = "dir"
        /\ em' = o.s
        /\ stack' = Append(stack, o.f)
  /\ UNCHANGED <<tree, phase>>

(* The entry points at the number add_non_dir returned.                   *)
NonDirEntry(r, f, type) == FinishEntry(r.s, f, r.inum, type)

(* An entry that is not a directory, from inum = ++highest_inum to the     *)
(* size update.                                                            *)
AddNonDir ==
  /\ CurrentEntry
  /\ LET e == Entries(Top)[Top.pos]
     IN /\ Node(e.id).type \notin {"dir", "reg"} \/ Top.stage = "host"
        /\ Node(e.id).type # "dir"
        /\ WalkOn(NonDirEntry(add_non_dir([em EXCEPT !.highest_inum = @ + 1], e.id,
                                            em.highest_inum + 1, 0,
                                            St(e.id, Top.stage = "dev")),
                               Top, Node(e.id).type))
  /\ UNCHANGED tree

(* readdir returns NULL: the device-table entries of the path come next.   *)
ReaddirEnd ==
  /\ phase = "walk"
  /\ Top.stage = "host"
  /\ Top.pos > Len(Entries(Top))
  /\ stack' = [stack EXCEPT ![Len(stack)] = [Top EXCEPT !.stage = "dev", !.pos = 1]]
  /\ UNCHANGED <<tree, phase, em>>

ParentOn(x, rest) ==
  /\ em' = x.s
  /\ stack' = [rest EXCEPT ![Len(rest)] = x.f]
  /\ phase' = PhaseAfter(x.s, "walk")

(* Back in the parent after add_dir_inode wrote s1's last node: nlink += 1 *)
(* and the parent's entry finishes.  When the root closes, write_data      *)
(* goes on to add_multi_linked_files with the inodes parked in the table.  *)
DirClosed(s1) ==
  LET rest == SubSeq(stack, 1, Len(stack) - 1)
  IN IF rest = <<>>
       THEN /\ em' = [s1 EXCEPT !.multi_left =
                        {h \in DOMAIN s1.table : s1.table[h].use_nlink > 0}]
            /\ stack' = rest
            /\ phase' = PhaseAfter(s1, "multi")
       ELSE ParentOn(FinishEntry(s1, [rest[Len(rest)] EXCEPT !.nlink = @ + 1],
                                 Top.inum, "dir"), rest)

(* Mutant: the directory inode written with the creat_sqnum its last      *)
(* child left behind.                                                      *)
CloseDir_no_restore ==
  /\ phase = "walk"
  /\ Top.stage = "dev"
  /\ Top.pos > Len(Entries(Top))
  /\ DirClosed(add_inode(em, Top.h, Top.inum, Top.size, Top.nlink, 0,
                         Top.existing, "dir"))
  /\ UNCHANGED tree

(* The tail of add_directory: creat_sqnum = dir_creat_sqnum and            *)
(* add_dir_inode; back in the parent, nlink += 1 and the entry finishes.   *)
(* When the root closes, write_data goes on to add_multi_linked_files.    *)
CloseDir ==
  /\ phase = "walk"
  /\ Top.stage = "dev"
  /\ Top.pos > Len(Entries(Top))
  /\ DirClosed(add_inode([em EXCEPT !.creat_sqnum = Top.dsq], Top.h, Top.inum,
                         Top.size, Top.nlink, 0, Top.existing, "dir"))
  /\ UNCHANGED tree

MultiDone(s, h) ==
  /\ em' = [s EXCEPT !.multi_left = @ \ {h}]
  /\ phase' = PhaseAfter(s, "multi")

(* add_multi_linked_files: the parked inodes in hash-table order, which    *)
(* for host inode numbers below HASH_TABLE_SIZE is ascending.              *)
AddMultiLinked ==
  /\ phase = "multi"
  /\ em.multi_left # {}
  /\ LET h == CHOOSE x \in em.multi_left : \A y \in em.multi_left : x <= y
         im == em.table[h]
     IN MultiDone(add_non_dir(em, h, im.use_inum, im.use_nlink, St(h, FALSE)).s, h)
  /\ UNCHANGED <<tree, stack>>

(* The flush_nodes that ends write_data; its error is write_data's.        *)
Flushed(w) ==
  /\ em' = IF w.ioerr THEN Fail([em EXCEPT !.wh = w], "io")
                      ELSE [em EXCEPT !.wh = w]
  /\ phase' = IF w.ioerr THEN "error" ELSE "done"

FinalFlush ==
  /\ phase = "multi"
  /\ em.multi_left = {}
  /\ Flushed(WH!flush_nodes(em.wh))
  /\ UNCHANGED <<tree, stack>>

Init ==
  /\ tree \in Trees
  /\ phase = "start"
  /\ \E a \in InumAttrModes : em = InitEm(tree, a)
  /\ stack = <<>>

Next ==
  \/ WriteDataStart \/ WriteDataStartNoRoot \/ DevTableRegular \/ OpenDir \/ AddNonDir
  \/ ReaddirEnd \/ CloseDir \/ AddMultiLinked \/ FinalFlush

Spec == Init /\ [][Next]_vars

FairSpec == Spec /\ WF_vars(Next)

-----------------------------------------------------------------------------
TypeOK ==
  /\ phase \in {"start", "walk", "multi", "done", "error", "crashed"}
  /\ em.highest_inum >= UBIFS_FIRST_INO
  /\ em.creat_sqnum <= em.max_sqnum
  /\ \A i \in 1..Len(stack) :
       /\ stack[i].stage \in {"host", "dev"}
       /\ stack[i].nlink >= 2
       /\ stack[i].size >= UBIFS_INO_NODE_SZ
       /\ stack[i].dsq <= em.max_sqnum
  /\ \A i \in DOMAIN em.nodes :
       em.nodes[i].info.kind \in {"ino", "dent", "xent", "data"}

Done == phase = "done"
N == em.nodes
Idx(kind) == {i \in DOMAIN N : N[i].info.kind = kind}
InoNode(inum) == CHOOSE i \in Idx("ino") : N[i].info.inum = inum
DentsOf(dir_inum) == {i \in Idx("dent") : N[i].key[1] = dir_inum}
DentsTo(inum) == {i \in Idx("dent") : N[i].info.inum = inum}
XentsOf(inum) == {i \in Idx("xent") : N[i].key[1] = inum}
SumOver(S, F(_)) == FoldSet(LAMBDA i, acc : F(i) + acc, 0, S)

(* Inode numbers: after write_data every number handed out names exactly  *)
(* one inode node: the root's 1 and UBIFS_FIRST_INO + 1 .. highest_inum    *)
(* without gaps.  This needs the highest_inum rollback of a second hard    *)
(* link in add_non_dir and the xattr inodes' numbers taken by add_xattr.   *)
InumsDense ==
  Done =>
    /\ {N[i].info.inum : i \in Idx("ino")}
         = {UBIFS_ROOT_INO} \cup (UBIFS_FIRST_INO + 1 .. em.highest_inum)
    /\ \A i, j \in Idx("ino") : N[i].info.inum = N[j].info.inum => i = j

(* Link counts: every entry points at an inode of its type; a directory   *)
(* has 2 + its subdirectories links and one entry (none for the root), an *)
(* xattr inode one xattr entry, and any other inode as many links as the  *)
(* entries that point at it, hard links counted in the hash table         *)
(* included.                                                               *)
LinkCounts ==
  Done =>
    /\ \A d \in Idx("dent") :
         N[InoNode(N[d].info.inum)].info.type = N[d].info.type
    /\ \A i \in Idx("ino") :
         LET ino == N[i].info
         IN CASE ino.type = "dir" ->
                   /\ ino.nlink = 2 + Cardinality({d \in DentsOf(ino.inum) :
                                                   N[d].info.type = "dir"})
                   /\ Cardinality(DentsTo(ino.inum))
                        = IF ino.inum = UBIFS_ROOT_INO THEN 0 ELSE 1
              [] ino.type = "xattr" ->
                   /\ ino.nlink = 1
                   /\ Cardinality({x \in Idx("xent") : N[x].info.inum = ino.inum}) = 1
              [] OTHER -> ino.nlink = Cardinality(DentsTo(ino.inum))

(* A directory inode's size is UBIFS_INO_NODE_SZ plus CALC_DENT_SIZE of   *)
(* every entry written under it, host and device-table entries alike.      *)
DirSizes ==
  Done =>
    \A i \in Idx("ino") :
      N[i].info.type = "dir" =>
        N[i].info.size = UBIFS_INO_NODE_SZ
                         + SumOver(DentsOf(N[i].info.inum),
                                   LAMBDA d : CALC_DENT_SIZE(Len(N[d].name)))

(* A host inode's xattr_cnt, xattr_size and xattr_names describe exactly  *)
(* the xattr entries written under its number and their xattr inodes.     *)
XattrAccounting ==
  Done =>
    \A i \in Idx("ino") :
      LET ino == N[i].info
          X   == XentsOf(ino.inum)
      IN /\ ino.xcnt = Cardinality(X)
         /\ ino.xnames = SumOver(X, LAMBDA x : Len(N[x].name))
         /\ ino.xsize = SumOver(X, LAMBDA x :
                            CALC_DENT_SIZE(Len(N[x].name))
                            + CALC_XATTR_BYTES(N[InoNode(N[x].info.inum)].info.size))

(* creat_sqnum: every inode's is below its own sqnum and no two inodes    *)
(* share one; a directory's, captured before its children by               *)
(* add_directory, is below that of every inode it has an entry for.  This *)
(* depends on add_directory restoring the global creat_sqnum that         *)
(* add_non_dir and add_xattr overwrite while the children are written.    *)
CreatSqnumOrder ==
  Done =>
    /\ \A i \in Idx("ino") : N[i].info.creat < N[i].sqnum
    /\ \A i, j \in Idx("ino") : N[i].info.creat = N[j].info.creat => i = j
    /\ \A i \in Idx("ino") : \A d \in DentsOf(N[i].info.inum) :
         N[i].info.creat < N[InoNode(N[d].info.inum)].info.creat

(* Every data node lies inside its file: block * UBIFS_BLOCK_SIZE is below *)
(* the inode's size, blocks are unique, and the bytes they hold add up to  *)
(* at most that size.                                                      *)
DataWithinSize ==
  Done =>
    \A i \in Idx("ino") :
      LET D == {d \in Idx("data") : N[d].key[1] = N[i].info.inum}
      IN /\ \A d \in D : N[d].info.block * UBIFS_BLOCK_SIZE < N[i].info.size
         /\ \A d, e \in D : N[d].key = N[e].key => d = e
         /\ SumOver(D, LAMBDA d : N[d].info.dlen) <= N[i].info.size

(* With -a, after a successful run every host inode written to the image  *)
(* carries user.image-inode-number equal to its number in the image, so a *)
(* rerun over the same tree accepts it.                                    *)
ImageInumAttrs ==
  (Done /\ em.inum_attr) =>
    \A i \in Idx("ino") :
      N[i].info.host # 0 /\ Node(N[i].info.host).onhost =>
        em.attr[N[i].info.host] = N[i].info.inum

(* -a is documented as creating user.image-inode-number on the files      *)
(* added to the image; no run fails in create_inum_attr.                   *)
InumAttrNeverFails ==
  em.err # "lsetxattr"

(* spec.md 5 and 8: the device table is consulted during the walk and     *)
(* injects its entries, and any failure is reported with an error exit.    *)
(* So the build never dies, and a finished image has a dentry under the    *)
(* root for each device-table entry of "/".  Without -r, line 1951 hands   *)
(* devtbl_find_path NULL + root_len - 1.                                   *)
RootDevtableHonoured ==
  /\ phase # "crashed"
  /\ Done =>
       \A k \in DOMAIN Node(tree.root).devtab :
         \E d \in DentsOf(UBIFS_ROOT_INO) :
           N[d].name = Node(tree.root).devtab[k].name

====
