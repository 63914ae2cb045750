------------------------------- MODULE Fat16 -------------------------------
(***************************************************************************)
(* The FAT16 file system (file_system/fat/fat16.c) and the descriptors of  *)
(* stdio.c in front of it.  A call runs with interrupts off from start to  *)
(* end, so each is one step; what interleaves is the calls through several *)
(* descriptors, each with its own copy of the directory item.              *)
(*                                                                         *)
(* The operators named like functions take the disk and return the changed *)
(* one with their result.  The FAT in memory is the one on disk, and so is *)
(* the cached root directory: both are only written together.              *)
(***************************************************************************)
EXTENDS Integers, Sequences, SequencesExt

CONSTANTS
    Limit,         \* fat16_cluster_limit: clusters are 2 .. Limit - 1
    CLUSTER,       \* bytes of a cluster
    PER_CLUSTER,   \* directory items of a cluster
    ROOT_ENTRIES,
    Bytes,
    Fits,          \* names that fit 8.3 in one case (fat16_make_short_name)
    Long,          \* other valid names
    Fold(_),       \* a name in upper case
    Aliases(_),    \* aliases of a long name in the order they are tried
    LfnCount(_),   \* items a long name takes
    Dirs,          \* paths of calls: a name in the root or in one of these
    Messages, ReadLens,
    Descs,         \* descriptors there is memory for
    Careful        \* programs do not write to a file or remove it behind
                   \* the back of another descriptor

Names == Fits \cup Long
Clusters == 2 .. Limit - 1
ROOT == 0
UNUSED == 0
END_OF_CHAIN == 65535
ERROR == -1
NoName == "no name"
NoPos == <<ERROR, 0>>

ASSUME FatAssumption ==
    /\ Limit \in 3 .. END_OF_CHAIN - 15
    /\ CLUSTER \in Nat \ {0} /\ PER_CLUSTER \in Nat \ {0, 1}
    /\ ROOT_ENTRIES \in Nat \ {0}
    /\ Careful \in BOOLEAN
    /\ ERROR \notin Bytes
    /\ Messages \subseteq Seq(Bytes) /\ ReadLens \subseteq Nat
    /\ Fits \cap Long = {} /\ Dirs \subseteq Names
    /\ \A n \in Long : /\ LfnCount(n) \in Nat \ {0}
                      /\ Aliases(n) \in Seq(Range(Aliases(n)))

VARIABLES
    disk,   \* the FAT, where the search for a free cluster starts, the items
            \* of directories and the bytes of files by cluster
    descs   \* struct fat_file_descriptor

vars == <<disk, descs>>

(* directory items; the root directory is kept as cluster 0 *)
End == [kind |-> "end"]
Deleted == [kind |-> "deleted"]
Lfn(n, last, sum, name) ==
    [kind |-> "lfn", n |-> n, last |-> last, sum |-> sum, name |-> name]
Item(kind, short, first, size) ==
    [kind |-> kind, short |-> short, first |-> first, size |-> size]
Dot == Item("dot", ".", 0, 0)

Slots(c) == 0 .. (IF c = ROOT THEN ROOT_ENTRIES ELSE PER_CLUSTER) - 1
NoItems(c) == [i \in Slots(c) |-> End]
Zero == [i \in 0 .. CLUSTER - 1 |-> 0]

Closed == [mode |-> "closed", item |-> Deleted, pos |-> 0, at |-> <<ROOT, 0>>]

(* fat16_resolve of an empty disk *)
Init ==
    /\ disk = [fat |-> [c \in Clusters |-> UNUSED],
               next_free |-> 0,
               items |-> [c \in Clusters \cup {ROOT} |-> NoItems(c)],
               bytes |-> [c \in Clusters |-> Zero]]
    /\ descs = [f \in Descs |-> Closed]

-----------------------------------------------------------------------------
(* Cluster chains *)

(* the sequence s up to the first element with a property *)
Before(s, Test(_)) ==
    LET n == SelectInSeq(s, Test)
    IN  SubSeq(s, 1, IF n = 0 THEN Len(s) ELSE n - 1)

(* the clusters of the chain from first, until it ends or loops *)
Chain(d, first) ==
    LET follow(c) == IF c \in Clusters THEN d.fat[c] ELSE c
        at[i \in 1 .. Limit - 2] == IF i = 1 THEN first ELSE follow(at[i - 1])
    IN  Before(at, LAMBDA c : c \notin Clusters)

(* fat16_alloc_cluster takes the first free one, from next_free around *)
ScanStep(d, c) ==
    LET start == IF d.next_free \in Clusters THEN d.next_free ELSE 2
    IN  (c - start + Limit - 2) % (Limit - 2)
FreeClusters(d) ==
    LET free == {c \in Clusters : d.fat[c] = UNUSED}
        before(c) == {x \in free : ScanStep(d, x) < ScanStep(d, c)}
    IN  [i \in 1 .. Cardinality(free) |->
            CHOOSE c \in free : Cardinality(before(c)) = i - 1]

(***************************************************************************)
(* fat16_alloc_cluster for the clusters of new, one after the other, and   *)
(* each linked to the one before it by fat16_cluster_at.  New clusters are *)
(* cleared.                                                                *)
(***************************************************************************)
Linked(d, chain, new) ==
    LET all == chain \o new
        link(c) == LET i == CHOOSE i \in DOMAIN all : all[i] = c
                   IN  IF i = Len(all) THEN END_OF_CHAIN ELSE all[i + 1]
        changed == Range(new) \cup (IF chain = <<>> THEN {} ELSE {Last(chain)})
    IN  IF new = <<>> THEN d
        ELSE [fat |-> [c \in Clusters |-> IF c \in changed THEN link(c) ELSE d.fat[c]],
              items |-> [c \in DOMAIN d.items |->
                            IF c \in Range(new) THEN NoItems(c) ELSE d.items[c]],
              bytes |-> [c \in Clusters |->
                            IF c \in Range(new) THEN Zero ELSE d.bytes[c]],
              next_free |-> Last(new) + 1]

(* the clusters that are appended to a chain that should have n *)
Appended(d, chain, n) ==
    LET free == FreeClusters(d)
    IN  IF chain = <<>> \/ d.fat[Last(chain)] = END_OF_CHAIN
        THEN SubSeq(free, 1, Min({n - Len(chain), Len(free)})) ELSE <<>>

(***************************************************************************)
(* fat16_cluster_at of the clusters up to the n-th: a chain that is too    *)
(* short and ends properly is extended as far as the disk has room.        *)
(* Returns the chain, which has less than n clusters in case of an error.  *)
(***************************************************************************)
fat16_cluster_at(d, first, n) ==
    LET extend(chain, new) ==
            [disk |-> Linked(d, chain, new), chain |-> chain \o new]
        chain == Chain(d, first)
    IN  extend(chain, Appended(d, chain, n))

fat16_free_chain(d, first) ==
    LET chain == Range(Chain(d, first))
    IN  [d EXCEPT !.fat = [c \in Clusters |-> IF c \in chain THEN UNUSED ELSE @[c]]]

-----------------------------------------------------------------------------
(* Directories, named by their first cluster *)

(* where the items of a directory are stored *)
Positions(d, dir) ==
    LET items(chain) ==
            [i \in 1 .. PER_CLUSTER * Len(chain) |->
                <<chain[(i - 1) \div PER_CLUSTER + 1], (i - 1) % PER_CLUSTER>>]
    IN  IF dir = ROOT THEN [i \in 1 .. ROOT_ENTRIES |-> <<ROOT, i - 1>>]
        ELSE items(Chain(d, dir))

fat16_dir_entry_pos(d, dir, i) == Positions(d, dir)[i]

(* the items of a directory up to the end marker *)
Entries(d, dir) ==
    LET stored(pos) == [i \in DOMAIN pos |-> d.items[pos[i][1]][pos[i][2]]]
    IN  Before(stored(Positions(d, dir)), LAMBDA e : e = End)

(* items of the long name in front of item i, 0 without a valid one *)
fat16_lfn_count(es, i) ==
    LET part(n) == es[i - n]
        good == {n \in 1 .. i - 1 : \A m \in 1 .. n :
                    part(m).kind = "lfn" /\ part(m).n = m /\ part(m).sum = es[i].short}
        whole == {n \in good : part(n).last}
    IN  IF whole = {} THEN 0 ELSE Min(whole)

IsItem(e) == e.kind \in {"file", "dir"}

fat16_get_item_name(es, i) ==
    IF fat16_lfn_count(es, i) = 0 THEN es[i].short ELSE Fold(es[i - 1].name)

(* the names item i answers to, the long one and the alias, in upper case *)
NamesOf(es, i) == {fat16_get_item_name(es, i), es[i].short}

(* the first item called name, 0 if there is none *)
fat16_find_index(es, name) ==
    LET called == {i \in DOMAIN es : IsItem(es[i]) /\ Fold(name) \in NamesOf(es, i)}
    IN  IF called = {} THEN 0 ELSE Min(called)

(* the entries es at the positions pos *)
fat16_write_dir_entry(d, pos, es) ==
    LET at(c, k) == {i \in DOMAIN pos : pos[i] = <<c, k>>}
    IN  [d EXCEPT !.items = [c \in DOMAIN @ |-> [k \in DOMAIN @[c] |->
            IF at(c, k) = {} THEN @[c][k] ELSE es[CHOOSE i \in at(c, k) : TRUE]]]]

(* count free items in a row, in a directory that may have to grow *)
fat16_find_free_slot(d, dir, es, count) ==
    LET runs == {i \in 1 .. Len(es) - count + 1 :
                    \A k \in i .. i + count - 1 : es[k] = Deleted}
        clusters == (Len(es) + count) \div PER_CLUSTER + 1
        grown(r) == [disk |-> r.disk,
                     slot |-> IF Len(r.chain) < clusters THEN ERROR ELSE Len(es) + 1]
    IN  IF runs # {} THEN [disk |-> d, slot |-> Min(runs)]
        ELSE IF dir = ROOT
             THEN [disk |-> d, slot |-> IF Len(es) + count < ROOT_ENTRIES
                                        THEN Len(es) + 1 ELSE ERROR]
        ELSE grown(fat16_cluster_at(d, dir, clusters))

(* a bug: the alias of a long name is not looked for in the directory *)
ShortNameUnchecked(es, name) ==
    IF name \in Fits THEN Fold(name) ELSE Head(Aliases(name))

(* fat16_make_short_name or else the first alias no item of es has *)
ShortName(es, name) ==
    LET taken(s) == \E i \in DOMAIN es : IsItem(es[i]) /\ es[i].short = s
        free == {i \in DOMAIN Aliases(name) : ~ taken(Aliases(name)[i])}
    IN  IF name \in Fits THEN Fold(name)
        ELSE IF free = {} THEN NoName ELSE Aliases(name)[Min(free)]

(* the items of a name: those of a long one, last part first, and its own *)
NewItems(name, item) ==
    LET n == IF name \in Fits THEN 0 ELSE LfnCount(name)
    IN  [i \in 1 .. n + 1 |-> IF i = n + 1 THEN item
                              ELSE Lfn(n + 1 - i, i = 1, item.short, name)]

(***************************************************************************)
(* A new item called name in the directory with the entries es.  Returns   *)
(* the position of the item.                                               *)
(***************************************************************************)
fat16_create_item(d, dir, es, name, kind, first) ==
    LET short == ShortName(es, name)
        place(new, free) ==
            LET pos == SubSeq(Positions(free.disk, dir),
                              free.slot, free.slot + Len(new) - 1)
            IN  IF free.slot = ERROR THEN [disk |-> free.disk, pos |-> NoPos]
                ELSE [disk |-> fat16_write_dir_entry(free.disk, pos, new),
                      pos |-> Last(pos)]
        add(new) == place(new, fat16_find_free_slot(d, dir, es, Len(new)))
    IN  IF short = NoName THEN [disk |-> d, pos |-> NoPos]
        ELSE add(NewItems(name, Item(kind, short, first, 0)))

-----------------------------------------------------------------------------
(* Calls.  Paths are absolute, without "." and ".." (pathparser_resolve).  *)

Paths == {<<n>> : n \in Names} \cup {<<d, n>> : d \in Dirs, n \in Names}

(* a directory that was searched for a name, index 0 if it is not there *)
Lookup(dir, name) ==
    {[dir |-> dir, entries |-> es, index |-> fat16_find_index(es, name)] :
        es \in {Entries(disk, dir)}}

FoundItem(x) == x.entries[x.index]
FoundAt(x) == fat16_dir_entry_pos(disk, x.dir, x.index)

(***************************************************************************)
(* fat16_get_parent: the directory of a path is the root or a directory in *)
(* it.  Without one the set is empty and the call fails.                   *)
(***************************************************************************)
Parents(path) ==
    IF Len(path) = 1 THEN {ROOT}
    ELSE {FoundItem(x).first :
            x \in {y \in Lookup(ROOT, path[1]) :
                    y.index # 0 /\ FoundItem(y).kind = "dir"}}
Lookups(path) == UNION {Lookup(dir, Last(path)) : dir \in Parents(path)}
Found(path) == {x \in Lookups(path) : x.index # 0}
Missing(path) == {x \in Lookups(path) : x.index = 0}

(* descriptors of the item at a position *)
Users(pos) == {f \in Descs : descs[f].mode # "closed" /\ descs[f].at = pos}
Writers(pos) == {f \in Users(pos) : descs[f].mode # "r"}

(* a descriptor for the item, unless there is no memory for it *)
Opens(mode, item, pos, at) ==
    \/ UNCHANGED descs
    \/ \E f \in Descs :
        /\ descs[f].mode = "closed"
        /\ descs' = [descs EXCEPT ![f] =
                        [mode |-> mode, item |-> item, pos |-> pos, at |-> at]]

(* fopen for reading, of directories too *)
OpenRead(path) ==
    /\ \E x \in Found(path) : Opens("r", FoundItem(x), 0, FoundAt(x))
    /\ UNCHANGED disk

(* fat16_open_for_write of a file that exists *)
OpenExisting(path, mode) ==
    \E x \in Found(path) :
        LET item == FoundItem(x)
            cut == mode = "w" /\ item.first # 0
            new == IF cut THEN [item EXCEPT !.first = 0, !.size = 0] ELSE item
        IN  /\ item.kind = "file"
            /\ Careful => Writers(FoundAt(x)) = {} /\ (cut => Users(FoundAt(x)) = {})
            /\ disk' = IF cut
                       THEN fat16_write_dir_entry(fat16_free_chain(disk, item.first),
                                                  <<FoundAt(x)>>, <<new>>)
                       ELSE disk
            /\ Opens(mode, new, IF mode = "a" THEN new.size ELSE 0, FoundAt(x))

(* fat16_open_for_write of a new file *)
OpenNew(path, mode) ==
    \E x \in Missing(path) :
    \E r \in {fat16_create_item(disk, x.dir, x.entries, Last(path), "file", 0)} :
        /\ disk' = r.disk
        /\ IF r.pos = NoPos THEN UNCHANGED descs
           ELSE Opens(mode, r.disk.items[r.pos[1]][r.pos[2]], 0, r.pos)

(***************************************************************************)
(* fat16_write: the bytes that fit go behind the position, into clusters   *)
(* that are appended as needed, and the directory item is written back in  *)
(* any case.                                                               *)
(***************************************************************************)
fat16_write(f) ==
    /\ descs[f].mode \in {"w", "a"}
    /\ \E data \in Messages :
       \E r \in {fat16_cluster_at(disk, descs[f].item.first,
                                  (descs[f].pos + Len(data) - 1) \div CLUSTER + 1)} :
        LET pos == descs[f].pos
            end == Max({pos, Min({pos + Len(data), Len(r.chain) * CLUSTER})})
            offset(c, o) == CLUSTER * (CHOOSE i \in DOMAIN r.chain : r.chain[i] = c) + o - CLUSTER
            bytes == [c \in Clusters |-> [o \in 0 .. CLUSTER - 1 |->
                        IF c \in Range(r.chain) /\ offset(c, o) \in pos .. end - 1
                        THEN data[offset(c, o) - pos + 1] ELSE r.disk.bytes[c][o]]]
            item == [descs[f].item EXCEPT
                        !.first = IF r.chain = <<>> THEN @ ELSE Head(r.chain),
                        !.size = Max({@, end})]
        IN  /\ disk' = fat16_write_dir_entry([r.disk EXCEPT !.bytes = bytes],
                                             <<descs[f].at>>, <<item>>)
            /\ descs' = [descs EXCEPT ![f].item = item, ![f].pos = end]

OpenFile(f) == descs[f].mode # "closed" /\ descs[f].item.kind = "file"

(* fat16_read moves the position when all clusters can be reached *)
fat16_read(f) ==
    /\ OpenFile(f)
    /\ \E n \in ReadLens :
        LET total == Min({n, descs[f].item.size - descs[f].pos})
            clusters == (descs[f].pos + total - 1) \div CLUSTER + 1
        IN  /\ total > 0
            /\ Len(Chain(disk, descs[f].item.first)) >= clusters
            /\ descs' = [descs EXCEPT ![f].pos = @ + total]
    /\ UNCHANGED disk

(* mutant: the bound of a position is not checked *)
SeekPastEnd(f) ==
    /\ OpenFile(f)
    /\ \E k \in 0 .. descs[f].item.size + 1 : descs' = [descs EXCEPT ![f].pos = k]
    /\ UNCHANGED disk

fat16_seek(f) ==
    /\ OpenFile(f)
    /\ \E k \in 0 .. descs[f].item.size : descs' = [descs EXCEPT ![f].pos = k]
    /\ UNCHANGED disk

fat16_close(f) ==
    /\ descs[f].mode # "closed"
    /\ descs' = [descs EXCEPT ![f] = Closed]
    /\ UNCHANGED disk

(* a bug: a directory with directories in it counts as empty *)
NoFilesIn(es) == \A i \in DOMAIN es : es[i].kind # "file"

fat16_directory_is_empty(es) == \A i \in DOMAIN es : ~ IsItem(es[i])

fat16_remove(path) ==
    /\ \E x \in Found(path) :
        LET item == FoundItem(x)
            parts == fat16_lfn_count(x.entries, x.index)
            gone == SubSeq(Positions(disk, x.dir), x.index - parts, x.index)
        IN  /\ item.kind = "dir" => fat16_directory_is_empty(Entries(disk, item.first))
            /\ Careful => Users(FoundAt(x)) = {}
            /\ disk' = fat16_write_dir_entry(fat16_free_chain(disk, item.first),
                                             gone, [k \in 1 .. parts + 1 |-> Deleted])
    /\ UNCHANGED descs

(* the cluster c of a new directory holds the items . and .. *)
WithDots(d, c) == fat16_write_dir_entry(d, <<<<c, 0>>, <<c, 1>>>>, <<Dot, Dot>>)

(* a bug: the cluster of a directory that could not be listed is kept *)
MkdirLeaks(path) ==
    /\ \E x \in Missing(path) :
       \E new \in {fat16_cluster_at(disk, 0, 1)} :
        /\ new.chain # <<>>
        /\ disk' = fat16_create_item(WithDots(new.disk, Head(new.chain)), x.dir,
                                     x.entries, Last(path), "dir", Head(new.chain)).disk
    /\ UNCHANGED descs

(* the new cluster is given back when there is no room for the item *)
fat16_mkdir(path) ==
    /\ \E x \in Missing(path) :
       \E new \in {fat16_cluster_at(disk, 0, 1)} :
        /\ new.chain # <<>>
        /\ \E c \in {Head(new.chain)} :
           \E r \in {fat16_create_item(WithDots(new.disk, c), x.dir, x.entries,
                                       Last(path), "dir", c)} :
            disk' = IF r.pos = NoPos THEN fat16_free_chain(r.disk, c) ELSE r.disk
    /\ UNCHANGED descs

Next ==
    \/ \E path \in Paths :
        \/ OpenRead(path) \/ fat16_remove(path) \/ fat16_mkdir(path)
        \/ \E mode \in {"w", "a"} : OpenExisting(path, mode) \/ OpenNew(path, mode)
    \/ \E f \in Descs : fat16_write(f) \/ fat16_read(f) \/ fat16_seek(f) \/ fat16_close(f)

Spec == Init /\ [][Next]_vars

-----------------------------------------------------------------------------
(* the items of the tree: path, where it is stored, and what it is *)
Listed(d, dir, prefix) ==
    LET items(es, pos) ==
            {[path |-> Append(prefix, fat16_get_item_name(es, i)),
              pos |-> pos[i], item |-> es[i]] : i \in {k \in DOMAIN es : IsItem(es[k])}}
    IN  items(Entries(d, dir), Positions(d, dir))
Tree(d) ==
    LET below(top) == UNION {Listed(d, x.item.first, x.path) :
                                x \in {y \in top : y.item.kind = "dir"}}
        all(top) == top \cup below(top)
    IN  all(Listed(d, ROOT, <<>>))

Directories ==
    {ROOT} \cup {x.item.first : x \in {y \in Listed(disk, ROOT, <<>>) : y.item.kind = "dir"}}

ClustersOf(d, x) == Range(Chain(d, x.item.first))

(* the bytes of a file: what a descriptor with this item reads *)
Content(d, item) ==
    LET chain == Chain(d, item.first)
    IN  [i \in 1 .. item.size |->
            d.bytes[chain[(i - 1) \div CLUSTER + 1]][(i - 1) % CLUSTER]]

(***************************************************************************)
(* The image stays valid for fsck.fat (README): every used cluster belongs *)
(* to the chain of exactly one item, every chain ends, a file has as many  *)
(* clusters as its size needs, a directory at least one, and no part of a  *)
(* long name is left without its item.                                     *)
(***************************************************************************)
FsckClean ==
    \A tree \in {Tree(disk)} :
        /\ \A c \in Clusters : disk.fat[c] # UNUSED =>
                Cardinality({x \in tree : c \in ClustersOf(disk, x)}) = 1
        /\ \A x \in tree :
            LET chain == Chain(disk, x.item.first)
            IN  /\ chain # <<>> => disk.fat[Last(chain)] = END_OF_CHAIN
                /\ x.item.first # 0 => chain # <<>>
                /\ IF x.item.kind = "dir" THEN chain # <<>>
                   ELSE Len(chain) = (x.item.size + CLUSTER - 1) \div CLUSTER
        /\ \A dir \in Directories :
            LET es == Entries(disk, dir)
            IN  \A k \in DOMAIN es : es[k].kind = "lfn" =>
                    \E i \in DOMAIN es : /\ IsItem(es[i])
                                         /\ k \in i - fat16_lfn_count(es, i) .. i - 1

(***************************************************************************)
(* A descriptor knows its file: the copy of the item in a descriptor that  *)
(* writes is the one on disk, one that reads sees the start of what the    *)
(* file holds now, and no position is past the end, where fat16_read would *)
(* compute a negative rest.                                                *)
(***************************************************************************)
DescriptorsCurrent ==
    \A f \in Descs : OpenFile(f) =>
        LET item == disk.items[descs[f].at[1]][descs[f].at[2]]
        IN  /\ item.kind = "file"
            /\ descs[f].mode # "r" => item = descs[f].item
            /\ IsPrefix(Content(disk, descs[f].item), Content(disk, item))
            /\ descs[f].pos <= descs[f].item.size

(***************************************************************************)
(* No two items of a directory have the same name or the same alias: the   *)
(* number of an alias counts up until it is unique in the directory.       *)
(***************************************************************************)
NamesUnambiguous ==
    \A dir \in Directories :
        LET es == Entries(disk, dir)
        IN  \A i, j \in {k \in DOMAIN es : IsItem(es[k])} :
                i # j => /\ es[i].short # es[j].short
                         /\ fat16_get_item_name(es, i) # fat16_get_item_name(es, j)

(* the abstract store *)
StoreIn(d, tree, ds) ==
    [files |-> {[path |-> x.path, data |-> IF x.item.kind = "dir" THEN <<ERROR>>
                                           ELSE Content(d, x.item)] : x \in tree},
     open |-> {[desc |-> f, pos |-> ds[f].pos,
                path |-> (CHOOSE x \in tree : x.pos = ds[f].at).path] :
                    f \in {g \in Descs : ds[g].mode # "closed"}}]
StoreOf(d, ds) == StoreIn(d, Tree(d), ds)

Store ==
    INSTANCE FileStore WITH
        store <- StoreOf(disk, descs),
        Descriptor <- Descs, Message <- Messages,
        Path <- {<<Fold(n)>> : n \in Names}
                    \cup {<<Fold(m), Fold(n)>> : m, n \in Names},
        Directory <- <<ERROR>>

(***************************************************************************)
(* The file system implements FileStore: a call changes the file it names  *)
(* and no other, byte by byte, also when the disk or a directory is full.  *)
(* This is Store!Spec, written so that TLC computes each store once.       *)
(***************************************************************************)
KeepsFiles ==
    /\ Store!Init
    /\ [][\E d \in {disk'}, ds \in {descs'} :
            \E s \in {StoreOf(disk, descs)}, t \in {StoreOf(d, ds)} :
                t = s \/ Store!Step(s, t)]_vars
=============================================================================
