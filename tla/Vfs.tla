---------------------------------- MODULE Vfs ----------------------------------
(***************************************************************************)
(* The file system: path lookup and creation (fs/vfs.c), the tmpfs nodes   *)
(* (fs/tmpfs.c) and the archive they are filled from at boot (fs/tar.c).   *)
(*                                                                         *)
(* A path is its components, whether it starts at the root, and whether    *)
(* it ends in a slash.  Vnodes are numbered in the order they are made;    *)
(* entries[v] is the list of a directory, newest first.                    *)
(*                                                                         *)
(* External: the archive, one member at a time, parents before children    *)
(* and no name twice, as tar writes a directory tree.                      *)
(***************************************************************************)
EXTENDS Naturals, SequencesExt

CONSTANTS
    Names,      \* path components
    Contents,   \* file contents
    MaxPath,    \* bound: components of a member's path
    MaxMembers  \* bound: members of the archive

ASSUME VfsAssumption == MaxPath \in Nat /\ MaxMembers \in Nat

VARIABLES
    type,       \* type[v]: "dir", "file" or "link"
    entries,    \* entries[v]: <<[name, node]...>>
    data,       \* data[v]: a file's contents, a link's target path
    seen,       \* the members of the archive so far
    done        \* the loop over the archive has ended

vars == <<type, entries, data, seen, done>>

root == 1
NULL == 0
Garbage == "?"      \* what an uninitialised buffer holds

Vnodes == 1..Len(type)

Path(comps, abs, slash) == [comps |-> comps, abs |-> abs, slash |-> slash]

\* tmpfs vnode_lookup: the first entry of that name.
vnode_lookup(v, name) ==
    LET hits == {k \in 1..Len(entries[v]) : entries[v][k].name = name}
    IN  IF type[v] # "dir" \/ hits = {} THEN NULL ELSE entries[v][Min(hits)].node

\* A component is not there.
Missing(cur, name, getparent) ==
    [node |-> IF getparent THEN cur ELSE NULL, last |-> name]

\* Mutant of LinkStart: a target is relative to the root.
LinkStartRoot(cur, target) == root

\* Where a link's target starts: in the directory that holds the link.
LinkStart(cur, target) == IF target.abs THEN root ELSE cur

\* The components from the first of comps on, below cur.  The scan that finds
\* out whether a component is the last one runs past the end of the copied
\* path: with a slash at the end the answer depends on the next byte of the
\* heap (past: it is not zero).  A link takes the place of the rest of the
\* path, and its name is not reported.
RECURSIVE Descend(_, _, _, _, _)
Descend(cur, comps, slash, getparent, past) ==
    IF comps = <<>> THEN [node |-> cur, last |-> Garbage]
    ELSE
    LET name == Head(comps)
        islast == Len(comps) = 1 /\ (slash => past)
        res == vnode_lookup(cur, name)
    IN  IF islast /\ getparent THEN [node |-> cur, last |-> name]
        ELSE IF res = NULL THEN Missing(cur, name, getparent)
        ELSE IF type[res] = "dir" THEN Descend(res, Tail(comps), slash, getparent, past)
        ELSE IF type[res] = "link"
        THEN [Descend(LinkStart(cur, data[res]), data[res].comps, data[res].slash, FALSE, past)
                EXCEPT !.last = Garbage]
        ELSE [node |-> res, last |-> Garbage]

vnode_path_lookup(cur, path, getparent, past) ==
    Descend(IF path.abs THEN root ELSE cur, path.comps, path.slash, getparent, past)
------------------------------------------------------------------------------
(* parse_tar_and_populate_tmpfs.                                           *)

Init ==
    /\ type = <<"dir">> /\ entries = <<<<>>>> /\ data = <<NULL>>
    /\ seen = <<>> /\ done = FALSE

\* Mutant of NewNode: a new entry does not keep the rest of the list.
NewNodeDropsList(parent, name, kind, d) ==
    LET v == Len(type) + 1 IN
    /\ type' = Append(type, kind)
    /\ data' = Append(data, d)
    /\ entries' = Append([entries EXCEPT ![parent] = <<[name |-> name, node |-> v]>>], <<>>)

\* vnode_mkdir, and vnode_create with the write or the change of type that
\* follows it: a zeroed vnode, and an entry at the front of the directory.
NewNode(parent, name, kind, d) ==
    LET v == Len(type) + 1 IN
    /\ type' = Append(type, kind)
    /\ data' = Append(data, d)
    /\ entries' = Append([entries EXCEPT ![parent] = <<[name |-> name, node |-> v]>> \o @], <<>>)

\* vfs_create for one member.
vfs_create(path, kind, d) ==
    \E past \in BOOLEAN :
        LET at == vnode_path_lookup(root, path, TRUE, past) IN
        IF at.node # NULL /\ type[at.node] = "dir"
        THEN NewNode(at.node, at.last, kind, d)
        ELSE UNCHANGED <<type, entries, data>>

PathsUpTo(n) == UNION {[1..k -> Names] : k \in 1..n}

\* What a link may point to; a link's target starts at the root or beside it.
Targets == {Path(c, a, FALSE) : c \in PathsUpTo(MaxPath), a \in BOOLEAN}

\* The members tar can write next.
Valid(p) ==
    /\ \A k \in 1..Len(seen) : seen[k].comps # p
    /\ Len(p) > 1 => \E k \in 1..Len(seen) :
                        seen[k].kind = "dir" /\ seen[k].comps = SubSeq(p, 1, Len(p) - 1)

Member(kind, p, d) ==
    /\ ~done
    /\ Len(seen) < MaxMembers
    /\ Valid(p)
    /\ vfs_create(Path(p, FALSE, kind = "dir"), kind, d)
    /\ seen' = Append(seen, [kind |-> kind, comps |-> p, data |-> d])
    /\ UNCHANGED done

\* The types of member the loop knows.  Any other is stepped over.
TarDirectory(p) == Member("dir", p, NULL)
TarFile(p, d) == Member("file", p, d)
TarSymlink(p, t) == Member("link", p, t)

\* The end: the last 1024 bytes, or a header of zeros before them.  It counts
\* as a directory without a name, which vfs_create refuses, and its size field
\* reads as 1227133520 bytes, which is beyond every archive.
TarEnd == ~done /\ done' = TRUE /\ UNCHANGED <<type, entries, data, seen>>

Booted == done /\ UNCHANGED vars

Next ==
    \/ \E p \in PathsUpTo(MaxPath) :
          \/ TarDirectory(p)
          \/ \E d \in Contents : TarFile(p, d)
          \/ \E t \in Targets : TarSymlink(p, t)
    \/ TarEnd
    \/ Booted

Spec == Init /\ [][Next]_vars
------------------------------------------------------------------------------
(* Properties.                                                             *)

Lookup(p) == vnode_path_lookup(root, Path(p, TRUE, FALSE), FALSE, FALSE).node

Members(kind) == {k \in 1..Len(seen) : seen[k].kind = kind}

\* Part of TreeIsArchive.  A directory holds no name twice and every node but the root has one entry:
\* the tree is a tree.
OneEntryPerNode ==
    LET refs == {<<v, k>> : v \in Vnodes, k \in 1..MaxMembers}
        real == {r \in refs : r[2] <= Len(entries[r[1]])}
    IN  /\ Cardinality({entries[r[1]][r[2]].node : r \in real}) = Len(type) - 1
        /\ Cardinality(real) = Len(type) - 1
        /\ \A v \in Vnodes : \A i, j \in 1..Len(entries[v]) :
              entries[v][i].name = entries[v][j].name => i = j

\* The tree is a tree and it is the archive: every member has a vnode of its
\* kind with its data, a lookup finds the directories and the files, and there
\* are no other nodes and no entries of another name, whatever the heap held
\* behind the copied paths.
TreeIsArchive ==
    /\ OneEntryPerNode
    /\ Len(type) = 1 + Len(seen)
    /\ \A k \in Members("dir") : LET v == Lookup(seen[k].comps) IN v # NULL /\ type[v] = "dir"
    /\ \A k \in Members("file") : LET v == Lookup(seen[k].comps) IN
          v # NULL /\ type[v] = "file" /\ data[v] = seen[k].data
    /\ \A v \in Vnodes : \A k \in 1..Len(entries[v]) : entries[v][k].name \in Names

\* The member of the archive with this path, or 0.
MemberAt(p) ==
    LET ks == {k \in 1..Len(seen) : seen[k].comps = p} IN IF ks = {} THEN 0 ELSE Min(ks)

\* A link at the end of a path leads where its target leads, from the link's
\* own directory or from the root, if the target is a directory or a file.
LinksFollowed ==
    \A k \in Members("link") :
        LET p == seen[k].comps
            t == seen[k].data
            full == IF t.abs THEN t.comps ELSE SubSeq(p, 1, Len(p) - 1) \o t.comps
            m == MemberAt(full)
        IN  (m # 0 /\ seen[m].kind # "link") => Lookup(p) = Lookup(full)
==============================================================================
