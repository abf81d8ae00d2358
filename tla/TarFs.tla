------------------------------- MODULE TarFs -------------------------------
(***************************************************************************)
(* The initramfs: src/fs/tarfs.c builds a tree of nodes from a tar archive *)
(* at mount time, src/fs/vfs.c resolves paths in it.                       *)
(*                                                                         *)
(* A path is the sequence of its components.  Node 1 is the root; node n   *)
(* is the n-th that was allocated.  The step of the machine is one         *)
(* iteration of tarfs_parse_archive; between two of them every path can be *)
(* looked up, as hard links do.                                            *)
(***************************************************************************)
EXTENDS Naturals, Sequences, SequencesExt, FiniteSets

CONSTANTS
    Names,            \* file names
    Dot, DotDot,      \* "." and ".."
    Cut,              \* the first 127 characters of a name
    MaxPath,          \* bound on the components of a path
    EntryPaths,       \* the paths that entries of the archive have
    Targets,          \* link targets: [abs |-> is it absolute, path |-> components]
    MaxEntries,       \* bound on the entries of the archive
    MaxSymlinkDepth   \* TARFS_MAX_SYMLINK_DEPTH

Paths == UNION {[1..n -> Names] : n \in 1..MaxPath}

ASSUME TarFsAssumption ==
    /\ Dot # DotDot /\ {Dot, DotDot} \cap Names = {}
    /\ Cut \in [Names -> Names] /\ \A name \in Names : Cut[Cut[name]] = Cut[name]
    /\ EntryPaths \subseteq Paths
    /\ MaxPath \in Nat /\ MaxEntries \in Nat /\ MaxSymlinkDepth \in Nat
    /\ Targets \subseteq [abs : BOOLEAN, path : Seq(Names \cup {Dot, DotDot})]

\* Headers of files, directories, symbolic links and hard links.
Headers == [path : EntryPaths, type : {"file", "dir"}, link : {[abs |-> TRUE, path |-> <<>>]}]
           \cup [path : EntryPaths, type : {"sym", "hard"}, link : Targets]

VARIABLES
    nodes,    \* the allocated nodes, [name, parent, type, link, data]
    archive,  \* (history) the headers parsed so far
    short     \* (history) whether an allocation has failed

treeVars == <<nodes, archive, short>>

RootNode == 1
Node(name, parent, type, link, data) ==
    [name |-> name, parent |-> parent, type |-> type, link |-> link, data |-> data]

\* tarfs_mount: a root without parent.
MountInit ==
    /\ nodes = <<Node(DotDot, 0, "dir", [abs |-> TRUE, path |-> <<>>], 0)>>
    /\ archive = <<>>
    /\ short = FALSE

-----------------------------------------------------------------------------
(* Looking up; 0 stands for a null result. *)

\* tarfs_find_child in the tree ns.
FindChild(ns, dir, name) ==
    LET c == {n \in DOMAIN ns : ns[n].parent = dir /\ ns[n].name = name}
    IN  IF c = {} THEN 0 ELSE CHOOSE n \in c : \A m \in c : n >= m

\* tarfs_follow; to is what it returns for the symbolic links.
Follow(ns, to, n) == IF n = 0 \/ ns[n].type # "sym" THEN n ELSE to[n]

\* One component of tarfs_walk.
WalkStep(ns, to, cur, name) ==
    IF cur = 0 \/ ns[cur].type # "dir" THEN 0
    ELSE IF name = Dot THEN cur
    ELSE IF name = DotDot THEN (IF ns[cur].parent # 0 THEN ns[cur].parent ELSE cur)
    ELSE Follow(ns, to, FindChild(ns, cur, name))

\* The loop of tarfs_walk.
WalkBy(ns, to, start, path) ==
    LET cur[k \in Nat] == IF k = 0 THEN start ELSE WalkStep(ns, to, cur[k - 1], path[k])
    IN  cur[Len(path)]

\* Where a symbolic link starts: at the root, or in the directory it is in.
Links(ns) == {n \in DOMAIN ns : ns[n].type = "sym"}
LinkStart(ns, n) == IF ns[n].link.abs THEN RootNode ELSE ns[n].parent

\* What tarfs_follow returns for each symbolic link while left more of them may be
\* followed before depth is TARFS_MAX_SYMLINK_DEPTH.
LinksTo(ns) ==
    LET to[left \in Nat] ==
            [n \in Links(ns) |-> IF left = 0 THEN 0
                                 ELSE WalkBy(ns, to[left - 1], LinkStart(ns, n), ns[n].link.path)]
    IN  to[MaxSymlinkDepth]

\* tarfs_walk at depth 0.
Walk(ns, start, path) == WalkBy(ns, LinksTo(ns), start, path)

\* tarfs_lookup of one component, as vfs_lookup calls it.
Lookup(ns, to, dir, name) ==
    IF ns[dir].type # "dir" THEN 0 ELSE Follow(ns, to, FindChild(ns, dir, name))

\* (mutant) a token takes every character of a component
Token_Whole(name) == name

\* vfs_next_token: of a component it takes what the token has room for.
Token(name) == IF name \in Names THEN Cut[name] ELSE name

\* One component of vfs_lookup: "." goes back to the root of the mount.
VfsStep(ns, to, dir, name) ==
    IF dir = 0 THEN 0 ELSE IF name = Dot THEN RootNode ELSE Lookup(ns, to, dir, Token(name))

\* vfs_lookup.
VfsLookup(ns, path) ==
    LET to == LinksTo(ns)
        dir[k \in Nat] == IF k = 0 THEN RootNode ELSE VfsStep(ns, to, dir[k - 1], path[k])
    IN  dir[Len(path)]

-----------------------------------------------------------------------------
(* Parsing one header. *)

\* (mutant) the directories of a path are created again for every entry
Existing_Forgets(ns, path) == [depth |-> 0, node |-> RootNode]

\* The node of the first k components of path, child by child, links and files
\* included.
Chain(ns, path) ==
    LET node[k \in Nat] == IF k = 0 THEN RootNode
                           ELSE IF node[k - 1] = 0 THEN 0 ELSE FindChild(ns, node[k - 1], path[k])
    IN  [k \in 0..Len(path) |-> node[k]]

\* The directories of path that tarfs_resolve_dir_path finds.
Existing(ns, path) ==
    LET node == Chain(ns, path)
        k == CHOOSE k \in 0..Len(path) : node[k] # 0 /\ (k = Len(path) \/ node[k + 1] = 0)
    IN  [depth |-> k, node |-> node[k]]

\* tarfs_resolve_dir_path creates the missing directories, at most made of them.
ResolveDir(ns, path, made) ==
    LET e == Existing(ns, path)
        todo == SubSeq(path, e.depth + 1, Len(path))
        n == IF made < Len(todo) THEN made ELSE Len(todo)
        dir(i) == Node(todo[i], IF i = 1 THEN e.node ELSE Len(ns) + i - 1, "dir",
                       [abs |-> TRUE, path |-> <<>>], 0)
        tree == ns \o [i \in 1..n |-> dir(i)]
    IN  [tree |-> tree,
         dir |-> IF n < Len(todo) THEN 0 ELSE IF n = 0 THEN e.node ELSE Len(tree)]

\* tarfs_add_entry: the node for header h, the i-th; none for a hard link whose
\* target is missing, a directory or a link.
EntryNode(ns, parent, name, h, i) ==
    CASE h.type = "hard" ->
           LET t == Walk(ns, RootNode, h.link.path) IN
           IF t = 0 \/ ns[t].type = "dir" THEN <<>>
           ELSE <<Node(name, parent, ns[t].type, h.link, ns[t].data)>>
      [] OTHER -> <<Node(name, parent, h.type, h.link, IF h.type = "dir" THEN 0 ELSE i)>>

\* (mutant) an entry does not give way to one of the same name
AddEntry_Duplicates(ns, dir, h, i) ==
    IF dir = 0 THEN ns ELSE ns \o EntryNode(ns, dir, Last(h.path), h, i)

\* The first entry of a name wins.
AddEntry(ns, dir, h, i) ==
    IF dir = 0 \/ FindChild(ns, dir, Last(h.path)) # 0 THEN ns
    ELSE ns \o EntryNode(ns, dir, Last(h.path), h, i)

\* One iteration of tarfs_parse_archive.
ParseEntry(h) ==
    LET r == ResolveDir(nodes, Front(h.path), MaxPath) IN
    /\ Len(archive) < MaxEntries
    /\ nodes' = AddEntry(r.tree, r.dir, h, Len(archive) + 1)
    /\ archive' = Append(archive, h)
    /\ UNCHANGED short

\* The same when malloc fails for one of the nodes: what was made so far stays.
ParseShort(h, made) ==
    LET r == ResolveDir(nodes, Front(h.path), made) IN
    /\ Len(archive) < MaxEntries
    /\ nodes' = r.tree
    /\ archive' = Append(archive, h)
    /\ short' = TRUE

\* The end of the archive.
Parsed == Len(archive) = MaxEntries /\ UNCHANGED treeVars

ParseNext ==
    \/ \E h \in Headers : ParseEntry(h) \/ \E made \in 0..(Len(h.path) - 1) : ParseShort(h, made)
    \/ Parsed

MountSpec == MountInit /\ [][ParseNext]_treeVars

-----------------------------------------------------------------------------
(* Properties *)

\* Entry i is the first that decides what its path means.
Decides(i) ==
    \A j \in 1..(i - 1) :
        /\ ~IsPrefix(archive[i].path, archive[j].path)
        /\ IsStrictPrefix(archive[j].path, archive[i].path) => archive[j].type = "dir"

\* vfs_next_token takes the whole of every component of path.
Fits(path) == \A k \in DOMAIN path : Cut[path[k]] = path[k]

\* Every file and directory of the archive whose names have at most 127 characters
\* is found under its path and has its own contents, whatever links and longer
\* names stand before or after it, unless an earlier entry took the path or made
\* one of its directories something else.  (A longer name keeps up to 255
\* characters in its node and vfs_lookup never asks for it.)
FilesAreFound ==
    ~short => \A i \in DOMAIN archive : Fits(archive[i].path) =>
        LET n == VfsLookup(nodes, archive[i].path) IN
        /\ archive[i].type = "file" /\ Decides(i) =>
               n # 0 /\ nodes[n].type = "file" /\ nodes[n].data = i
        /\ archive[i].type = "dir" /\ Decides(i) => n # 0 /\ nodes[n].type = "dir"

\* vfs_lookup, which goes component by component through tarfs_lookup, finds for a
\* path what tarfs_walk, which resolves link targets and cuts nothing, finds for
\* the path with every component cut to 127 characters: on longer components the
\* two part ways, and only there.  Neither returns a symbolic link.
LookupsAgree ==
    \A path \in Paths :
        LET n == VfsLookup(nodes, path) IN
        /\ n = Walk(nodes, RootNode, [k \in DOMAIN path |-> Cut[path[k]]])
        /\ n # 0 => nodes[n].type # "sym"

\* Parsing more of the archive never changes what a path means once it means
\* something, through whatever links: a hard link, which copies what its target
\* was when it was parsed, stays a second name of the same file.
LookupsStable ==
    [][\A path \in Paths : VfsLookup(nodes, path) # 0 =>
           VfsLookup(nodes', path) = VfsLookup(nodes, path)]_treeVars
=============================================================================
