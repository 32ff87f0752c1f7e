-------------------------------- MODULE Tree --------------------------------
(***************************************************************************)
(* The tree of nodes that class Filesystem keeps of the device, its table  *)
(* of file handles and the paths of its cache entries (filesystem.cpp,     *)
(* node.cpp, file_handle_store.cpp).                                       *)
(*                                                                         *)
(* A node is known by its path: a pointer to a node is the node's present  *)
(* path, Null after FileHandleStore::erase, and Freed once the node has    *)
(* been destroyed.  Of a stat only the file type matters, and whether the  *)
(* device's modification time is ahead of the node's (behind), which is    *)
(* all that detect_modification asks.  A node has the device's times from  *)
(* a stat, or the host's present time from refresh_stat: the two are told  *)
(* apart if the device's clock is more than the two seconds that           *)
(* detect_modification tolerates ahead of the host's (Ahead).              *)
(*                                                                         *)
(* An operation is one step: the locks of the kernel (exclusive on the     *)
(* directory of a name that is made, removed or renamed) and of libfuse    *)
(* (on the path of a name that is removed or renamed) keep two operations  *)
(* on the same name apart.  The exception is readdir, whose wait for the   *)
(* device is a state of its own (scan).                                    *)
(***************************************************************************)
EXTENDS Naturals, Sequences, FiniteSets

CONSTANTS
    Paths,          \* bound: the paths that files may have, as sequences of names;
                    \* a path that none continues is not a directory's
    Opens,          \* bound: the files the kernel may hold open at a time
    MaxEntries,     \* bound: the files the cache knows at a time
    MaxSurprises,   \* bound: the events that part host and device (see Surprise)
    Exposed,        \* bound: the paths they may befall
    Ahead,          \* is the device's clock ahead of the host's by more than 2 s?
    Null, Freed,    \* a handle's node after erase, and after its destruction
    None

ASSUME AheadAssumption == Ahead \in BOOLEAN
ASSUME BoundsAssumption == MaxSurprises \in Nat /\ MaxEntries \in Nat /\ IsFiniteSet(Opens)
ASSUME PathsAssumption ==
    <<>> \in Paths /\ \A p \in Paths : p # <<>> => SubSeq(p, 1, Len(p) - 1) \in Paths

\* The names in the paths; a handle without a node, and None, are no paths.
Names == UNION {{p[i] : i \in DOMAIN p} : p \in Paths}
ASSUME NamesAssumption == Paths \subseteq Seq(Names)
ASSUME NullAssumption == Null # Freed /\ {Null, Freed, None} \cap Paths = {}

VARIABLES
    device,      \* path -> the type of the file on the device, "none" for no file
    surprises,   \* how often host and device have parted
    tree,        \* m_root: path -> node
    handles,     \* m_handles: descriptor -> node
    opens,       \* external: the kernel's open files and their descriptors
    scan,        \* a readdir that waits for its listing
    crashed,     \* a null or freed node was dereferenced
    stranded     \* history: a directory was renamed with a cache entry below it

vars == <<device, surprises, tree, handles, opens, scan, crashed, stranded>>

Root == <<>>
Fds == 0 .. Cardinality(Opens) - 1

Parent(p) == SubSeq(p, 1, Len(p) - 1)
Under == [p \in Paths |-> {q \in Paths : Len(p) <= Len(q) /\ SubSeq(q, 1, Len(p)) = p}]
IsUnder(q, p) == q \in Under[p]
Children == [p \in Paths |-> {q \in Under[p] : Len(q) = Len(p) + 1}]
Rebase(r, p, q) == q \o SubSeq(r, Len(p) + 1, Len(r))

Kinds == {"none", "reg", "dir"}
MayBe(kind, p) == p \in Paths /\ (kind = "dir" => Children[p] # {})
\* kind: the alternative of m_value.  isdir: the file type in m_stat, which an
\* Error keeps from the file it once was.  entry: the path in the cache's entry.
Node == [kind : {"reg", "dir", "err"}, isdir : BOOLEAN, behind : BOOLEAN, expired : BOOLEAN,
         synced : BOOLEAN, dirty : BOOLEAN, entry : Paths \cup {None}]

TypeOK ==
    /\ device \in [Paths -> Kinds] /\ device[Root] = "dir"
    /\ \A p \in Paths \ {Root} : device[p] # "none" => device[Parent(p)] = "dir"
    /\ surprises \in 0 .. MaxSurprises
    /\ Root \in DOMAIN tree /\ DOMAIN tree \subseteq Paths
    /\ \A p \in DOMAIN tree :
        /\ tree[p] \in Node
        /\ p = Root \/ (Parent(p) \in DOMAIN tree /\ tree[Parent(p)].kind = "dir")
        /\ tree[p].kind # "reg" => ~tree[p].dirty /\ tree[p].entry = None
    /\ handles \in [Fds -> (DOMAIN tree) \cup {Null, Freed}]
    /\ opens \in [Opens -> [fd : Fds, path : Paths] \cup {None}]
    /\ crashed \in BOOLEAN /\ stranded \in BOOLEAN
    /\ scan # None => scan.dir \in Paths /\ scan.reply \in [Children[scan.dir] -> Kinds]

-----------------------------------------------------------------------------
(* Nodes *)

NewNode(kind, isdir, behind) ==
    [kind |-> kind, isdir |-> isdir, behind |-> behind, expired |-> FALSE,
     synced |-> FALSE, dirty |-> FALSE, entry |-> None]

Expired(n) == n.expired /\ ~n.dirty
DetectModification(n) == n.behind

With(t, p, n) == [q \in DOMAIN t \cup {p} |-> IF q = p THEN n ELSE t[q]]
Without(t, ps) == [q \in DOMAIN t \ ps |-> t[q]]
Subtree(t, p) == {q \in DOMAIN t : IsUnder(q, p)}

\* refresh_stat with the host's present time, which a device whose clock is ahead
\* has passed, and a change of the device that the node does not learn of.
\* Nobody asks how old the root is.
RefreshStat(t, p) == [t EXCEPT ![p].behind = Ahead]
LeaveBehind(t, ps) ==
    [q \in DOMAIN t |-> IF q \in ps \ {Root} THEN [t[q] EXCEPT !.behind = TRUE] ELSE t[q]]

(* FileHandleStore *)

Erase(h, ps) == [fd \in Fds |-> IF h[fd] \in ps THEN Null ELSE h[fd]]
Free(h, ps) == [fd \in Fds |-> IF h[fd] \in ps THEN Freed ELSE h[fd]]
FirstHole(h) == CHOOSE fd \in Fds : h[fd] = Null /\ \A g \in Fds : h[g] = Null => fd <= g

-----------------------------------------------------------------------------
(* The device: what RequestHandler answers, and when it succeeds *)

Exists(p) == device[p] # "none"

HandleStat(p) == device[p]
HandleListdir(p) == [q \in Children[p] |-> device[q]]
MknodSucceeds(p) == ~Exists(p) /\ device[Parent(p)] = "dir"
MkdirSucceeds(p) == ~Exists(p) /\ device[Parent(p)] = "dir"
UnlinkSucceeds(p) == device[p] = "reg"
RmdirSucceeds(p) == device[p] = "dir" /\ \A q \in Children[p] : ~Exists(q)
TruncateSucceeds(p) == device[p] = "reg"
UtimensSucceeds(p) == Exists(p)

\* renameat2, or renameat for want of it.
RenameSucceeds(p, q, flag) ==
    /\ Exists(p) /\ device[Parent(q)] = "dir" /\ ~IsUnder(q, p)
    /\ CASE flag = "exchange" -> Exists(q) /\ ~IsUnder(p, q)
         [] flag = "noreplace" -> ~Exists(q)
         [] flag = "none" -> \/ ~Exists(q)
                             \/ device[p] = "reg" /\ device[q] = "reg"
                             \/ /\ device[p] = "dir" /\ device[q] = "dir"
                                /\ \A r \in Children[q] : ~Exists(r)

-----------------------------------------------------------------------------
(* Lookup.  It works on the tree, the handles, and whether it still stands. *)

Now == [tree |-> tree, handles |-> handles, ok |-> TRUE]
Fail(s) == [s EXCEPT !.ok = FALSE]

\* Seeded fault: the handles of the node stay.
MutateOnly(s, p, n) ==
    LET below == Subtree(s.tree, p) \ {p}
    IN  [s EXCEPT !.tree = With(Without(s.tree, below), p, n), !.handles = Erase(@, below)]

\* Seeded fault: what was below the node stays.
MutateAlone(s, p, n) == [s EXCEPT !.tree = With(@, p, n), !.handles = Erase(@, {p})]

\* The node takes a new alternative; what was below it is destroyed.
MutateAndInvalidate(s, p, n) ==
    LET below == Subtree(s.tree, p) \ {p}
    IN  [s EXCEPT !.tree = With(Without(s.tree, below), p, n),
                  !.handles = IF s.tree[p].kind = "err" THEN s.handles
                              ELSE Erase(s.handles, below \cup {p})]

Update(s, p) ==
    LET n == s.tree[p]
        stat == HandleStat(p)
    IN  CASE stat = "none" -> Fail(MutateAndInvalidate(s, p, NewNode("err", n.isdir, FALSE)))
          [] stat # "none" /\ n.kind # "err" /\ ~DetectModification(n) ->
               [s EXCEPT !.tree[p].expired = FALSE]
          [] stat # "none" /\ (n.kind = "err" \/ DetectModification(n)) ->
               IF stat = "dir" /\ n.isdir
                 THEN [s EXCEPT !.tree[p] = [n EXCEPT !.behind = FALSE, !.synced = FALSE, !.expired = FALSE]]
                 ELSE MutateAndInvalidate(s, p, NewNode(stat, stat = "dir", FALSE))

\* Seeded fault: every error is remembered.
ShouldCacheErrorAlways(fate) == TRUE

\* A request may fail "disconnected" (not_connected, timed_out, EAGAIN), which is
\* not remembered, or "cancelled" (ECANCELED, EPIPE, EIO of a connection that is
\* lost meanwhile), which is remembered as if it were the file's.
ShouldCacheError(fate) == fate # "disconnected"

Unanswered(s, p, fate) ==
    LET error == NewNode("err", p \in DOMAIN s.tree /\ s.tree[p].isdir, FALSE)
    IN  IF ~ShouldCacheError(fate) \/ s.tree[Parent(p)].kind # "dir" THEN Fail(s)
        ELSE IF p \in DOMAIN s.tree THEN Fail(MutateAndInvalidate(s, p, error))
        ELSE Fail([s EXCEPT !.tree = With(@, p, error)])

\* One component of traverse_or_build: the last one may be of any kind (build),
\* the others are directories (build_directory).
Visit(s, p, last, fate) ==
    LET parent == s.tree[Parent(p)]
        found == parent.kind = "dir" /\ p \in DOMAIN s.tree
        stat == HandleStat(p)
        insert(kind) == IF parent.kind # "dir" THEN Fail(s)
                        ELSE [s EXCEPT !.tree = With(s.tree, p, NewNode(kind, stat = "dir", FALSE))]
    IN  IF ~s.ok THEN s
        ELSE IF found /\ ~Expired(s.tree[p]) THEN s
        ELSE IF fate # "answered" THEN Unanswered(s, p, fate)
        ELSE IF found THEN Update(s, p)
        ELSE CASE stat = "none" -> Fail(insert("err"))
               [] stat = "reg" /\ ~last -> Fail(s)
               [] stat = "dir" \/ (stat = "reg" /\ last) -> insert(stat)

\* fate: what becomes of the request for the last component, if there is one.
Reach(s, p, fate) ==
    LET visited[i \in 0 .. Len(p)] ==
            IF i = 0 THEN s
            ELSE Visit(visited[i - 1], SubSeq(p, 1, i), i = Len(p), IF i = Len(p) THEN fate ELSE "answered")
    IN  visited[Len(p)]
TraverseOrBuild(p) == Reach(Now, p, "answered")
IsDir(s, p) == s.ok /\ s.tree[p].kind = "dir"
IsReg(s, p) == s.ok /\ s.tree[p].kind = "reg"

-----------------------------------------------------------------------------
(* What surrounds an operation *)

\* A change of the device by somebody else, a lost answer to a change, or a lost
\* connection that is remembered as an error: from then on the host may know the
\* device wrongly.
Surprise(p) == p \in Exposed /\ surprises < MaxSurprises /\ surprises' = surprises + 1
Undisturbed == surprises = 0

\* The fate of a request that changes the device.
Fates == {"done", "unsent", "unheard"}
Fated(fate, p) == IF fate = "unheard" THEN Surprise(p) ELSE UNCHANGED surprises
Executes(fate, new) == device' = IF fate = "unsent" THEN device ELSE new

\* external: the kernel's lock on a directory, and libfuse's on a path; libfuse
\* does not remove an open file but renames it.
Unlocked(p) == scan # None => scan.dir # Parent(p) /\ ~IsUnder(scan.dir, p)
IsOpen(p) == \E k \in Opens : opens[k] # None /\ opens[k].path = p

-----------------------------------------------------------------------------
(* Operations of the tree.  A call whose lookup fails, and an rmdir or     *)
(* rename that the device refuses, leave what Getattr of the paths they    *)
(* looked up leaves, and are not listed again.                             *)

\* A node that is known and fresh answers without a request.
Asks(p) == p \in DOMAIN tree => Expired(tree[p])

Getattr(p) ==
    \E fate \in {"answered", "disconnected", "cancelled"} :
        /\ fate # "answered" => Asks(p)
        /\ IF fate = "cancelled" THEN Surprise(p) ELSE UNCHANGED surprises
        /\ \E s \in {Reach(Now, p, fate)} : tree' = s.tree /\ handles' = s.handles
        /\ UNCHANGED <<device, opens, scan, crashed, stranded>>

\* The listing, and which of the known children it shows to be modified.
ReaddirAsk(p) ==
    /\ scan = None /\ device[p] = "dir"
    /\ \E s \in {TraverseOrBuild(p)} :
        /\ IsDir(s, p) /\ ~s.tree[p].synced
        /\ scan' = [dir |-> p, reply |-> HandleListdir(p),
                    ahead |-> {q \in Children[p] \cap DOMAIN s.tree : DetectModification(s.tree[q])}]
        /\ tree' = s.tree /\ handles' = s.handles
    /\ UNCHANGED <<device, surprises, opens, crashed, stranded>>

\* Seeded fault: the handles below a child that is made anew stay.
RescanErase(known, below, gone) == Free(Erase(handles, known), below \cup gone)

\* The handles of a child that is gone stay.
RescanHandles(known, below, gone) == Free(Erase(handles, known \cup below), gone)

Rescan(dir, reply, ahead) ==
    LET listed == {q \in DOMAIN reply : reply[q] # "none"}
        fresh == {q \in listed : q \in DOMAIN tree =>
                     \/ tree[q].kind = "err"
                     \/ Expired(tree[q]) /\ q \in ahead /\ DetectModification(tree[q])}
        known == fresh \cap DOMAIN tree
        below == UNION {Subtree(tree, q) \ {q} : q \in known}
        gone == UNION {Subtree(tree, q) : q \in (DOMAIN reply \cap DOMAIN tree) \ listed}
    IN  [tree |-> [q \in (DOMAIN tree \cup fresh) \ (below \cup gone) |->
                     IF q \in fresh THEN NewNode(reply[q], reply[q] = "dir", device[q] # reply[q])
                     ELSE [tree[q] EXCEPT !.synced = @ \/ q = dir]],
         handles |-> RescanHandles(known, below, gone)]

ReaddirApply ==
    /\ scan # None
    /\ scan' = None
    /\ IF scan.dir \in DOMAIN tree /\ tree[scan.dir].kind = "dir"
         THEN /\ \E s \in {Rescan(scan.dir, scan.reply, scan.ahead)} :
                     tree' = s.tree /\ handles' = s.handles
              /\ UNCHANGED crashed
         ELSE crashed' = TRUE /\ UNCHANGED <<tree, handles>>
    /\ UNCHANGED <<device, surprises, opens, stranded>>

\* mknod and mkdir.  "unstated": made, but the stat that follows is lost.
Create(p, kind, s) ==
    \E fate \in Fates \cup {"unstated"} :
        LET succeeds == IF kind = "dir" THEN MkdirSucceeds(p) ELSE MknodSucceeds(p)
            told == succeeds /\ fate \in {"done", "unstated"}
            aged == LeaveBehind(s.tree, {p, Parent(p)})
        IN  /\ IsDir(s, Parent(p))
            /\ p \in DOMAIN s.tree => s.tree[p].kind = "err"
            /\ IF succeeds THEN Executes(fate, [device EXCEPT ![p] = kind]) ELSE UNCHANGED device
            /\ Fated(IF told /\ fate = "unstated" THEN "unheard" ELSE fate, p)
            /\ tree' = IF ~told THEN RefreshStat(IF succeeds /\ fate = "unheard" THEN aged ELSE s.tree, Parent(p))
                       ELSE IF fate = "done" THEN With(aged, p, NewNode(kind, kind = "dir", FALSE)) ELSE aged
            /\ handles' = s.handles
            /\ UNCHANGED <<opens, scan, crashed, stranded>>

Mknod(p) == MayBe("reg", p) /\ Unlocked(p) /\ \E s \in {TraverseOrBuild(Parent(p))} : Create(p, "reg", s)
Mkdir(p) == MayBe("dir", p) /\ Unlocked(p) /\ \E s \in {TraverseOrBuild(Parent(p))} : Create(p, "dir", s)

\* The node is taken out before the request and put back if that fails.
Unlink(p) ==
    /\ Unlocked(p) /\ ~IsOpen(p)
    /\ \E s \in {TraverseOrBuild(Parent(p))}, fate \in Fates :
        /\ IsDir(s, Parent(p)) /\ p \in DOMAIN s.tree /\ s.tree[p].kind # "dir"
        /\ IF UnlinkSucceeds(p) THEN Executes(fate, [device EXCEPT ![p] = "none"]) ELSE UNCHANGED device
        /\ Fated(fate, p)
        /\ IF UnlinkSucceeds(p) /\ fate = "done"
             THEN /\ tree' = LeaveBehind(Without(s.tree, {p}), {Parent(p)})
                  /\ handles' = Erase(s.handles, {p})
             ELSE tree' = RefreshStat(s.tree, Parent(p)) /\ handles' = s.handles
    /\ UNCHANGED <<opens, scan, crashed, stranded>>

Rmdir(p) ==
    /\ RmdirSucceeds(p) /\ Unlocked(p)
    /\ \E s \in {TraverseOrBuild(Parent(p))} :
        /\ IsDir(s, Parent(p)) /\ p \in DOMAIN s.tree /\ s.tree[p].kind = "dir"
        /\ \A q \in Children[p] \cap DOMAIN s.tree : s.tree[q].kind = "err"
        /\ \/ /\ tree' = RefreshStat(Without(s.tree, Subtree(s.tree, p)), Parent(p))
              /\ handles' = Free(s.handles, Subtree(s.tree, p))
              /\ UNCHANGED surprises
           \/ tree' = LeaveBehind(s.tree, {p, Parent(p)}) /\ handles' = s.handles /\ Surprise(p)
    /\ device' = [device EXCEPT ![p] = "none"]
    /\ UNCHANGED <<opens, scan, crashed, stranded>>

-----------------------------------------------------------------------------
(* rename *)

\* Where the file or node at r comes from when p is renamed to q.
Origin(r, p, q, swap) ==
    IF IsUnder(r, q) THEN Rebase(r, q, p)
    ELSE IF swap /\ IsUnder(r, p) THEN Rebase(r, p, q) ELSE r

DeviceRenamed(p, q, swap) ==
    [r \in Paths |-> LET o == Origin(r, p, q, swap)
                     IN  IF (IsUnder(r, p) /\ ~swap) \/ o \notin Paths THEN "none" ELSE device[o]]

\* Seeded fault: the entry keeps its path.
CacheRenameNot(n, to) == n

CacheRename(n, to) == IF n.entry = None THEN n ELSE [n EXCEPT !.entry = to]

\* Cache::rename gives the node itself its new path, not the nodes below it.
TreeRenamed(t, p, q, swap) ==
    LET stays == {r \in DOMAIN t : ~IsUnder(r, p) /\ ~IsUnder(r, q)}
        moves == {Rebase(r, p, q) : r \in Subtree(t, p)}
        returns == IF swap THEN {Rebase(r, q, p) : r \in Subtree(t, q)} ELSE {}
    IN  [r \in stays \cup moves \cup returns |->
            LET n == t[Origin(r, p, q, swap)]
            IN  IF r \in {p, q} THEN CacheRename(n, r) ELSE n]

HandlesRenamed(h, p, q, swap) ==
    [fd \in Fds |->
        IF h[fd] \in {Null, Freed} THEN h[fd]
        ELSE IF IsUnder(h[fd], p) THEN Rebase(h[fd], p, q)
        ELSE IF ~IsUnder(h[fd], q) THEN h[fd]
        ELSE IF swap THEN Rebase(h[fd], q, p)
        ELSE IF h[fd] = q THEN Null ELSE Freed]

\* external: libfuse moves the names of its open files.
OpensRenamed(p, q, swap) ==
    [k \in Opens |->
        IF opens[k] = None THEN None
        ELSE [opens[k] EXCEPT !.path = IF IsUnder(@, p) THEN Rebase(@, p, q)
                                       ELSE IF swap /\ IsUnder(@, q) THEN Rebase(@, q, p) ELSE @]]

\* s: what the lookups of p and of the directory of q have left.
Renamed(p, q, flag, s) ==
    LET t == s.tree
        swap == flag = "exchange"
        known == s.ok /\ q \in DOMAIN t /\ t[q].kind # "err"
        moved(r) == IsUnder(r, p) \/ (swap /\ IsUnder(r, q))
        strands == \E r \in DOMAIN t \ {p, q} : moved(r) /\ t[r].entry # None
    IN  /\ CASE flag = "exchange" -> known
             [] flag = "noreplace" -> ~known
             [] flag = "none" -> ~IsOpen(q)
        /\ \A r \in Paths : moved(r) /\ (Exists(r) \/ r \in DOMAIN t \/ IsOpen(r)) =>    \* bound: Paths
               MayBe(IF r \in DOMAIN t /\ t[r].kind = "dir" THEN "dir" ELSE device[r],
                     IF IsUnder(r, p) THEN Rebase(r, p, q) ELSE Rebase(r, q, p))
        /\ device' = DeviceRenamed(p, q, swap)
        /\ \/ /\ tree' = TreeRenamed(RefreshStat(RefreshStat(t, Parent(p)), Parent(q)), p, q, swap)
              /\ handles' = HandlesRenamed(s.handles, p, q, swap)
              /\ opens' = OpensRenamed(p, q, swap)
              /\ stranded' = (stranded \/ strands) /\ UNCHANGED surprises
           \/ /\ tree' = LeaveBehind(t, {p, q, Parent(p), Parent(q)})
              /\ handles' = s.handles /\ UNCHANGED <<opens, stranded>> /\ Surprise(p)
        /\ UNCHANGED <<scan, crashed>>

\* Of the target only NOREPLACE and EXCHANGE look up more than the directory.
Rename(p, q, flag) ==
    /\ p # q /\ RenameSucceeds(p, q, flag) /\ Unlocked(p) /\ Unlocked(q)
    /\ \E s1 \in {TraverseOrBuild(p)} :
        /\ s1.ok
        /\ \E s2 \in {Reach(s1, Parent(q), "answered")} :
            /\ IsDir(s2, Parent(q))
            /\ \E s \in {IF flag = "none" THEN s2 ELSE Reach(s2, q, "answered")} : Renamed(p, q, flag, s)

-----------------------------------------------------------------------------
(* Operations on a file *)

\* utimens takes the stat of the file over, truncate the present time.  The
\* kernel only sets the times of a file it has looked up.
Utimens(p) ==
    /\ UtimensSucceeds(p)
    /\ \E s \in {TraverseOrBuild(p)} :
        /\ s.ok /\ s.tree[p].kind # "err"
        /\ tree' = [s.tree EXCEPT ![p].behind = FALSE, ![p].isdir = device[p] = "dir"]
        /\ handles' = s.handles
    /\ UNCHANGED <<device, surprises, opens, scan, crashed, stranded>>

Truncate(p) ==
    /\ TruncateSucceeds(p)
    /\ \E s \in {TraverseOrBuild(p)} :
        /\ IsReg(s, p)
        /\ tree' = RefreshStat(LeaveBehind(s.tree, {p}), p)
        /\ handles' = s.handles
    /\ UNCHANGED <<device, surprises, opens, scan, crashed, stranded>>

\* hint_open refuses an entry of another path.
Open(k, p) ==
    /\ opens[k] = None
    /\ \E s \in {TraverseOrBuild(p)} :
        /\ \E fd \in Fds : s.handles[fd] = Null
        /\ IsReg(s, p) /\ s.tree[p].entry \in {None, p}
        /\ Cardinality({q \in DOMAIN s.tree \ {p} : s.tree[q].entry # None}) < MaxEntries
        /\ tree' = [s.tree EXCEPT ![p].entry = p]
        /\ handles' = [s.handles EXCEPT ![FirstHole(s.handles)] = p]
        /\ opens' = [opens EXCEPT ![k] = [fd |-> FirstHole(s.handles), path |-> p]]
    /\ UNCHANGED <<device, surprises, scan, crashed, stranded>>

Write(k) ==
    /\ opens[k] # None /\ handles[opens[k].fd] # Null
    /\ LET p == handles[opens[k].fd]
       IN  IF p = Freed THEN crashed' = TRUE /\ UNCHANGED tree
           ELSE tree' = RefreshStat([tree EXCEPT ![p].dirty = TRUE], p) /\ UNCHANGED crashed
    /\ UNCHANGED <<device, surprises, handles, opens, scan, stranded>>

\* Seeded fault: the node keeps its old time.
FlushedUnstamped(t, p, target) == LeaveBehind([t EXCEPT ![p].dirty = FALSE], {target})

\* Cache::flush writes through a descriptor of the file at the entry's path, or
\* one that was opened before the file moved.
Flushed(t, p, target) == RefreshStat(LeaveBehind([t EXCEPT ![p].dirty = FALSE], {target}), p)

FlushNode(p) ==
    \/ \E target \in {tree[p].entry, p} \cap Paths :
         /\ tree[p].dirty /\ device[target] = "reg"
         /\ tree' = Flushed(tree, p, target)
    \/ UNCHANGED tree    \* clean, or the device refuses and the node stays dirty

\* flush and release do not look whether the handle they find has a node.
Flush(k) ==
    /\ opens[k] # None
    /\ LET p == handles[opens[k].fd]
       IN  IF p \in {Null, Freed} THEN crashed' = TRUE /\ UNCHANGED tree
           ELSE FlushNode(p) /\ UNCHANGED crashed
    /\ UNCHANGED <<device, surprises, handles, opens, scan, stranded>>

Release(k) ==
    /\ opens[k] # None
    /\ opens' = [opens EXCEPT ![k] = None]
    /\ handles' = [handles EXCEPT ![opens[k].fd] = Null]
    /\ LET p == handles[opens[k].fd]
       IN  IF p \in {Null, Freed} THEN crashed' = TRUE /\ UNCHANGED tree
           ELSE FlushNode(p) /\ UNCHANGED crashed
    /\ UNCHANGED <<device, surprises, scan, stranded>>

-----------------------------------------------------------------------------
(* Expiry, the cache, and the device's other users *)

Expire(yes) == [q \in DOMAIN tree |-> [tree[q] EXCEPT !.expired = yes /\ q # Root]]

\* By request over IPC, or because the time to live has passed.
ExpiresAll ==
    /\ tree' = Expire(TRUE)
    /\ UNCHANGED <<device, surprises, handles, opens, scan, crashed, stranded>>

\* A new time to live gives every node a new lease.
SetTtl ==
    /\ tree' = Expire(FALSE)
    /\ UNCHANGED <<device, surprises, handles, opens, scan, crashed, stranded>>

\* The cache forgets an entry nobody has open and all of whose pages are evicted.
ForgetEntry(p) ==
    /\ p \in DOMAIN tree /\ tree[p].entry # None /\ ~tree[p].dirty
    /\ \A fd \in Fds : handles[fd] # p
    /\ tree' = [tree EXCEPT ![p].entry = None]
    /\ UNCHANGED <<device, surprises, handles, opens, scan, crashed, stranded>>

\* external: another program makes, changes or removes a file.
Elsewhere(p, kind) ==
    /\ MayBe(kind, p) /\ Surprise(p)
    /\ CASE device[p] = "none" -> kind # "none" /\ device[Parent(p)] = "dir"
         [] device[p] = "reg" -> kind \in {"none", "reg"}
         [] device[p] = "dir" -> kind = "none"
    /\ device' = [q \in Paths |-> IF q = p THEN kind ELSE IF IsUnder(q, p) THEN "none" ELSE device[q]]
    /\ tree' = LeaveBehind(tree, {p, Parent(p)})
    /\ UNCHANGED <<handles, opens, scan, crashed, stranded>>

-----------------------------------------------------------------------------
Init ==
    /\ \E top \in [Children[Root] -> Kinds] :
         /\ \A p \in DOMAIN top : MayBe(top[p], p)
         /\ device = [p \in Paths |-> IF p = Root THEN "dir" ELSE IF p \in DOMAIN top THEN top[p] ELSE "none"]
    /\ surprises = 0
    /\ tree = [p \in {Root} |-> NewNode("dir", TRUE, FALSE)]
    /\ handles = [fd \in Fds |-> Null]
    /\ opens = [k \in Opens |-> None]
    /\ scan = None /\ crashed = FALSE /\ stranded = FALSE

\* The callbacks of fuse_operations: those that name a path, and those that name
\* an open file.
OnPath(p) ==
    \/ ReaddirAsk(p)
    \/ /\ p # Root
       /\ \/ Getattr(p) \/ Mknod(p) \/ Mkdir(p) \/ Unlink(p) \/ Rmdir(p)
          \/ Utimens(p) \/ Truncate(p) \/ \E k \in Opens : Open(k, p)
          \/ \E q \in Paths \ {Root}, flag \in {"none", "noreplace", "exchange"} : Rename(p, q, flag)

OnHandle(k) == Write(k) \/ Flush(k) \/ Release(k)

Next ==
    /\ ~crashed
    /\ \/ \E p \in Paths : OnPath(p)
       \/ \E k \in Opens : OnHandle(k)
       \/ ReaddirApply
       \/ SetTtl \/ ExpiresAll
       \/ \E p \in Paths \ {Root} : ForgetEntry(p) \/ \E kind \in Kinds : Elsewhere(p, kind)

Spec == Init /\ [][Next]_vars

-----------------------------------------------------------------------------
(* Properties *)

\* Until host and device are parted by a surprise, the tree tells the truth: a
\* node is of the file's kind, an Error stands for no file, and a directory
\* that has been read lacks none of its files.  getattr and readdir answer from
\* it without asking the device.
Mirror ==
    Undisturbed => \A p \in DOMAIN tree :
        /\ IF tree[p].kind = "err" THEN ~Exists(p) ELSE tree[p].kind = device[p]
        /\ tree[p].synced => \A q \in Children[p] : Exists(q) => q \in DOMAIN tree

\* Where the device's clock is not ahead and no directory was renamed above a
\* cached file, the file system's own writes, truncations and time stamps are
\* never taken for a modification by somebody else (update, detect_modification),
\* which would throw away the cached pages and the open handles of the file.
\* Both conditions are needed: refresh_stat stamps the host's time, and pages
\* flushed to the path an entry had before the rename modify another file there.
OwnChangesKnown ==
    ~Ahead /\ ~stranded /\ Undisturbed => \A p \in DOMAIN tree :
        tree[p].kind = "reg" /\ ~tree[p].dirty => ~DetectModification(tree[p])

\* Until a surprise no handle is left pointing to a destroyed node, whatever
\* expires, is scanned again, removed or renamed over.
NoFreedHandle == Undisturbed => \A fd \in Fds : handles[fd] # Freed

\* Whatever happens on the device, a handle that still has a node has that of a
\* regular file: the branches of write, flush and release that say otherwise
\* are as unlikely as they are marked.
HandlesRegular == \A fd \in Fds : handles[fd] \in DOMAIN tree => tree[handles[fd]].kind = "reg"

\* An entry of the cache goes astray, so that hint_open refuses to open the file
\* and a flush may reach another, in one way only: below a directory that is
\* renamed (Cache::rename moves the entry of the node it is given).  In every
\* other step, and for the two names of the rename, an entry that changes takes
\* the path its node has.
EntriesFollow ==
    [][\A r \in DOMAIN tree' :
          \/ tree'[r].entry \in {None, r}
          \/ r \in DOMAIN tree /\ tree'[r].entry = tree[r].entry
          \/ \E p, q \in Paths \ {Root}, flag \in {"none", "noreplace", "exchange"} :
                /\ Rename(p, q, flag)
                /\ r \notin {p, q} /\ (IsUnder(r, p) \/ IsUnder(r, q))]_vars

\* The documented lifetime of a node in the handle store, "at the very least
\* from `store()` to `release()`", where nobody else changes the device.
HandlesKept ==
    Undisturbed => \A k \in Opens : opens[k] # None => handles[opens[k].fd] = opens[k].path
=============================================================================
