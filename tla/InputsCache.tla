---------------------------- MODULE InputsCache -----------------------------
(* The input files of sandboxes (manager/inputs_cache.py): blobs downloaded  *)
(* once per user, views made of hard links to them, the eviction of blobs    *)
(* and the removal of views that no container mounts.  Each of these runs in *)
(* a thread of its own; only the calls for one view exclude each other.      *)
EXTENDS Naturals, Sequences, Functions

CONSTANTS
    Blobs,       \* contents, by hash; all of one size
    Views,       \* directories of hard links
    V1Views,     \* those of v1 sandboxes, which are removed when unmounted
    Grants,      \* the lists of files a view may be asked for: path -> blob
    CacheLimit,  \* blobs that eviction leaves
    MaxGrants    \* bound: calls of materialize

ASSUME InputsAssumption ==
    /\ V1Views \subseteq Views /\ {CacheLimit, MaxGrants} \subseteq Nat
    /\ \A g \in Grants : g \in [DOMAIN g -> Blobs]

VARIABLES
    cached,   \* blob -> its inode, 0 when it is not cached
    inodes,   \* inodes made so far
    used,     \* the cached blobs, the least recently used first
    links,    \* view -> its files: path -> blob and inode
    sync,     \* view -> the call that works on it
    granted,  \* view -> the list of its last successful call
    mounts,   \* view -> its container: none, creating or mounted
    fresh,    \* v1 views younger than the grace period
    evict,    \* the eviction
    prune,    \* the removal of views
    synced,   \* materialize calls so far
    torn      \* history: views that a failed call or a removal left in pieces

inputsVars == <<cached, inodes, used, links, sync, granted, mounts, fresh, evict, prune,
                synced, torn>>

NoFiles == [p \in {} |-> 0]
Idle == [pc |-> "idle", want |-> NoFiles, todo |-> {}]
NoEvict == [pc |-> "idle", list |-> <<>>, total |-> 0]
NoPrune == [pc |-> "idle", mounted |-> {}, todo |-> {}]
NoView == [gone |-> TRUE, files |-> NoFiles]

Usable(b) == cached[b] # 0
Inode(b) == [blob |-> b, inode |-> cached[b]]
Touched(b) == Append(SelectSeq(used, LAMBDA c : c # b), b)

-----------------------------------------------------------------------------
(* materialize: every blob first, then the links, then the manifest.         *)

Materialize(v, g) ==
    /\ sync[v].pc = "idle" /\ mounts[v] # "creating"
    /\ synced < MaxGrants
    /\ synced' = synced + 1
    /\ sync' = [sync EXCEPT ![v] = [pc |-> "ensure", want |-> g, todo |-> DOMAIN g]]
    /\ UNCHANGED <<cached, inodes, used, links, granted, mounts, fresh, evict, prune, torn>>

Done(v, p) == sync' = [sync EXCEPT ![v].todo = @ \ {p}]
SyncFails(v) == sync' = [sync EXCEPT ![v] = Idle]

\* A usable blob is touched; another is downloaded, checked and moved in.
EnsureBlob(v, p) ==
    LET b == sync[v].want[p] IN
    /\ sync[v].pc = "ensure" /\ p \in sync[v].todo
    /\ \/ /\ Usable(b)
          /\ used' = Touched(b) /\ Done(v, p)
          /\ UNCHANGED <<cached, inodes>>
       \/ /\ ~Usable(b)
          /\ cached' = [cached EXCEPT ![b] = inodes + 1]
          /\ inodes' = inodes + 1
          /\ used' = Touched(b) /\ Done(v, p)
       \/ ~Usable(b) /\ SyncFails(v) /\ UNCHANGED <<cached, inodes, used>>
    /\ UNCHANGED <<links, granted, mounts, fresh, evict, prune, synced, torn>>

\* mutant: what has the name of a wanted file stays.
KeptByName(files, want) == {p \in DOMAIN files : p \in DOMAIN want}

\* The links that stay: the wanted names that lead to the cached inode.
Kept(files, want) == {p \in DOMAIN files : p \in DOMAIN want /\ files[p] = Inode(want[p])}

\* A directory made anew is young.
Renewed(v) == IF links[v].gone THEN fresh \union ({v} \intersect V1Views) ELSE fresh

SyncBegin(v) ==
    /\ sync[v].pc = "ensure" /\ sync[v].todo = {}
    /\ links' = [links EXCEPT ![v] =
                   [gone |-> FALSE, files |-> Restrict(@.files, Kept(@.files, sync[v].want))]]
    /\ sync' = [sync EXCEPT ![v].pc = "link", ![v].todo = DOMAIN sync[v].want]
    /\ torn' = torn \ {v} /\ fresh' = Renewed(v)
    /\ UNCHANGED <<cached, inodes, used, granted, mounts, evict, prune, synced>>

\* A blob evicted since it was ensured ends the call.
LinkOne(v, p) ==
    LET b == sync[v].want[p] IN
    /\ sync[v].pc = "link" /\ p \in sync[v].todo
    /\ \/ p \in DOMAIN links[v].files /\ Done(v, p) /\ UNCHANGED <<links, used, torn, fresh>>
       \/ /\ p \notin DOMAIN links[v].files /\ Usable(b)
          /\ links' = [links EXCEPT ![v] =
                [gone |-> FALSE,
                 files |-> [q \in DOMAIN @.files \union {p} |->
                              IF q = p THEN Inode(b) ELSE @.files[q]]]]
          /\ used' = Touched(b) /\ Done(v, p)
          /\ fresh' = Renewed(v) /\ UNCHANGED torn
       \/ /\ p \notin DOMAIN links[v].files /\ ~Usable(b)
          /\ SyncFails(v) /\ torn' = torn \union {v}
          /\ UNCHANGED <<links, used, fresh>>
    /\ UNCHANGED <<cached, inodes, granted, mounts, evict, prune, synced>>

\* The manifest's rename renews the view; a v1 acquire goes on to a container.
\* Without the directory the manifest cannot be written.
Manifest(v) ==
    /\ sync[v].pc = "link" /\ sync[v].todo = {}
    /\ sync' = [sync EXCEPT ![v] = Idle]
    /\ IF links[v].gone THEN UNCHANGED <<granted, fresh, mounts>>
       ELSE /\ granted' = [granted EXCEPT ![v] = sync[v].want]
            /\ fresh' = fresh \union ({v} \intersect V1Views)
            /\ mounts' = [mounts EXCEPT ![v] = IF v \in V1Views /\ @ = "none"
                                               THEN "creating" ELSE @]
    /\ UNCHANGED <<cached, inodes, used, links, evict, prune, synced, torn>>

-----------------------------------------------------------------------------
(* Eviction: the least recently used first, never what a view links.         *)

Linked(b) == \E v \in Views : \E p \in DOMAIN links[v].files : links[v].files[p] = Inode(b)

EvictList ==
    /\ evict.pc = "idle" /\ Len(used) > CacheLimit
    /\ evict' = [pc |-> "unlink", total |-> Len(used),
                 list |-> [i \in DOMAIN used |-> [blob |-> used[i], linked |-> Linked(used[i])]]]
    /\ UNCHANGED <<cached, inodes, used, links, sync, granted, mounts, fresh, prune, synced, torn>>

Unlinked(b) ==
    /\ cached' = [cached EXCEPT ![b] = 0]
    /\ used' = SelectSeq(used, LAMBDA c : c # b)

\* The link count is that of the listing; the unlink goes by name.
EvictOne ==
    LET e == Head(evict.list) IN
    /\ evict.pc = "unlink"
    /\ \/ /\ evict.list = <<>> \/ evict.total <= CacheLimit
          /\ evict' = NoEvict /\ UNCHANGED <<cached, used>>
       \/ /\ evict.list # <<>> /\ evict.total > CacheLimit /\ e.linked
          /\ evict' = [evict EXCEPT !.list = Tail(@)] /\ UNCHANGED <<cached, used>>
       \/ /\ evict.list # <<>> /\ evict.total > CacheLimit /\ ~e.linked
          /\ evict' = [evict EXCEPT !.list = Tail(@), !.total = @ - 1]
          /\ Unlinked(e.blob)
    /\ UNCHANGED <<inodes, links, sync, granted, mounts, fresh, prune, synced, torn>>

-----------------------------------------------------------------------------
(* prune_v1_views: the inventory of containers, then the views one by one.   *)

PruneList ==
    /\ prune.pc = "idle"
    /\ \E v \in V1Views : ~links[v].gone
    /\ prune' = [pc |-> "judge", mounted |-> {v \in V1Views : mounts[v] = "mounted"},
                 todo |-> {v \in V1Views : ~links[v].gone}]
    /\ UNCHANGED <<cached, inodes, used, links, sync, granted, mounts, fresh, evict, synced, torn>>

\* mutant: what the inventory does not have goes.
StaysIfListed(v) == v \in prune.mounted
Stays(v) == v \in prune.mounted \/ v \in fresh

PruneOne(v) ==
    /\ prune.pc = "judge" /\ v \in prune.todo
    /\ prune' = [prune EXCEPT !.todo = @ \ {v}]
    /\ IF Stays(v) THEN UNCHANGED <<links, torn>>
       ELSE /\ links' = [links EXCEPT ![v] = NoView]
            /\ torn' = IF sync[v].pc = "link" THEN torn \union {v} ELSE torn
    /\ UNCHANGED <<cached, inodes, used, sync, granted, mounts, fresh, evict, synced>>

PruneEnd ==
    /\ prune.pc = "judge" /\ prune.todo = {}
    /\ prune' = NoPrune
    /\ UNCHANGED <<cached, inodes, used, links, sync, granted, mounts, fresh, evict, synced, torn>>

-----------------------------------------------------------------------------
(* The containers that mount v1 views, and the clock (external).             *)

ContainerCreated(v) ==
    /\ mounts[v] = "creating"
    /\ \E m \in {"mounted", "none"} : mounts' = [mounts EXCEPT ![v] = m]
    /\ UNCHANGED <<cached, inodes, used, links, sync, granted, fresh, evict, prune, synced, torn>>

ContainerGone(v) ==
    /\ mounts[v] = "mounted"
    /\ mounts' = [mounts EXCEPT ![v] = "none"]
    /\ UNCHANGED <<cached, inodes, used, links, sync, granted, fresh, evict, prune, synced, torn>>

\* The grace period outlasts the linking of a view, the creation of its
\* container, and the inventory that missed the container.
GraceEnds(v) ==
    /\ v \in fresh /\ sync[v].pc # "link" /\ mounts[v] # "creating"
    /\ ~(prune.pc = "judge" /\ mounts[v] = "mounted" /\ v \notin prune.mounted)
    /\ fresh' = fresh \ {v}
    /\ UNCHANGED <<cached, inodes, used, links, sync, granted, mounts, evict, prune, synced, torn>>

InputsInit ==
    /\ cached = [b \in Blobs |-> 0] /\ inodes = 0 /\ used = <<>>
    /\ links = [v \in Views |-> NoView]
    /\ sync = [v \in Views |-> Idle]
    /\ granted = [v \in Views |-> NoFiles]
    /\ mounts = [v \in Views |-> "none"]
    /\ fresh = {} /\ evict = NoEvict /\ prune = NoPrune /\ synced = 0 /\ torn = {}

InputsNext ==
    \/ \E v \in Views :
         \/ \E g \in Grants : Materialize(v, g)
         \/ \E p \in sync[v].todo : EnsureBlob(v, p) \/ LinkOne(v, p)
         \/ SyncBegin(v) \/ Manifest(v)
         \/ ContainerCreated(v) \/ ContainerGone(v) \/ GraceEnds(v)
         \/ PruneOne(v)
    \/ EvictList \/ EvictOne \/ PruneList \/ PruneEnd

InputsSpec == InputsInit /\ [][InputsNext]_inputsVars
-----------------------------------------------------------------------------

Contents(v) == [p \in DOMAIN links[v].files |-> links[v].files[p].blob]

\* Between its calls, a view holds exactly the files of its manifest with their
\* contents, whatever was evicted, downloaded again and linked elsewhere
\* meanwhile (inputs_cache.py:153); a view left in pieces is apart.
GrantedViewIsExact ==
    \A v \in Views \ torn :
        sync[v].pc = "idle" /\ ~links[v].gone => Contents(v) = granted[v]

\* The view that a running container mounts is never removed, although the
\* inventory of containers may be older than the container
\* (inputs_cache.py:239, container_manager.py:115).
MountedViewStays == \A v \in V1Views : mounts[v] = "mounted" => ~links[v].gone
=============================================================================
