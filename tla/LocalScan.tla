----------------------------- MODULE LocalScan -----------------------------
(* local_engine.library: what a walk over a registered directory lists.  The
   tree's nodes are numbered in name order below their parent; the state is the
   tree as the operator's copies and the encoding switch leave it, and the scan,
   the browse view and the overview are functions of it. *)
EXTENDS Integers, Sequences, SequencesExt, FiniteSetsExt

CONSTANTS MaxNodes,   \* bound: files and folders below the root
          MaxDepth,   \* _MAX_SCAN_DEPTH
          MaxTitles   \* _MAX_TITLES

Folders == {"folder", "season", "hidden", "tmdb"}  \* by name: S01, .x, tmdb-280042
Files   == {"part", "film", "mkv", "nfo"}          \* S01E02.mp4, x.mp4, x.mkv, movie.nfo
Root == 0

VARIABLES tree,       \* node |-> [kind, parent]
          encoding    \* local_media_sources.encoding of the root

vars == <<tree, encoding>>

Nodes == 1..Len(tree)
IsFolder(n) == n \in {Root} \cup {f \in Nodes : tree[f].kind \in Folders}

TypeOK ==
    /\ Len(tree) <= MaxNodes
    /\ tree \in Seq([kind: Folders \cup Files, parent: 0..MaxNodes])
    /\ \A n \in Nodes : tree[n].parent < n /\ IsFolder(tree[n].parent)
    /\ encoding \in BOOLEAN

Init == tree = <<>> /\ encoding = FALSE

Copy(kind, parent) ==
    /\ Len(tree) < MaxNodes /\ IsFolder(parent)
    /\ tree' = Append(tree, [kind |-> kind, parent |-> parent])
    /\ UNCHANGED encoding

\* update_source of the root.
SwitchEncoding ==
    /\ encoding' = ~encoding
    /\ UNCHANGED tree

Next ==
    \/ \E kind \in Folders \cup Files, parent \in {Root} \cup Nodes : Copy(kind, parent)
    \/ SwitchEncoding

Spec == Init /\ [][Next]_vars

-----------------------------------------------------------------------------
Children(d) == {n \in Nodes : tree[n].parent = d}

\* is_playable_path: a web container always, another while the root encodes.
Playable(n) == tree[n].kind \in {"part", "film"} \/ (tree[n].kind = "mkv" /\ encoding)

\* _walk_playable and _dir_has_media: os.walk enters hidden folders too.
Above == LET up[n \in {Root} \cup Nodes] ==
               IF n = Root THEN {} ELSE {tree[n].parent} \cup up[tree[n].parent]
         IN  up
Walk(d) == {n \in Nodes : ~IsFolder(n) /\ Playable(n) /\ d \in Above[n]}

DirectMedia(d) == {n \in Children(d) : ~IsFolder(n) /\ Playable(n)}
ChildDirs(d) == {n \in Children(d) : IsFolder(n) /\ tree[n].kind # "hidden"}
SeasonDirs(d) == {n \in ChildDirs(d) : tree[n].kind = "season"}

\* _classify_dir
IsTitle(d) == DirectMedia(d) # {} \/ \E s \in SeasonDirs(d) : Walk(s) # {}
IsContainerOfAll(d) == ~IsTitle(d) /\ \A s \in ChildDirs(d) : Walk(s) # {}
IsContainer(d) == ~IsTitle(d) /\ \E s \in ChildDirs(d) \ SeasonDirs(d) : Walk(s) # {}

\* _build_title with _resolve_metadata: a movie.nfo, or one file with no episode
\* marker, is a movie, and a cache folder's name overrides either.
MediaKind(t) ==
    IF ~IsFolder(t) THEN "movie"
    ELSE IF tree[t].kind = "tmdb" THEN "show"
    ELSE IF \/ \E n \in Children(t) : tree[n].kind = "nfo"
            \/ Cardinality(Walk(t)) = 1 /\ \A f \in Walk(t) : tree[f].kind # "part"
         THEN "movie" ELSE "show"
Held(t) == IF IsFolder(t) THEN Walk(t) ELSE {t}

\* _scan_dir: loose files and title folders in name order, containers descended
\* into up to the depth limit.
Shown(n) == IF IsFolder(n) THEN tree[n].kind # "hidden" /\ IsTitle(n) ELSE Playable(n)
Descended(n) == IsFolder(n) /\ tree[n].kind # "hidden" /\ IsContainer(n)

\* sorted: the i-th of a folder's names.
Nth(S, i) == CHOOSE n \in S : Cardinality({m \in S : m < n}) = i - 1

ScanDir ==
    LET under[depth \in 0..(MaxDepth + 1)] == [d \in {Root} \cup Nodes |->
          IF depth > MaxDepth THEN <<>>
          ELSE FlattenSeq([i \in 1..Cardinality(Children(d)) |->
                 LET n == Nth(Children(d), i) IN
                 IF Shown(n) THEN <<n>>
                 ELSE IF Descended(n) THEN under[depth + 1][n] ELSE <<>>])]
    IN  under[0][Root]

\* scan_library stops at the title that fills the list.
ScanLibrary ==
    IF Len(ScanDir) <= MaxTitles THEN ScanDir ELSE SubSeq(ScanDir, 1, MaxTitles)

\* browse_dir, followed through its folders from the root: the titles and loose
\* files a visitor can reach.
Browsable ==
    LET under[d \in {Root} \cup Nodes] ==
          {n \in Children(d) : Shown(n)}
          \cup UNION {under[n] : n \in {c \in Children(d) : Descended(c)}}
    IN  under[Root]

\* get_library_item: a movie plays one file, its largest; a show lists them all.
Played(t) == IF MediaKind(t) = "movie" THEN {CHOOSE f \in Held(t) : TRUE} ELSE Held(t)

-----------------------------------------------------------------------------
InTheOpen(f) == \A n \in ({f} \cup Above[f]) \ {Root} : tree[n].kind # "hidden"

\* The title list shows every playable file that no dot folder hides under exactly
\* one title, however folders, seasons and containers nest, unless it lies below
\* the depth limit or the list is full.
ListedOnce ==
    LET list == ScanLibrary IN
    \A f \in {g \in Walk(Root) : InTheOpen(g)} :
      LET titles == {i \in 1..Len(list) : f \in Held(list[i])}
      IN  \/ Cardinality(titles) = 1
          \/ titles = {} /\ (Cardinality(Above[f]) > MaxDepth + 1 \/ Len(list) = MaxTitles)

\* "Media that never resolves to a title is still reachable" (browse_dir): by
\* folders, a visitor reaches every such file at any depth, and plays it unless
\* its title is a movie with several files.
BrowseReachesAll ==
    \A f \in {g \in Walk(Root) : InTheOpen(g)} : \E t \in Browsable :
        f \in Held(t) /\ (f \in Played(t) \/ (MediaKind(t) = "movie" /\ Cardinality(Held(t)) > 1))
=============================================================================
