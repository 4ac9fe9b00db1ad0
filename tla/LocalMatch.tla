----------------------------- MODULE LocalMatch -----------------------------
(***************************************************************************)
(* How an episode is found among the operator's own files                  *)
(* (scrapers/local_scraper.py): the show's folders by their names, then a  *)
(* file by the season and the episode that it or its folder tells.         *)
(***************************************************************************)
EXTENDS Integers, Sequences, FiniteSets

CONSTANTS
    Dirs,      \* folders below the enabled roots, 1..n in the order they are listed
    Scores,    \* how well a folder's name fits the titles: 0 is below the threshold
    FileKinds, \* files: [folder, season, episode, web], 0 for what a name does not tell
    MaxFiles   \* bound: files

VARIABLES
    score,     \* folder -> its score
    files,     \* in the order os.walk comes to them: [dir, kind]
    encoding,  \* the roots' switch for containers that no browser plays
    down       \* the database does not answer

vars == <<score, files, encoding, down>>

TypeOK ==
    /\ score \in [Dirs -> Scores]
    /\ files \in Seq([dir : Dirs, kind : FileKinds]) /\ Len(files) <= MaxFiles
    /\ encoding \in BOOLEAN /\ down \in BOOLEAN

Init ==
    /\ score \in [Dirs -> Scores]
    /\ files = <<>> /\ encoding \in BOOLEAN /\ down \in BOOLEAN

Copy(dir, kind) ==
    /\ Len(files) < MaxFiles
    /\ files' = Append(files, [dir |-> dir, kind |-> kind])
    /\ UNCHANGED <<score, encoding, down>>

Next == \E dir \in Dirs, kind \in FileKinds : Copy(dir, kind)

Spec == Init /\ [][Next]_vars

-----------------------------------------------------------------------------
\* _find_show_dirs: the best first, else as they were listed; then a folder's files as they come.
Ahead(j, k) ==
    LET a == files[j].dir b == files[k].dir
    IN  score[a] > score[b] \/ (score[a] = score[b] /\ (a < b \/ (a = b /\ j < k)))
Candidates == {d \in Dirs : score[d] > 0}

First(S) == {k \in S : \A j \in S \ {k} : Ahead(k, j)}
Else(x, y) == IF x # {} THEN x ELSE y

\* is_playable_path asks for the roots unless a browser plays the file; when that raises, the
\* walk of the folder is over.
Walked(k) ==
    /\ files[k].dir \in Candidates
    /\ down => \A j \in 1..k : files[j].dir = files[k].dir => files[j].kind.web

AllVideos == {k \in DOMAIN files : Walked(k) /\ (files[k].kind.web \/ encoding)}

\* The season a file's name tells, or else its folder's, or else the first.
Season(f) ==
    CASE f.kind.season # 0 -> f.kind.season
      [] f.kind.season = 0 /\ f.kind.folder # 0 -> f.kind.folder
      [] OTHER -> 1

Entries(episode) == {k \in AllVideos : files[k].kind.episode = episode}

\* _locate_file: the episode, else for season 1 one of its number, else the only video.
Located(season, episode) ==
    Else(First({k \in Entries(episode) : Season(files[k]) = season}),
    IF season # 1 THEN {}
    ELSE Else(First(Entries(episode)),
              IF episode = 1 /\ Cardinality(AllVideos) = 1 THEN AllVideos ELSE {}))

-----------------------------------------------------------------------------
(* Properties *)

Holds(f, season, episode) ==
    /\ score[f.dir] > 0 /\ (f.kind.web \/ encoding)
    /\ Season(f) = season /\ f.kind.episode = episode

\* An episode that some folder of the show holds is what plays, from the folder that fits best,
\* whatever other folders fit and whichever way the files tell what they are; without the
\* database, as long as no file of that folder needs it.
HeldIsPlayed ==
    \A k \in DOMAIN files : LET f == files[k] s == Season(f) e == f.kind.episode IN
        (/\ e # 0 /\ Holds(f, s, e)
         /\ down => \A j \in DOMAIN files : files[j].dir = f.dir => files[j].kind.web)
        => \E g \in Located(s, e) : Holds(files[g], s, e) /\ score[files[g].dir] >= score[f.dir]

\* local_scraper.py, _locate_file: "Flat folders leave season 1 implicit, so match on the
\* episode alone": only a file that tells no season plays for another.
OnlyImplicitFirst ==
    \A k \in DOMAIN files : files[k].kind.episode # 0 =>
        \A g \in Located(1, files[k].kind.episode) :
            files[g].kind.season \in {0, 1} /\ files[g].kind.folder \in {0, 1}
=============================================================================
