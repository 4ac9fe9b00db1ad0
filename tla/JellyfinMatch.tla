----------------------------- MODULE JellyfinMatch -----------------------------
(***************************************************************************)
(* How an episode is found in the operator's Jellyfin library              *)
(* (scrapers/jellyfin_scraper.py, scrapers/_title_match.py).               *)
(*                                                                         *)
(* A library holds a show as one Series of many seasons, or as one Series  *)
(* per season, whose only folder is then "Season 1". Every candidate       *)
(* Series is collected, its episodes are fetched, and the episode is       *)
(* matched by what identifies it; if nothing does, by season and number.   *)
(* Any of the calls may fail, and the search goes on without its answer.   *)
(***************************************************************************)
EXTENDS Integers, Sequences

CONSTANTS
    Seasons,    \* seasons of the show
    Numbers,    \* episodes of a season
    Libraries,  \* sequences of Series: the season its name says (0: none), the seasons it holds,
                \* whether it is a Series per season, whether it carries the show's TMDB id
    Traits      \* sets of what the episodes of a library may carry: "id", "name", "date"

Episodes == Seasons \X Numbers
NoEpisode == <<0, 0>>

VARIABLES
    library,     \* the Series that Jellyfin holds
    lacks,       \* the episode it does not hold, or NoEpisode
    carries,     \* what its episodes are tagged with
    target,      \* the season and episode asked for
    candidates,  \* position in library -> the search that found it first
    fetched,     \* position -> its episodes, as Jellyfin gave them
    identity,    \* what is known of the target: "id", "name", "date"
    stage,
    found,       \* <<position, episode>>
    failed       \* history: a call failed

vars == <<library, lacks, carries, target, candidates, fetched, identity, stage, found, failed>>
request == <<library, lacks, carries, target>>

Searches == 1..2  \* by id, by title
None == <<0, NoEpisode>>
Positions == DOMAIN library

TypeOK ==
    /\ library \in Libraries /\ lacks \in Episodes \cup {NoEpisode} /\ carries \in Traits /\ target \in Episodes
    /\ DOMAIN candidates \subseteq Positions /\ \A i \in DOMAIN candidates : candidates[i] \in Searches
    /\ fetched \in Seq(SUBSET Episodes) /\ DOMAIN fetched \subseteq Positions
    /\ identity \subseteq {"id", "name", "date"}
    /\ stage \in {"by id", "by title", "episodes", "identity", "match", "done"}
    /\ found = None \/ (found[1] \in Positions /\ found[2] \in Episodes)
    /\ failed \in BOOLEAN

Init ==
    /\ library \in Libraries /\ lacks \in Episodes \cup {NoEpisode} /\ carries \in Traits /\ target \in Episodes
    /\ candidates = <<>> /\ fetched = <<>> /\ identity = {} /\ found = None
    /\ stage = "by id" /\ failed = FALSE

-----------------------------------------------------------------------------
\* A Series of one season has a folder "Season 1", whatever the season.
Held(i) == {e \in Episodes : e[1] \in library[i].seasons /\ e # lacks}
ParentIndex(x) == IF library[x[1]].single THEN 1 ELSE x[2][1]
Index(x) == x[2][2]

\* Who was collected first, and what Jellyfin lists first of it.
Collected(i, j) == candidates[i] < candidates[j] \/ (candidates[i] = candidates[j] /\ i < j)
Ahead(x, y) ==
    \/ Collected(x[1], y[1])
    \/ x[1] = y[1] /\ x[2][1] < y[2][1]
    \/ x[1] = y[1] /\ x[2][1] = y[2][1] /\ x[2][2] < y[2][2]

First(S) == IF S = {} THEN None ELSE CHOOSE x \in S : \A y \in S \ {x} : Ahead(x, y)
Else(x, y) == IF x # None THEN x ELSE y

\* search_anime: the Series tagged with the show, unless that call fails, ...
SearchById ==
    /\ stage = "by id"
    /\ \E answered \in BOOLEAN :
          /\ candidates' = [i \in {j \in Positions : answered /\ library[j].tmdb} |-> 1]
          /\ failed' = ~answered
    /\ stage' = "by title"
    /\ UNCHANGED <<request, fetched, identity, found>>

\* ... then those found by title, tagged or not. Without candidates the search is over.
SearchByTitle ==
    /\ stage = "by title"
    /\ candidates' = [i \in Positions |-> IF i \in DOMAIN candidates THEN candidates[i] ELSE 2]
    /\ stage' = "episodes"
    /\ UNCHANGED <<request, fetched, identity, found, failed>>

SearchFails ==
    /\ stage = "by title"
    /\ stage' = "done" /\ failed' = TRUE
    /\ UNCHANGED <<request, candidates, fetched, identity, found>>

\* _episodes of one candidate after the other: a failure leaves none of them.
FetchEpisodes ==
    /\ stage = "episodes" /\ Len(fetched) < Len(library)
    /\ LET i == Len(fetched) + 1
       IN  \E answered \in BOOLEAN :
              /\ fetched' = Append(fetched, IF answered THEN Held(i) ELSE {})
              /\ failed' = (failed \/ ~answered)
    /\ stage' = IF Len(fetched') = Len(library) THEN "identity" ELSE stage
    /\ UNCHANGED <<request, candidates, identity, found>>

\* _tmdb_episode_identity, and the title that AniList gives the episode; a name such as
\* "Episode 1" does not count.
Identify ==
    /\ stage = "identity"
    /\ identity' \in {{}, {"name"}, {"id", "date"}, {"id", "name", "date"}}
    /\ stage' = "match"
    /\ UNCHANGED <<request, candidates, fetched, found, failed>>

AllEpisodes == {x \in Positions \X Episodes : x[2] \in fetched[x[1]]}
Numbered(seasons) == {x \in AllEpisodes : Index(x) = target[2] /\ ParentIndex(x) \in seasons}

\* _match_episode: an episode is told apart by any of the three.
Identified ==
    IF identity \cap carries = {} THEN None ELSE First({x \in AllEpisodes : x[2] = target})

\* _best_for_season: the first candidate of the best score
Score(i) ==
    (CASE library[i].named = target[1] -> 100
       [] library[i].named = 0 /\ target[1] = 1 -> 60
       [] library[i].named = 0 /\ target[1] # 1 -> 10
       [] OTHER -> 0) + (IF library[i].tmdb THEN 2 ELSE 0)

BestForSeason == {i \in Positions : Score(i) > 0 /\ \A j \in Positions : Score(j) <= Score(i)}
Best == CHOOSE i \in BestForSeason : \A j \in BestForSeason \ {i} : Collected(i, j)

\* Mutant: season 1 is looked for among all candidates as well.
InAnySeries == First(Numbered({target[1]}))

\* Not for season 1, which is what a Series per season calls its own.
InMultiSeason == IF target[1] = 1 THEN None ELSE First(Numbered({target[1]}))

InBest ==
    IF BestForSeason = {} THEN None
    ELSE Else(First({x \in Numbered({target[1], 1}) : x[1] = Best}),
              First({x \in AllEpisodes : x[1] = Best /\ Index(x) = target[2]}))

ByIndex == Else(InMultiSeason, Else(InBest, First(Numbered({target[1]}))))

\* get_episode_embeds
Match ==
    /\ stage = "match"
    /\ found' = Else(Identified, ByIndex)
    /\ stage' = "done"
    /\ UNCHANGED <<request, candidates, fetched, identity, failed>>

-----------------------------------------------------------------------------
Next == SearchById \/ SearchByTitle \/ SearchFails \/ FetchEpisodes \/ Identify \/ Match

Spec == Init /\ [][Next]_vars

-----------------------------------------------------------------------------
(* Properties *)

\* The layouts that the scraper knows: a Series of many seasons, the first among them, whose name
\* tells none, and Series of one season whose names tell it: none says season 1.
NamesTell == \A i \in Positions :
    IF library[i].single
    THEN library[i].seasons = {IF library[i].named = 0 THEN 1 ELSE library[i].named}
    ELSE library[i].named = 0 /\ 1 \in library[i].seasons

\* An episode that the library holds is what plays, if Jellyfin answered every call, and if the
\* episodes' tags or else the names of the Series identify it.
HeldIsPlayed ==
    (stage = "done" /\ ~failed /\ target # lacks /\ (identity \cap carries # {} \/ NamesTell)
       /\ \E i \in Positions : target[1] \in library[i].seasons)
          => found[2] = target

\* jellyfin_scraper.py, _best_for_season: "A name without a season counts as 1."
NamelessIsFirst ==
    [][stage = "match" => \A i \in BestForSeason : library[i].named = 0 => target[1] = 1]_vars
=============================================================================
