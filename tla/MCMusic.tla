------------------------------ MODULE MCMusic -------------------------------
(***************************************************************************)
(* MusicQueue with two tracks of one name and picks of tracks that no task *)
(* works on, and the synchronisation of the playlists that hold them, run  *)
(* one at a time.                                                          *)
(***************************************************************************)
EXTENDS MusicQueue, TLC

CONSTANTS
    Runs, Content, MaxToken, MaxPlaylist

VARIABLES
    part,  \* the component that runs
    upstream, alive, issued, link, listRow, inserted, listed, flagged, run, lost, overlapped

SameName == [t \in Tracks |-> 1]

SettledStatuses == Settled

\* What the playlist holds at first, and what it is changed to.
Editions == <<{1}, {2}>>

ASSUME ContentAssumption == Content \in Seq(SUBSET Tracks) /\ Content # <<>>
ASSUME ListBoundsAssumption == {MaxToken, MaxPlaylist} \subseteq Nat

Playlists == INSTANCE PlaylistSync WITH row <- listRow

playlistsVars == <<upstream, alive, issued, link, listRow, inserted, listed, flagged, run, lost,
                   overlapped>>

Parts == {"worker", "playlists"}

\* The components that rest stay in one initial state.
AllInit ==
    /\ part \in Parts
    /\ Init
    /\ Playlists!Init

AllNext ==
    \/ /\ part = "worker" /\ Next
       /\ UNCHANGED <<part, playlistsVars>>
    \/ /\ part = "playlists" /\ Playlists!Next
       /\ UNCHANGED <<part, vars>>

AllSpec == AllInit /\ [][AllNext]_<<part, vars, playlistsVars>>

-----------------------------------------------------------------------------
(* Properties *)

\* Every component's state has its type, in every reachable state.
Typed ==
    /\ part \in Parts
    /\ part = "worker" => TypeOK
    /\ part = "playlists" => Playlists!TypeOK

\* A ready row has its own audio in its file, which is the picked recording; its copy at the CDN is
\* that audio; a working row is held by a task, and there are no more tasks than slots (worker.py).
TracksHold ==
    part = "worker" =>
       ReadyHasItsAudio /\ PickIsHonoured /\ MirroredIsCurrent /\ WorkingIsHeld /\ SlotsKept

\* Replicas that refresh a link at once leave one that Spotify takes, and a playlist that may be
\* skipped as unchanged has the tracks of its snapshot (music_engine/spotify.py, library.py).
PlaylistsHold == part = "playlists" => Playlists!LinkStaysAlive /\ Playlists!SkippedIsCurrent

Symmetry == Permutations(Urls) \cup Permutations(Runs)
=============================================================================
