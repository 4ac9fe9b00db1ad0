----------------------------- MODULE MCOutside ------------------------------
(***************************************************************************)
(* The components in front of files and services outside the database, run *)
(* one at a time: the local library, its scan and its episodes, IPTV,      *)
(* chat, Jellyfin, the source health probes, the metadata clients and the  *)
(* Discord bot.                                                            *)
(***************************************************************************)
EXTENDS LocalLibrary, Sequences, TLC

CONSTANTS
    MaxNodes, MaxDepth, MaxTitles, Channels, Hours, Budgets, Rounds, Cost, MaxCalls, MaxConvs,
    MaxAsked, Seasons, Numbers, Libraries, Traits, Calls, MaxLogins, MaxRevokes, MaxFailures,
    Sources, TTL, LastProbe, MaxSweeps, FreshFor, LocalFor, StaleFor, LastTime, Nobody,
    Dirs, Scores, FileKinds, MaxFiles, Invites, MaxSessions, MaxOps, MaxWait

VARIABLES
    part,  \* the component that runs
    tree, encoding,
    index, catalog, fetchedAt, error, refreshing, fetch, viewer, tvNow,
    operator, ledger, ids, messages, chat, asked,
    library, lacks, carries, target, candidates, fetched, identity, stage, found, matchFailed,
    valid, logins, revokes, failures, token, holder, call,
    healthNow, kept, sweepers, probing, hears, load, sweeps,
    time, kind, local, fresh, shadow, titleRow, inflight, titleFetch, titleLoad, known,
    score, files, mkv, down,
    closing, at, wait, session, open, inbox, sent, hearts, broken, seq, beat, answer, row, told

ASSUME ScanAssumption == {MaxNodes, MaxDepth, MaxTitles} \subseteq Nat
ASSUME FoldersAssumption ==
    /\ Dirs \cup Scores \subseteq Nat /\ MaxFiles \in Nat
    /\ \E top \in Scores \cup {0} : \A s \in Scores : s <= top
ASSUME SeriesAssumption ==
    /\ Seasons \subseteq Nat \ {0} /\ Numbers \subseteq Nat \ {0}
    /\ \A l \in Libraries : l \in Seq([named : Nat, seasons : SUBSET Seasons,
                                       single : BOOLEAN, tmdb : BOOLEAN])
ASSUME FetchAssumption == Nobody \notin Requests /\ StaleFor \in Nat
ASSUME ProbeAssumption == TTL \in Nat
ASSUME BudgetAssumption ==
    /\ IsFiniteSet(Requests) /\ Rounds \in Nat \ {0} /\ Cost \in Nat
    /\ Budgets \subseteq Nat /\ \E b \in Budgets : \A o \in Budgets : o <= b
ASSUME LimitsAssumption ==
    /\ {LastTick, ItemsTTL, Failures, MaxAsked, MaxCalls, MaxLogins, MaxRevokes, MaxFailures,
        LastProbe, MaxSweeps, MaxSessions, MaxOps} \subseteq Nat
    /\ {LastTime, MaxWait} \subseteq Nat \ {0}
    /\ {FreshFor, LocalFor} \subseteq 0..StaleFor

Series(named, seasons, single, tmdb) ==
    [named |-> named, seasons |-> seasons, single |-> single, tmdb |-> tmdb]

\* One Series for the show, or one per season under any of the ways they are named and tagged.
SmallLibraries ==
    {<<Series(0, {1, 2}, FALSE, tmdb)>> : tmdb \in BOOLEAN}
    \cup {<<Series(n, {1}, TRUE, TRUE), Series(2, {2}, TRUE, tmdb)>> :
              n \in {0, 1}, tmdb \in BOOLEAN}
    \cup {<<Series(2, {2}, TRUE, FALSE), Series(0, {1}, TRUE, FALSE)>>,
          <<Series(0, {1}, TRUE, TRUE), Series(0, {2}, TRUE, TRUE)>>,
          <<Series(0, {2}, TRUE, FALSE), Series(0, {1}, TRUE, TRUE)>>,
          <<Series(0, {1}, TRUE, TRUE)>>, <<Series(2, {2}, TRUE, TRUE)>>}

SmallTraits == SUBSET {"id", "name", "date"}

\* Names that tell the season, the episode, both or neither, in folders of a season and not.
SmallKinds ==
    {[folder |-> folder, season |-> s, episode |-> e, web |-> TRUE] :
        folder \in {0, 2}, s \in 0..1, e \in 0..1}
    \cup {[folder |-> 0, season |-> 2, episode |-> 1, web |-> web] : web \in BOOLEAN}
    \cup {[folder |-> 1, season |-> 0, episode |-> 2, web |-> TRUE]}

\* The library of Jellyfin while it is not what is checked.
Resting ==
    /\ library = <<Series(2, {2}, TRUE, TRUE)>> /\ lacks = <<0, 0>>
    /\ carries = {} /\ target = <<2, 1>>

Scan == INSTANCE LocalScan
Tv == INSTANCE Iptv WITH Viewers <- Requests, now <- tvNow
Chatting == INSTANCE Chat WITH Chats <- Requests
Match == INSTANCE JellyfinMatch WITH failed <- matchFailed
Session == INSTANCE JellyfinSession
Health == INSTANCE SourceHealth WITH
    Loads <- Requests, LastTick <- LastProbe, now <- healthNow, holder <- sweepers
Titles == INSTANCE MetadataFetch WITH
    Fetchers <- Requests, row <- titleRow, fetch <- titleFetch, load <- titleLoad
Own == INSTANCE LocalMatch WITH encoding <- mkv
Bot == INSTANCE InviteBot

scanVars == <<tree, encoding>>
tvVars == <<index, catalog, fetchedAt, error, refreshing, fetch, viewer, tvNow>>
chatVars == <<operator, ledger, ids, messages, chat, asked>>
matchVars == <<library, lacks, carries, target, candidates, fetched, identity, stage, found,
               matchFailed>>
sessionVars == <<valid, logins, revokes, failures, token, holder, call>>
healthVars == <<healthNow, kept, sweepers, probing, hears, load, sweeps>>
titlesVars == <<time, kind, local, fresh, shadow, titleRow, inflight, titleFetch, titleLoad,
                known>>
ownVars == <<score, files, mkv, down>>
botVars == <<closing, at, wait, session, open, inbox, sent, hearts, broken, seq, beat, answer, row,
             told>>

Parts == {"local", "scan", "tv", "chat", "match", "session", "health", "titles", "own", "bot"}

\* The components that rest stay in one initial state.
AllInit ==
    /\ part \in Parts
    /\ Init
    /\ Scan!Init
    /\ Tv!Init
    /\ Chatting!Init
    /\ Match!Init
    /\ part # "match" => Resting
    /\ Session!Init
    /\ Health!Init
    /\ Titles!Init
    /\ part # "titles" => kind = "show"
    /\ Own!Init
    /\ part # "own" => score = [d \in Dirs |-> 0] /\ ~mkv /\ ~down
    /\ Bot!Init

AllNext ==
    \/ /\ part = "local" /\ Next
       /\ UNCHANGED <<part, scanVars, tvVars, chatVars, matchVars, sessionVars, healthVars,
                      titlesVars, ownVars, botVars>>
    \/ /\ part = "scan" /\ Scan!Next
       /\ UNCHANGED <<part, vars, tvVars, chatVars, matchVars, sessionVars, healthVars,
                      titlesVars, ownVars, botVars>>
    \/ /\ part = "tv" /\ Tv!Next
       /\ UNCHANGED <<part, vars, scanVars, chatVars, matchVars, sessionVars, healthVars,
                      titlesVars, ownVars, botVars>>
    \/ /\ part = "chat" /\ Chatting!Next
       /\ UNCHANGED <<part, vars, scanVars, tvVars, matchVars, sessionVars, healthVars,
                      titlesVars, ownVars, botVars>>
    \/ /\ part = "match" /\ Match!Next
       /\ UNCHANGED <<part, vars, scanVars, tvVars, chatVars, sessionVars, healthVars, titlesVars,
                      ownVars, botVars>>
    \/ /\ part = "session" /\ Session!Next
       /\ UNCHANGED <<part, vars, scanVars, tvVars, chatVars, matchVars, healthVars, titlesVars,
                      ownVars, botVars>>
    \/ /\ part = "health" /\ Health!Next
       /\ UNCHANGED <<part, vars, scanVars, tvVars, chatVars, matchVars, sessionVars, titlesVars,
                      ownVars, botVars>>
    \/ /\ part = "titles" /\ Titles!Next
       /\ UNCHANGED <<part, vars, scanVars, tvVars, chatVars, matchVars, sessionVars, healthVars,
                      ownVars, botVars>>
    \/ /\ part = "own" /\ Own!Next
       /\ UNCHANGED <<part, vars, scanVars, tvVars, chatVars, matchVars, sessionVars, healthVars,
                      titlesVars, botVars>>
    \/ /\ part = "bot" /\ Bot!Next
       /\ UNCHANGED <<part, vars, scanVars, tvVars, chatVars, matchVars, sessionVars, healthVars,
                      titlesVars, ownVars>>

AllSpec == AllInit /\ [][AllNext]_<<part, vars, scanVars, tvVars, chatVars, matchVars,
                                      sessionVars, healthVars, titlesVars, ownVars, botVars>>

-----------------------------------------------------------------------------
(* Properties *)

\* Every component's state has its type, in every reachable state.
Typed ==
    /\ part \in Parts
    /\ part = "local" => TypeOK
    /\ part = "scan" => Scan!TypeOK
    /\ part = "tv" => Tv!TypeOK
    /\ part = "chat" => Chatting!TypeOK
    /\ part = "match" => Match!TypeOK
    /\ part = "session" => Session!TypeOK
    /\ part = "health" => Health!TypeOK
    /\ part = "titles" => Titles!TypeOK
    /\ part = "own" => Own!TypeOK
    /\ part = "bot" => Bot!TypeOK

\* The titles list every playable file once, and folders lead to every file
\* (local_engine/library.py).
ScanFindsAll == part = "scan" => Scan!ListedOnce /\ Scan!BrowseReachesAll

\* A budget is passed by no more than the rounds under way, and a conversation holds no answer
\* without its question (chat_engine/conversation.py).
ChatHolds == part = "chat" => Chatting!SpendIsBounded /\ Chatting!AnswerHasQuestion

\* An episode that Jellyfin or the operator's own folders hold is what plays
\* (scrapers/jellyfin_scraper.py, scrapers/local_scraper.py).
HeldIsPlayed ==
    /\ part = "match" => Match!HeldIsPlayed
    /\ part = "own" => Own!HeldIsPlayed

\* What many requests want at once is done once: a refresh of the TV index (iptv_engine/service.py),
\* a login (_jellyfin_client.py), an upstream call (core/single_flight.py), a sweep of the probes
\* (health.py). The bot has one heartbeat, and what it says of an invite is so (bot.py).
SharedWork ==
    /\ [](part = "tv" => Tv!OneRefresh)
    /\ [](part = "session" => Session!LoginsAreShared)
    /\ [](part = "titles" => Titles!OneCallPerKey)
    /\ [](part = "bot" => Bot!OneHeart /\ Bot!RepliesAreTrue)
    /\ Health!SweepsAreApart

\* What was switched off stops: a stream of a disabled root starts no later than the cache of roots
\* lives (media_routes.py), a blocked channel is in no later catalogue (iptv_engine/service.py), and
\* a stopped bot opens no connection (bot.py).
OffStops == StreamsEnd /\ Tv!BlockedStaysOut /\ Bot!NoneAfterStop

\* While a copy lives, an outage of a metadata service is answered with it (anilist.py, store.py).
KnownIsServed == Titles!KnownIsServed

Symmetry == Permutations(Requests) \cup Permutations(Channels)
=============================================================================
