----------------------------- MODULE MCAccounts -----------------------------
(***************************************************************************)
(* Registration with the other components of the accounts: the login wall, *)
(* passwords and mailed links, the administrators' requests and the        *)
(* library. They are run one at a time, since what they share (the rows of *)
(* an account and its sessions) is small and modelled in each as far as it *)
(* is touched.                                                             *)
(***************************************************************************)
EXTENDS Registration, TLC

CONSTANTS
    Tokens, Keys, Visits, WallTTL, MaxEntries, MaxClock, Owners, Words, OldWord, Links, People,
    Bootstrap, Acts, MaxStart, Items, Lists, Episodes, Saves, Cap, MaxFile, Spots, Retention,
    MaxDay

ASSUME WallAssumption == /\ None \notin Tokens \cup Keys
                         /\ WallTTL \in Nat /\ MaxClock \in Nat \ {0}
ASSUME LinksAssumption == None \notin Owners \cup Links /\ OldWord \in Words
ASSUME DeskAssumption == None \notin Acts /\ MaxStart \in Nat
ASSUME LibraryAssumption ==
           /\ IsFiniteSet(Items \X Lists) /\ Episodes \cap (Items \X Lists) = {}
           /\ {Cap, MaxFile, Retention} \cup Spots \subseteq Nat /\ MaxDay \in Nat \ {0}

VARIABLES
    part,  \* the component that runs
    clock, wallLive, lastLive, until, visit,
    acct, mailed, opened, linkFlow,
    role, act, starts, running, lock, waiting, letters,
    rows, events, day, tx, burst, excess, reached

Wall == INSTANCE LoginWall WITH live <- wallLive
Credential == INSTANCE Credentials WITH Flows <- Requests, flow <- linkFlow
Desk == INSTANCE AdminDesk
Shelves == INSTANCE Library WITH Requests <- Saves

wallVars == <<clock, wallLive, lastLive, until, visit>>
linksVars == <<acct, mailed, opened, linkFlow>>
deskVars == <<role, act, starts, running, lock, waiting, letters>>
libraryVars == <<rows, events, day, tx, burst, excess, reached>>

Parts == {"register", "wall", "links", "desk", "library"}

\* The components that rest stay in one initial state.
AllInit ==
    /\ part \in Parts
    /\ Init
    /\ Wall!Init
    /\ Credential!Init
    /\ part # "links" => \A o \in Owners : acct[o].weak /\ acct[o].verified
    /\ Desk!Init
    /\ Shelves!Init

AllNext ==
    \/ /\ part = "register" /\ Next
       /\ UNCHANGED <<part, wallVars, linksVars, deskVars, libraryVars>>
    \/ /\ part = "wall" /\ Wall!Next
       /\ UNCHANGED <<part, vars, linksVars, deskVars, libraryVars>>
    \/ /\ part = "links" /\ Credential!Next
       /\ UNCHANGED <<part, vars, wallVars, deskVars, libraryVars>>
    \/ /\ part = "desk" /\ Desk!Next
       /\ UNCHANGED <<part, vars, wallVars, linksVars, libraryVars>>
    \/ /\ part = "library" /\ Shelves!Next
       /\ UNCHANGED <<part, vars, wallVars, linksVars, deskVars>>

AllSpec == AllInit /\ [][AllNext]_<<part, vars, wallVars, linksVars, deskVars, libraryVars>>

-----------------------------------------------------------------------------
(* Properties *)

\* Every component's state has its type, in every reachable state.
Typed ==
    /\ part \in Parts
    /\ part = "register" => TypeOK
    /\ part = "wall" => Wall!TypeOK
    /\ part = "links" => Credential!TypeOK
    /\ part = "desk" => Desk!TypeOK
    /\ part = "library" => Shelves!TypeOK

\* What is single use serves one request (consume_invite_token, consume_challenge,
\* consume_email_token): an invite admits one account, a signed challenge and a mailed link one
\* request each, however many present them at once, and a sign-up answered with 409 burns neither.
ServesOne ==
    /\ part = "register" => InviteAdmitsOne /\ ChallengeServesOne /\ FallbackKeepsBoth
    /\ part = "links" => Credential!LinkServesOne

\* Whoever is out stays out: of a deleted account no session, link or pending request is left
\* (delete_account), and a revoked session passes the wall for its TTL at the longest.
StaysOut ==
    /\ part = "links" => Credential!NothingOutlivesAccount
    /\ part = "wall" => Wall!EndedStaysOut

\* No click on Send is refused for a broadcast that is over (admin_routes.py).
FlagFalls == part = "desk" => Desk!FlagFalls

\* Saves that overlap pass the cap by what they write and no further (_enforce_cap), of an episode's
\* seconds watched in a day the highest is kept (record_watch_event), and an import that replaces
\* the watchlists never leaves readers with an emptied library.
LibraryHolds ==
    /\ [](part = "library" => Shelves!QuotaHolds /\ Shelves!WatchedIsKept)
    /\ Shelves!NeverEmptied

Symmetry == Permutations(Requests) \cup Permutations(PublicKeys)
=============================================================================
