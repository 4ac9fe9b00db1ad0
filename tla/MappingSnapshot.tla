--------------------------- MODULE MappingSnapshot ---------------------------
(***************************************************************************)
(* What metadata_engine/mapping_sync.py promises the readers of the mapping *)
(* tables: they hold one dataset, whole, and a rebuild replaces it by       *)
(* another in a single step together with the etag it is filed under.       *)
(***************************************************************************)
EXTENDS Integers

CONSTANTS
    Versions,  \* datasets upstream publishes, numbered in order; 0 is the empty table
    Guess      \* the etags filed when upstream sent none

VARIABLES
    data,  \* the dataset in the tables
    etag   \* sync_meta

Init == data \in Versions /\ etag \in Versions \cup Guess

\* The dataset was downloaded after its etag was asked for, so it is never the older one.
Replace ==
    /\ data' \in Versions /\ etag' \in Versions \cup Guess
    /\ etag' \in Versions => etag' <= data'

Next == Replace

Spec == Init /\ [][Next]_<<data, etag>>

=============================================================================
