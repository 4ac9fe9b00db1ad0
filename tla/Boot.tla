--------------------------------- MODULE Boot ---------------------------------
(***************************************************************************)
(* Replicas of different images that start, serve and stop over one        *)
(* database: the baseline DDL, the numbered migrations, the workers and    *)
(* the scheduler (startup.py, core/migrations.py, core/db_pool.py).        *)
(*                                                                         *)
(* An image is the text of each migration it ships.  A transaction of DDL  *)
(* takes the advisory lock first and holds it until it ends.               *)
(***************************************************************************)
EXTENDS Integers, FiniteSets, Functions, FiniteSetsExt

CONSTANTS
    Replicas,    \* containers
    Images,      \* images, each a function from the versions it ships to their text
    Bad,         \* versions whose SQL this database refuses
    Stores,      \* how many init_db() a start calls
    Starts,      \* bound on the starts
    Nobody       \* no replica

Versions == UNION {DOMAIN image : image \in Images}
Texts    == UNION {Range(image) : image \in Images}

VARIABLES
    recorded,   \* schema_migrations: version -> text, of the versions that are recorded
    ran,        \* history: version -> how often its SQL was executed and committed
    lock,       \* replica whose transaction holds the advisory lock
    boot,       \* replica -> its process
    starts      \* starts so far

vars == <<recorded, ran, lock, boot, starts>>

Stages == {"down", "init", "migrate", "read", "apply", "admins", "workers", "up",
           "drain", "scheduler", "close"}

\* stage, image, init_db() calls left, what the transaction read and what it added, whether its
\* migrations failed, whether its pool is open, and the background work that uses the pool
Down == [at |-> "down", image |-> <<>>, left |-> 0, already |-> <<>>, added |-> {},
         failed |-> FALSE, pool |-> FALSE, busy |-> {}]

TypeOK ==
    /\ DOMAIN recorded \subseteq Versions /\ Range(recorded) \subseteq Texts
    /\ ran \in [Versions -> 0..Starts]
    /\ lock \in Replicas \cup {Nobody} /\ starts \in 0..Starts
    /\ \A r \in Replicas :
          /\ boot[r].at \in Stages /\ boot[r].image \in Images \cup {<<>>} /\ boot[r].left \in 0..Stores
          /\ DOMAIN boot[r].already \subseteq Versions /\ boot[r].added \subseteq Versions
          /\ boot[r].failed \in BOOLEAN /\ boot[r].pool \in BOOLEAN
          /\ boot[r].busy \subseteq {"worker", "job"}

Init ==
    /\ recorded = <<>> /\ ran = [v \in Versions |-> 0]
    /\ lock = Nobody /\ starts = 0
    /\ boot = [r \in Replicas |-> Down]

Goes(r, stage) == boot' = [boot EXCEPT ![r].at = stage]

-----------------------------------------------------------------------------
(* The schema.                                                             *)

\* start, up to the schema; the first store opens the pool.
Start(r, image) ==
    /\ boot[r].at = "down" /\ starts < Starts
    /\ starts' = starts + 1
    /\ boot' = [boot EXCEPT ![r] = [Down EXCEPT !.at = "init", !.image = image, !.left = Stores,
                                                !.pool = TRUE]]
    /\ UNCHANGED <<recorded, ran, lock>>

\* lock_schema_init: an init_db() or apply_pending takes the lock when it is free.
TakeLock(r) ==
    /\ boot[r].at \in {"init", "migrate"} /\ lock = Nobody
    /\ lock' = r
    /\ IF boot[r].at = "migrate" THEN Goes(r, "read") ELSE UNCHANGED boot
    /\ UNCHANGED <<recorded, ran, starts>>

\* init_db of one store, which commits; a second one makes no change.
InitDb(r) ==
    /\ boot[r].at = "init" /\ lock = r
    /\ lock' = Nobody
    /\ boot' = [boot EXCEPT ![r].left = @ - 1, ![r].at = IF boot[r].left = 1 THEN "migrate" ELSE "init"]
    /\ UNCHANGED <<recorded, ran, starts>>

\* _ensure_table and _applied_rows
ReadApplied(r) ==
    /\ boot[r].at = "read"
    /\ boot' = [boot EXCEPT ![r].already = recorded, ![r].at = "apply"]
    /\ UNCHANGED <<recorded, ran, lock, starts>>

Pending(r) == DOMAIN boot[r].image \ (DOMAIN boot[r].already \cup boot[r].added)

\* One migration of the batch, in the order of the versions: its SQL and its row.  Drift of a
\* migration that is recorded under another text is only logged.
ApplyOne(r) ==
    /\ boot[r].at = "apply" /\ Pending(r) # {}
    /\ LET v == Min(Pending(r))
       IN  /\ v \notin Bad /\ v \notin DOMAIN recorded
           /\ boot' = [boot EXCEPT ![r].added = @ \cup {v}]
    /\ UNCHANGED <<recorded, ran, lock, starts>>

\* Mutant: a failing migration keeps what the batch did before it.
ApplyFailsKeeping(r) ==
    /\ boot[r].at = "apply"
    /\ boot' = [boot EXCEPT ![r].at = "admins", ![r].failed = TRUE, ![r].added = {}]
    /\ ran' = [v \in Versions |-> IF v \in boot[r].added THEN ran[v] + 1 ELSE ran[v]]
    /\ lock' = Nobody
    /\ UNCHANGED <<recorded, starts>>

\* Its SQL fails, its row is there already, or the connection is lost: the batch is rolled back,
\* the failure is logged, and the start goes on.
ApplyFails(r) ==
    /\ boot[r].at = "apply"
    /\ boot' = [boot EXCEPT ![r].at = "admins", ![r].failed = TRUE, ![r].added = {}]
    /\ lock' = Nobody
    /\ UNCHANGED <<recorded, ran, starts>>

CommitBatch(r) ==
    /\ boot[r].at = "apply" /\ Pending(r) = {}
    /\ recorded' = [v \in DOMAIN recorded \cup boot[r].added |->
                       IF v \in DOMAIN recorded THEN recorded[v] ELSE boot[r].image[v]]
    /\ ran' = [v \in Versions |-> IF v \in boot[r].added THEN ran[v] + 1 ELSE ran[v]]
    /\ lock' = Nobody
    /\ boot' = [boot EXCEPT ![r].at = "admins", ![r].added = {}]
    /\ UNCHANGED starts

-----------------------------------------------------------------------------
(* Serving and stopping.                                                   *)

\* _bootstrap_admins and the scheduler, whose jobs may run from now on, then the workers.
StartScheduler(r) ==
    /\ boot[r].at = "admins"
    /\ Goes(r, "workers")
    /\ UNCHANGED <<recorded, ran, lock, starts>>

StartWorkers(r) ==
    /\ boot[r].at = "workers"
    /\ boot' = [boot EXCEPT ![r].at = "up", ![r].busy = @ \cup {"worker"}]
    /\ UNCHANGED <<recorded, ran, lock, starts>>

\* The scheduler starts a job and the job ends, in threads of its own.
RunJob(r) ==
    /\ boot[r].at \in {"workers", "up", "drain", "scheduler"} /\ "job" \notin boot[r].busy
    /\ boot' = [boot EXCEPT ![r].busy = @ \cup {"job"}]
    /\ UNCHANGED <<recorded, ran, lock, starts>>

EndJob(r) ==
    /\ "job" \in boot[r].busy
    /\ boot' = [boot EXCEPT ![r].busy = @ \ {"job"}]
    /\ UNCHANGED <<recorded, ran, lock, starts>>

\* shutdown: the workers drain, ...
Shutdown(r) ==
    /\ boot[r].at = "up"
    /\ Goes(r, "drain")
    /\ UNCHANGED <<recorded, ran, lock, starts>>

Drained(r) ==
    /\ boot[r].at = "drain"
    /\ boot' = [boot EXCEPT ![r].at = "scheduler", ![r].busy = @ \ {"worker"}]
    /\ UNCHANGED <<recorded, ran, lock, starts>>

\* Mutant: the scheduler is not waited for.
StopSchedulerAtOnce(r) ==
    /\ boot[r].at = "scheduler"
    /\ Goes(r, "close")
    /\ UNCHANGED <<recorded, ran, lock, starts>>

\* ... the scheduler waits for the job it runs, ...
StopScheduler(r) ==
    /\ boot[r].at = "scheduler" /\ "job" \notin boot[r].busy
    /\ Goes(r, "close")
    /\ UNCHANGED <<recorded, ran, lock, starts>>

\* ... and the pool is closed before the process ends.
ClosePool(r) ==
    /\ boot[r].at = "close" /\ boot[r].pool
    /\ boot' = [boot EXCEPT ![r].pool = FALSE]
    /\ UNCHANGED <<recorded, ran, lock, starts>>

\* The process ends, or dies wherever it is; an init_db() that raises ends the start too.
Exit(r) ==
    /\ boot[r].at # "down"
    /\ boot' = [boot EXCEPT ![r] = Down]
    /\ lock' = IF lock = r THEN Nobody ELSE lock
    /\ UNCHANGED <<recorded, ran, starts>>

Next ==
    \/ \E r \in Replicas :
          \/ \E image \in Images : Start(r, image)
          \/ TakeLock(r) \/ InitDb(r) \/ ReadApplied(r) \/ ApplyOne(r) \/ ApplyFails(r) \/ CommitBatch(r)
          \/ StartScheduler(r) \/ StartWorkers(r) \/ RunJob(r) \/ EndJob(r)
          \/ Shutdown(r) \/ Drained(r) \/ StopScheduler(r) \/ ClosePool(r) \/ Exit(r)

Spec == Init /\ [][Next]_vars

-----------------------------------------------------------------------------
(* Properties.                                                             *)

\* "Read what is applied, apply the rest" is atomic against other booting replicas, and a failure
\* rolls the whole batch back: a migration was executed once if it is recorded and never if it is
\* not, no start ever meets a row that another one wrote meanwhile, and what serves without a
\* failed migration has every version of its image.
SchemaIsWhole ==
    /\ \A v \in Versions : ran[v] = IF v \in DOMAIN recorded THEN 1 ELSE 0
    /\ \A r \in Replicas :
          /\ boot[r].at = "apply" => Pending(r) \cap DOMAIN recorded = {}
          /\ boot[r].at \in {"workers", "up"} /\ ~boot[r].failed =>
                DOMAIN boot[r].image \subseteq DOMAIN recorded

\* The pool of a process that stops is closed only when no job and no worker uses it any more.
PoolOutlivesJobs ==
    \A r \in Replicas : boot[r].busy # {} => boot[r].pool

=============================================================================
