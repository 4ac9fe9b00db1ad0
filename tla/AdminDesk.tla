------------------------------ MODULE AdminDesk ------------------------------
(***************************************************************************)
(* What administrators do to other accounts, and the broadcast e-mail      *)
(* (account_engine/admin_routes.py, mailer.py and db.py).                  *)
(*                                                                         *)
(* A request is checked, then acts, with awaits and statements of other    *)
(* requests in between; the broadcast's state and lock are the process's.  *)
(***************************************************************************)
EXTENDS Integers, FiniteSets, Sequences

CONSTANTS
    People,      \* accounts
    Bootstrap,   \* accounts named in ADMIN_EMAILS
    Acts,        \* requests of administrators (bound: how many are made)
    MaxStart,    \* bound on the starts of a replica after the first
    None         \* nobody

Kinds  == {"promote", "demote", "delete", "leave", "mail"}
Stages == {"none", "target", "check", "count", "write", "recipients", "queued", "sending", "done"}

VARIABLES
    role,     \* account -> "gone", "user" or "admin"
    act,      \* request -> kind, who makes it, target, stage, and the target's row as read
    starts,   \* starts of a replica so far
    running,  \* _broadcast_state["running"]
    lock,     \* request whose send holds _broadcast_lock, None when nobody does
    waiting,  \* sends that wait for the lock, first come first served
    letters   \* history: request -> whether its send mailed everybody, some, or nobody yet

vars == <<role, act, starts, running, lock, waiting, letters>>
mailVars == <<running, lock, waiting, letters>>

TypeOK ==
    /\ role \in [People -> {"gone", "user", "admin"}]
    /\ act \in [Acts -> [kind : Kinds \cup {"none"}, by : People \cup {None},
                         target : People \cup {None}, at : Stages,
                         was : {"gone", "user", "admin"}]]
    /\ starts \in 0..MaxStart
    /\ running \in BOOLEAN
    /\ lock \in Acts \cup {None}
    /\ waiting \in Seq(Acts)
    /\ letters \in [Acts -> {"none", "all", "some"}]

Init ==
    /\ role = [p \in People |-> IF p \in Bootstrap THEN "admin" ELSE "user"]
    /\ act = [a \in Acts |-> [kind |-> "none", by |-> None, target |-> None, at |-> "none",
                              was |-> "gone"]]
    /\ starts = 0
    /\ running = FALSE /\ lock = None /\ waiting = <<>>
    /\ letters = [a \in Acts |-> "none"]

Admins == {p \in People : role[p] = "admin"}
At(a, kinds, stage) == act[a].kind \in kinds /\ act[a].at = stage
Goes(a, stage) == act' = [act EXCEPT ![a].at = stage]

-----------------------------------------------------------------------------
(* Accounts.                                                               *)

\* require_admin; a self-service DELETE /account needs no administrator.
Ask(a, k, p, t) ==
    /\ act[a].at = "none"
    /\ IF k = "leave" THEN role[p] # "gone" /\ t = p ELSE role[p] = "admin"
    /\ (k = "mail") = (t = None)
    /\ act' = [act EXCEPT ![a].kind = k, ![a].by = p, ![a].target = t,
                          ![a].at = CASE k \in {"promote", "demote"} -> "target"
                                      [] k = "delete"                -> "check"
                                      [] k = "leave"                 -> "write"
                                      [] OTHER -> IF running THEN "done" ELSE "recipients"]
    /\ UNCHANGED <<role, starts, mailVars>>

\* _target_or_404
Target(a) ==
    /\ At(a, {"promote", "demote"}, "target")
    /\ act' = [act EXCEPT ![a].was = role[act[a].target],
                          ![a].at = IF role[act[a].target] = "gone" THEN "done" ELSE "check"]
    /\ UNCHANGED <<role, starts, mailVars>>

\* _apply_user_update looks at the row as it was read, and count_admins at the table.
CheckUpdate(a) ==
    /\ At(a, {"promote", "demote"}, "check")
    /\ LET wanted == IF act[a].kind = "promote" THEN "admin" ELSE "user"
           refused == act[a].kind = "demote" /\ (act[a].target = act[a].by \/ Cardinality(Admins) <= 1)
       IN  Goes(a, IF act[a].was = wanted \/ refused THEN "done" ELSE "write")
    /\ UNCHANGED <<role, starts, mailVars>>

\* set_admin
SetAdmin(a) ==
    /\ At(a, {"promote", "demote"}, "write")
    /\ role' = [role EXCEPT ![act[a].target] =
                    IF @ = "gone" THEN @ ELSE IF act[a].kind = "promote" THEN "admin" ELSE "user"]
    /\ Goes(a, "done")
    /\ UNCHANGED <<starts, mailVars>>

\* delete_user refuses the caller's own account.
CheckDelete(a) ==
    /\ At(a, {"delete"}, "check")
    /\ Goes(a, IF act[a].target = act[a].by THEN "done" ELSE "write")
    /\ UNCHANGED <<role, starts, mailVars>>

\* delete_account
DeleteAccount(a) ==
    /\ At(a, {"delete", "leave"}, "write")
    /\ role' = [role EXCEPT ![act[a].target] = "gone"]
    /\ Goes(a, "done")
    /\ UNCHANGED <<starts, mailVars>>

\* bootstrap_admins, when a replica starts.
BootstrapAdmins ==
    /\ starts < MaxStart
    /\ starts' = starts + 1
    /\ role' = [p \in People |-> IF p \in Bootstrap /\ role[p] # "gone" THEN "admin" ELSE role[p]]
    /\ UNCHANGED <<act, mailVars>>

\* wipe_demo_data, the nightly reset of a demo.
WipeDemoData ==
    /\ \E p \in People : role[p] = "user"
    /\ role' = [p \in People |-> IF role[p] = "user" THEN "gone" ELSE role[p]]
    /\ UNCHANGED <<act, starts, mailVars>>

-----------------------------------------------------------------------------
(* The broadcast.                                                          *)

\* send_broadcast_email after the await in which the recipients were read: the state is
\* marked and the send spawned.
Broadcast(a) ==
    /\ At(a, {"mail"}, "recipients")
    /\ IF \E p \in People : role[p] # "gone"
       THEN running' = TRUE /\ waiting' = Append(waiting, a) /\ Goes(a, "queued")
       ELSE Goes(a, "done") /\ UNCHANGED <<running, waiting>>
    /\ UNCHANGED <<role, starts, lock, letters>>

\* _run_broadcast enters the lock.
BeginSend ==
    /\ lock = None /\ waiting # <<>>
    /\ lock' = Head(waiting) /\ waiting' = Tail(waiting)
    /\ Goes(Head(waiting), "sending")
    /\ UNCHANGED <<role, starts, running, letters>>

\* Mutant: only a send that succeeds clears the flag.
EndSendUncaught(outcome) ==
    /\ lock # None
    /\ letters' = [letters EXCEPT ![lock] = outcome]
    /\ running' = (outcome # "all") /\ lock' = None
    /\ Goes(lock, "done")
    /\ UNCHANGED <<role, starts, waiting>>

\* send_broadcast ends, with some messages failed or the connection lost, or with none.
EndSend(outcome) ==
    /\ lock # None
    /\ letters' = [letters EXCEPT ![lock] = outcome]
    /\ running' = FALSE /\ lock' = None
    /\ Goes(lock, "done")
    /\ UNCHANGED <<role, starts, waiting>>

-----------------------------------------------------------------------------
Next ==
    \/ \E a \in Acts, k \in Kinds, p \in People, t \in People \cup {None} : Ask(a, k, p, t)
    \/ \E a \in Acts : \/ Target(a) \/ CheckUpdate(a) \/ SetAdmin(a) \/ CheckDelete(a)
                       \/ DeleteAccount(a) \/ Broadcast(a)
    \/ BootstrapAdmins \/ WipeDemoData
    \/ BeginSend
    \/ \E outcome \in {"all", "some"} : EndSend(outcome)

Spec == Init /\ [][Next]_vars

-----------------------------------------------------------------------------
(* Properties.                                                             *)

\* The flag that refuses further broadcasts never outlives them: it stands only while a send is
\* queued or under way, whatever ends a send and even when two clicks queued two (_run_broadcast).
FlagFalls == running => lock # None \/ waiting # <<>>

\* Demotions never leave the instance without an administrator: "Nobody can revoke their own
\* admin flag or demote the last admin" (_apply_user_update).
LastAdminStays ==
    [][\A p \in People : role[p] = "admin" /\ role'[p] = "user" => Admins' # {}]_vars

\* A click on Send while another broadcast is under way starts none, "so a double click cannot
\* queue a second send behind the lock and email everyone twice" (send_broadcast_email).
NoSecondSend == waiting # <<>> => lock = None /\ Len(waiting) = 1

=============================================================================
