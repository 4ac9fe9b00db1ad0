---------------------------- MODULE WatchContract ----------------------------
(***************************************************************************)
(* The /watch protocol of core/contracts.py, as a client of one request     *)
(* sees it: one meta line, then either one unaired line or any number of    *)
(* stream lines, then a done line that says how many streams there were.    *)
(* A response may stop short at any point, when either side gives up.       *)
(***************************************************************************)
EXTENDS Naturals, Sequences

CONSTANT Urls  \* what a stream line carries

VARIABLE lines

Meta      == [type |-> "meta"]
Unaired   == [type |-> "unaired"]
Stream(u) == [type |-> "stream", url |-> u]
Done(n)   == [type |-> "done", streams |-> n]

Line == {Meta, Unaired} \cup [type : {"stream"}, url : Urls]
        \cup [type : {"done"}, streams : Nat]

Said(l) == \E i \in DOMAIN lines : lines[i] = l

Finished == \E i \in DOMAIN lines : lines[i].type = "done"

Say(l) == lines' = Append(lines, l)

Init == lines = <<>>

SayMeta == lines = <<>> /\ Say(Meta)

SayUnaired == lines = <<Meta>> /\ Say(Unaired)

SayStream(u) ==
    /\ Said(Meta) /\ ~Said(Unaired) /\ ~Finished
    /\ ~Said(Stream(u))
    /\ Say(Stream(u))

\* Everything but the meta and the unaired line is a stream.
SayDone ==
    /\ Said(Meta) /\ ~Finished
    /\ Say(Done(IF Said(Unaired) THEN 0 ELSE Len(lines) - 1))

Next == SayMeta \/ SayUnaired \/ SayDone \/ \E u \in Urls : SayStream(u)

Spec == Init /\ [][Next]_lines

=============================================================================
