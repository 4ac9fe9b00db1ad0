----------------------------- MODULE WatchProofs -----------------------------
(***************************************************************************)
(* Proofs about one /watch request: what Watch promises holds for every set *)
(* of scrapers, embeds and streams.                                         *)
(***************************************************************************)
EXTENDS Watch, TLAPS

USE ScraperAssumption, AnswerAssumption

-----------------------------------------------------------------------------
(* Types.                                                                  *)

LEMMA Lines ==
    /\ Contract!Meta \in Contract!Line /\ Contract!Unaired \in Contract!Line
    /\ \A u \in Urls : Contract!Stream(u) \in Contract!Line
    /\ \A n \in Nat : Contract!Done(n) \in Contract!Line
  BY DEF Contract!Meta, Contract!Unaired, Contract!Stream, Contract!Done, Contract!Line

\* No task exists before fan_out is first pulled.
Unborn == fan = "unborn" => cancelled = {} /\ \A s \in Scrapers : at[s] = "unborn"

Base == TypeOK /\ Unborn

LEMMA BaseInit == Init => Base
  BY Lines DEF Init, Base, Unborn, TypeOK, Nothing

LEMMA TypeWork == ASSUME TypeOK, NEW s \in Scrapers, Work(s) PROVE TypeOK'
<1>1. CASE Scraped(s)
  <2>1. PICK list \in EmbedLists : /\ todo' = [todo EXCEPT ![s] = list]
                                   /\ offered' = offered \cup Elements(list)
    BY <1>1 DEF Scraped
  <2>2. list \in Seq(Embeds) /\ Elements(list) \subseteq Embeds
    BY DEF Elements
  <2> QED BY <1>1, <2>1, <2>2 DEF TypeOK, Scraped, reqVars, fanVars
<1>2. CASE NextEmbed(s)
  <2> DEFINE e == Head(todo[s])
  <2>1. e \in Embeds /\ Tail(todo[s]) \in Seq(Embeds)
    BY <1>2 DEF TypeOK, NextEmbed
  <2>2. todo' \in [Scrapers -> Seq(Embeds)]
    BY <1>2, <2>1 DEF TypeOK, NextEmbed
  <2>3. CASE e \in seenEmbeds
    BY <1>2, <2>2, <2>3 DEF TypeOK, NextEmbed, reqVars, fanVars
  <2>4. CASE e \notin seenEmbeds
    <3> HIDE DEF e
    <3>1. /\ embed' = [embed EXCEPT ![s] = e] /\ at' = [at EXCEPT ![s] = "resolve"]
          /\ seenEmbeds' = seenEmbeds \cup {e} /\ at[s] = "put"
          /\ UNCHANGED <<reqVars, fanVars, queue, got, died, seenUrls, offered, tried, found>>
      BY <1>2, <2>4 DEF NextEmbed, ClaimEmbed, e
    <3>2. e # NoMore
      BY <2>1, AnswerAssumption
    <3> QED BY <2>1, <2>2, <3>1, <3>2 DEF TypeOK, reqVars, fanVars
  <2> QED BY <2>3, <2>4
<1>3. CASE Resolved(s)
  <2>1. PICK list \in UrlLists : /\ got' = [got EXCEPT ![s] = list]
                                 /\ found' = found \cup Elements(list)
    BY <1>3 DEF Resolved
  <2>2. list \in Seq(Urls) /\ Elements(list) \subseteq Urls
    BY DEF Elements
  <2> QED BY <1>3, <2>1, <2>2 DEF TypeOK, Resolved, reqVars, fanVars, Nothing
<1>4. CASE PutStream(s)
  <2> DEFINE u == Head(got[s])
  <2>1. u \in Urls /\ Tail(got[s]) \in Seq(Urls)
    BY <1>4 DEF TypeOK, PutStream
  <2>2. queue' \in Seq(Urls \cup Nothing) /\ seenUrls' \subseteq Urls
    BY <1>4, <2>1 DEF TypeOK, PutStream, Put
  <2> QED BY <1>4, <2>1, <2>2 DEF TypeOK, PutStream, reqVars, fanVars
<1>5. CASE WorkerEnds(s)
  BY <1>5 DEF TypeOK, WorkerEnds, reqVars, fanVars
<1>6. CASE WorkerDies(s)
  BY <1>6 DEF TypeOK, WorkerDies, reqVars, fanVars, Nothing
<1>7. CASE WorkerCancelled(s)
  BY <1>7 DEF TypeOK, WorkerCancelled, reqVars, fanVars, Nothing
<1> QED BY <1>1, <1>2, <1>3, <1>4, <1>5, <1>6, <1>7 DEF Work

LEMMA TypeEvents == ASSUME Base, Events PROVE TypeOK'
<1> USE DEF Goto, Yield, Record, Base
<1>1. CASE YieldMeta
  BY <1>1, Lines DEF TypeOK, YieldMeta, workVars, fanVars, Nothing
<1>2. CASE AskAirDate
  BY <1>2 DEF TypeOK, AskAirDate, workVars, fanVars
<1>3. CASE YieldUnaired
  BY <1>3, Lines DEF TypeOK, YieldUnaired, workVars, fanVars, Outcomes
<1>4. CASE YieldNothing
  BY <1>4, Lines DEF TypeOK, YieldNothing, workVars, fanVars
<1>5. CASE AddTitles
  BY <1>5 DEF TypeOK, AddTitles, workVars, fanVars
<1>6. CASE Open
  BY <1>6 DEF TypeOK, Unborn, Open
<1>7. CASE GetStream
  <2>1. Head(queue) \in Urls /\ Tail(queue) \in Seq(Urls \cup Nothing)
    BY <1>7 DEF TypeOK, GetStream, Sentinel, Nothing
  <2> QED BY <1>7, <2>1 DEF TypeOK, GetStream, workVars, fanVars
<1>8. CASE YieldStream
  <2>1. current \in Urls
    BY <1>8 DEF TypeOK, YieldStream
  <2> QED BY <1>8, <2>1, Lines DEF TypeOK, YieldStream, workVars, fanVars, Nothing
<1>9. CASE Pull
  BY <1>9 DEF TypeOK, Pull, workVars, fanVars
<1>10. CASE YieldDone
  <2>1. Tail(queue) \in Seq(Urls \cup Nothing)
    BY <1>10 DEF TypeOK, YieldDone, Sentinel
  <2>2. Contract!Done(count) \in Contract!Line
    BY Lines DEF TypeOK
  <2>3. lines' \in Seq(Contract!Line) /\ recorded' \in Seq(Outcomes)
    BY <1>10, <2>2 DEF TypeOK, YieldDone, Outcomes
  <2> QED BY <1>10, <2>1, <2>3
          DEF TypeOK, YieldDone, CancelAll, FinisherCancelled, workVars
<1>11. CASE Return
  BY <1>11 DEF TypeOK, Return, workVars, fanVars
<1> QED BY <1>1, <1>2, <1>3, <1>4, <1>5, <1>6, <1>7, <1>8, <1>9, <1>10, <1>11 DEF Events

LEMMA BaseNext == Base /\ [Next]_vars => Base'
<1> SUFFICES ASSUME Base, [Next]_vars PROVE Base'
  OBVIOUS
<1> USE DEF Base
<1>1. ASSUME Leave PROVE TypeOK'
  <2>1. recorded' \in Seq(Outcomes)
    <3>1. recorded' \in {recorded, Append(recorded, "abandoned")}
      BY <1>1 DEF Leave, Abandoned, Record
    <3>2. recorded \in Seq(Outcomes) /\ "abandoned" \in Outcomes
      BY DEF TypeOK, Outcomes
    <3> QED BY <3>1, <3>2
  <2>2. fan' \in {"unborn", "open", "closed"} /\ cancelled' \subseteq Scrapers
        /\ finisher' \in {"waiting", "done", "cancelled"}
    BY <1>1 DEF TypeOK, Leave, CancelAll, FinisherCancelled, fanVars
  <2> QED BY <1>1, <2>1, <2>2 DEF TypeOK, Leave, workVars, Nothing
<1>2. ASSUME CloseLeft PROVE TypeOK'
  BY <1>2 DEF TypeOK, CloseLeft, CancelAll, FinisherCancelled, reqVars, workVars
<1>3. ASSUME Finish PROVE TypeOK'
  BY <1>3 DEF TypeOK, Finish, reqVars, workVars, Nothing
<1>4. ASSUME UNCHANGED vars PROVE TypeOK'
  BY <1>4 DEF TypeOK, vars, reqVars, workVars, fanVars
<1>5. TypeOK'
  BY <1>1, <1>2, <1>3, <1>4, TypeWork, TypeEvents DEF Next
<1>6. Unborn'
  <2>1. CASE \E s \in Scrapers : Work(s)
    <3>1. PICK s \in Scrapers : Work(s)
      BY <2>1
    <3>2. UNCHANGED fan /\ (at[s] # "unborn" \/ s \in cancelled)
      BY <3>1 DEF Work, Scraped, NextEmbed, Resolved, PutStream, WorkerEnds, WorkerDies,
                  WorkerCancelled, fanVars
    <3>3. fan # "unborn"
      BY <3>2 DEF Unborn
    <3> QED BY <3>2, <3>3 DEF Unborn
  <2>2. CASE Events
    BY <2>2 DEF Unborn, Events, YieldMeta, AskAirDate, YieldUnaired, YieldNothing, AddTitles,
                Open, GetStream, YieldStream, Pull, YieldDone, Return, workVars, fanVars
  <2>3. CASE Leave \/ CloseLeft \/ Finish \/ UNCHANGED vars
    BY <2>3 DEF Unborn, Leave, CloseLeft, Finish, CancelAll, vars, workVars, fanVars
  <2> QED BY <2>1, <2>2, <2>3 DEF Next
<1> QED BY <1>5, <1>6

\* Every variable keeps its type, whatever scrapers and resolvers answer and however the
\* request's tasks interleave (watch_events and fan_out).
THEOREM Typed == Spec => []TypeOK
  <1>1. Spec => []Base
  BY BaseInit, BaseNext, PTL DEF Spec
<1> QED BY <1>1, PTL DEF Base

-----------------------------------------------------------------------------
(* A closed fan-out.                                                       *)

Closed == fan = "closed" => cancelled = Scrapers

LEMMA ClosedNext == Closed /\ [Next]_vars => Closed'
<1> SUFFICES ASSUME Closed, [Next]_vars PROVE Closed'
  OBVIOUS
<1>1. CASE \E s \in Scrapers : Work(s)
  BY <1>1 DEF Closed, Work, Scraped, NextEmbed, Resolved, PutStream, WorkerEnds, WorkerDies,
              WorkerCancelled, fanVars
<1>2. CASE Events
  BY <1>2 DEF Closed, Events, YieldMeta, AskAirDate, YieldUnaired, YieldNothing, AddTitles,
              Open, GetStream, YieldStream, Pull, YieldDone, CancelAll, Return, fanVars
<1>3. CASE Leave \/ CloseLeft \/ Finish \/ UNCHANGED vars
  BY <1>3 DEF Closed, Leave, CloseLeft, Finish, CancelAll, vars, fanVars
<1> QED BY <1>1, <1>2, <1>3 DEF Next

LEMMA QuietStep == Closed /\ fan = "closed" /\ [Next]_vars
                       => UNCHANGED <<offered, seenEmbeds, tried, seenUrls>>
<1> SUFFICES ASSUME cancelled = Scrapers, fan = "closed", [Next]_vars
             PROVE  UNCHANGED <<offered, seenEmbeds, tried, seenUrls>>
  BY DEF Closed
<1>1. CASE \E s \in Scrapers : Work(s)
  BY <1>1 DEF Work, Scraped, NextEmbed, Resolved, PutStream, WorkerEnds, WorkerDies,
              WorkerCancelled
<1>2. CASE Events
  BY <1>2 DEF Events, YieldMeta, AskAirDate, YieldUnaired, YieldNothing, AddTitles, Open,
              GetStream, YieldStream, Pull, YieldDone, Return, workVars
<1>3. CASE Leave \/ CloseLeft \/ Finish \/ UNCHANGED vars
  BY <1>3 DEF Leave, CloseLeft, Finish, vars, workVars
<1> QED BY <1>1, <1>2, <1>3 DEF Next

\* "Closing the iterator cancels the remaining scrapers" (fan_out): every task has been
\* told to stop, and a task that has been takes up no answer and asks no resolver.
THEOREM ClosedStaysQuiet == Spec => ClosedIsQuiet
<1>1. Init => Closed
  BY DEF Init, Closed
<1>2. Closed /\ [Next]_vars
          => [fan = "closed" => UNCHANGED <<offered, seenEmbeds, tried, seenUrls>>]_vars
  BY QuietStep
<1> QED BY <1>1, <1>2, ClosedNext, PTL DEF Spec, ClosedIsQuiet

-----------------------------------------------------------------------------
(* Embeds.                                                                 *)

\* An embed is in the hands of the one worker that claimed it, or has been tried.
Claimed ==
    /\ tried \subseteq seenEmbeds
    /\ \A s \in Scrapers : at[s] = "resolve" => embed[s] \in seenEmbeds
    /\ EmbedResolvedOnce

LEMMA ClaimedWork ==
    ASSUME Base, Claimed, NEW s \in Scrapers, Work(s) PROVE Claimed'
<1> USE DEF Claimed, EmbedResolvedOnce, Base, TypeOK, Nothing
<1>1. CASE NextEmbed(s)
  <2> DEFINE e == Head(todo[s])
  <2>1. e \in Embeds
    BY <1>1 DEF NextEmbed
  <2>2. CASE e \in seenEmbeds
    BY <1>1, <2>2 DEF NextEmbed
  <2>3. CASE e \notin seenEmbeds
    <3>1. /\ seenEmbeds' = seenEmbeds \cup {e} /\ tried' = tried
          /\ embed' = [embed EXCEPT ![s] = e] /\ at' = [at EXCEPT ![s] = "resolve"]
      BY <1>1, <2>3 DEF NextEmbed, ClaimEmbed
    <3>2. \A o \in Scrapers : embed[o] # e
      BY <2>1, <2>3
    <3> QED BY <2>1, <2>3, <3>1, <3>2
  <2> QED BY <2>2, <2>3
<1>2. CASE Resolved(s)
  BY <1>2 DEF Resolved
<1>3. CASE Scraped(s) \/ PutStream(s)
  BY <1>3 DEF Scraped, PutStream
<1>4. CASE WorkerEnds(s)
  BY <1>4 DEF WorkerEnds
<1>5. CASE WorkerDies(s) \/ WorkerCancelled(s)
  <2>1. /\ at' = [at EXCEPT ![s] = "ended"] /\ embed' = [embed EXCEPT ![s] = NoMore]
        /\ UNCHANGED <<seenEmbeds, tried>>
    BY <1>5 DEF WorkerDies, WorkerCancelled
  <2>2. \A o \in Scrapers : at'[o] = "resolve" => o # s /\ at[o] = "resolve" /\ embed'[o] = embed[o]
    BY <2>1
  <2> QED BY <2>1, <2>2
<1> QED BY <1>1, <1>2, <1>3, <1>4, <1>5 DEF Work

LEMMA ClaimedNext == Base /\ Claimed /\ [Next]_vars => Claimed'
<1> SUFFICES ASSUME Base, Claimed, [Next]_vars PROVE Claimed'
  OBVIOUS
<1>1. CASE Open
  BY <1>1 DEF Open, Claimed, EmbedResolvedOnce
<1>2. CASE Events /\ ~Open
  BY <1>2 DEF Claimed, EmbedResolvedOnce, Events, YieldMeta, AskAirDate, YieldUnaired,
              YieldNothing, AddTitles, GetStream, YieldStream, Pull, YieldDone, Return, workVars
<1>3. CASE Leave \/ CloseLeft \/ Finish \/ UNCHANGED vars
  BY <1>3 DEF Claimed, EmbedResolvedOnce, Leave, CloseLeft, Finish, vars, workVars
<1> QED BY <1>1, <1>2, <1>3, ClaimedWork DEF Next

\* No embed is resolved twice in one request, however many scrapers find it: the test and
\* the claim (seen_embeds in fan_out's _work) are one step of the event loop.
THEOREM ResolvedOnce == Spec => []EmbedResolvedOnce
<1>1. Init => Claimed
  BY DEF Init, Claimed, EmbedResolvedOnce
<1>2. Spec => []Base
  BY BaseInit, BaseNext, PTL DEF Spec
<1>3. Spec => []Claimed
  BY <1>1, <1>2, ClaimedNext, PTL DEF Spec
<1> QED BY <1>3, PTL DEF Claimed

-----------------------------------------------------------------------------
(* The protocol.                                                           *)

LineDefs ==
    /\ Contract!Meta.type = "meta" /\ Contract!Unaired.type = "unaired"
    /\ \A u : Contract!Stream(u).type = "stream" /\ Contract!Stream(u).url = u
    /\ \A n : Contract!Done(n).type = "done"

LEMMA LineTypes == LineDefs
  BY DEF LineDefs, Contract!Meta, Contract!Unaired, Contract!Stream, Contract!Done

LEMMA AppendAt ==
    ASSUME NEW S, NEW q \in Seq(S), NEW x
    PROVE  /\ Len(Append(q, x)) = Len(q) + 1
           /\ \A i \in 1..Len(q) : Append(q, x)[i] = q[i]
           /\ Append(q, x)[Len(q) + 1] = x
  OBVIOUS

\* What has been said when watch_events is at each of its steps.
Script ==
    /\ phase = "context" => lines = <<>>
    /\ phase \in {"meta", "airdate", "titles"} => lines = <<Contract!Meta>>
    /\ phase = "unaired" =>
           Len(lines) = 2 /\ lines[1] = Contract!Meta /\ lines[2] = Contract!Unaired
    /\ phase \in {"context", "meta", "airdate", "titles", "unaired"} => count = 0
    /\ phase \in {"wait", "ticket", "sent"} =>
           /\ Len(lines) = count + 1 /\ lines[1] = Contract!Meta
           /\ \A i \in 2..Len(lines) : lines[i].type = "stream"

Unsaid(u) == \A i \in DOMAIN lines : lines[i] # Contract!Stream(u)

Queued == {i \in DOMAIN queue : queue[i] \in Urls}

\* A stream is on its way to the viewer at most once: in the queue, in hand, or said.
Single ==
    /\ \A u \in Urls : Unsaid(u) \/ u \in seenUrls
    /\ \A i \in Queued : queue[i] \in seenUrls /\ Unsaid(queue[i]) /\ queue[i] # current
    /\ \A i, j \in Queued : queue[i] = queue[j] => i = j
    /\ current \in Urls => current \in seenUrls /\ Unsaid(current)

Protocol == Script /\ Single

LEMMA ProtocolInit == Init => Protocol
  BY DEF Init, Protocol, Script, Single, Unsaid, Queued

\* Only PutStream changes the queue among a worker's steps, and none speaks.
LEMMA ProtocolWork ==
    ASSUME Base, Protocol, NEW s \in Scrapers, Work(s) PROVE Protocol'
<1>1. CASE PutStream(s)
  <2> DEFINE u == Head(got[s])
  <2>1. u \in Urls
    BY <1>1 DEF PutStream, Base, TypeOK
  <2>2. CASE u \in seenUrls
    BY <1>1, <2>2 DEF PutStream, Put, Protocol, Script, Single, Unsaid, Queued, reqVars
  <2>3. CASE u \notin seenUrls
    <3>1. queue' = Append(queue, u) /\ seenUrls' = seenUrls \cup {u} /\ UNCHANGED reqVars
      BY <1>1, <2>3 DEF PutStream, Put
    <3>2. queue \in Seq(Urls \cup Nothing)
      BY DEF Base, TypeOK
    <3>3. /\ Len(queue') = Len(queue) + 1 /\ DOMAIN queue' = 1..(Len(queue) + 1)
          /\ \A i \in 1..Len(queue) : queue'[i] = queue[i]
          /\ queue'[Len(queue) + 1] = u /\ Len(queue) \in Nat /\ DOMAIN queue = 1..Len(queue)
      BY <3>1, <3>2
    <3>4. Unsaid(u) /\ u # current /\ \A i \in Queued : queue[i] # u
      BY <2>1, <2>3 DEF Protocol, Single
    <3>5. Script'
      BY <3>1 DEF Protocol, Script, reqVars
    <3>6. Single'
      BY <2>1, <3>1, <3>3, <3>4 DEF Protocol, Single, Unsaid, Queued, reqVars
    <3> QED BY <3>5, <3>6 DEF Protocol
  <2> QED BY <2>2, <2>3
<1>2. CASE Scraped(s) \/ NextEmbed(s) \/ Resolved(s) \/ WorkerEnds(s) \/ WorkerDies(s)
           \/ WorkerCancelled(s)
  BY <1>2 DEF Scraped, NextEmbed, Resolved, WorkerEnds, WorkerDies, WorkerCancelled,
              Protocol, Script, Single, Unsaid, Queued, reqVars
<1> QED BY <1>1, <1>2 DEF Work

\* The queue without its head: fewer streams are on their way.
LEMMA Popped ==
    ASSUME Base, Protocol, queue # <<>>, queue' = Tail(queue), UNCHANGED seenUrls
    PROVE  /\ \A i \in Queued' : i \in Nat /\ i + 1 \in Queued /\ queue'[i] = queue[i + 1]
           /\ \A i \in Queued' : queue'[i] # Head(queue)
<1>1. queue \in Seq(Urls \cup Nothing)
  BY DEF Base, TypeOK
<1>2. /\ Len(queue) \in Nat \ {0} /\ DOMAIN queue = 1..Len(queue)
      /\ DOMAIN queue' = 1..(Len(queue) - 1) /\ Head(queue) = queue[1]
      /\ \A i \in 1..(Len(queue) - 1) : queue'[i] = queue[i + 1]
  BY <1>1
<1> QED BY <1>2 DEF Protocol, Single, Queued

LEMMA ProtocolEvents == ASSUME Base, Protocol, Events PROVE Protocol'
<1> USE DEF Goto, Yield
<1>1. CASE YieldMeta
  BY <1>1, LineTypes DEF YieldMeta, Protocol, Script, Single, Unsaid, Queued, LineDefs, Base,
                         TypeOK, workVars, fanVars
<1>2. CASE AskAirDate \/ AddTitles \/ Open \/ Pull \/ Return
  <2>1. UNCHANGED <<lines, count, seenUrls, queue, current>>
    BY <1>2 DEF AskAirDate, AddTitles, Open, Pull, Return, workVars
  <2>2. CASE Open
    <3>1. lines = <<Contract!Meta>> /\ count = 0 /\ phase' = "wait"
      BY <2>2 DEF Open, Protocol, Script
    <3>2. Len(lines) = 1 /\ lines[1] = Contract!Meta
      BY <3>1
    <3> QED BY <2>1, <3>1, <3>2 DEF Protocol, Script, Single, Unsaid, Queued
  <2>3. CASE AskAirDate \/ AddTitles \/ Pull \/ Return
    BY <2>1, <2>3 DEF AskAirDate, AddTitles, Pull, Return, Protocol, Script, Single, Unsaid,
                      Queued
  <2> QED BY <1>2, <2>2, <2>3
<1>3. CASE YieldUnaired \/ YieldNothing
  <2>1. /\ phase' \in {"unaired", "done"} /\ count' = count
        /\ phase' = "unaired" => /\ phase = "airdate"
                                 /\ lines' = Append(lines, Contract!Unaired)
        /\ UNCHANGED <<seenUrls, queue, current>>
        /\ \E l : lines' = Append(lines, l) /\ l.type # "stream"
    BY <1>3, LineTypes DEF YieldUnaired, YieldNothing, LineDefs, workVars
  <2>0. count = 0
    BY <1>3 DEF YieldUnaired, YieldNothing, Protocol, Script
  <2>2. Script'
    <3>1. phase = "airdate" => lines = <<Contract!Meta>> /\ count = 0
      BY DEF Protocol, Script
    <3>2. lines \in Seq(Contract!Line)
      BY DEF Base, TypeOK
    <3>3. phase = "airdate" => Len(lines) = 1 /\ lines[1] = Contract!Meta
      BY <3>1
    <3>4. CASE phase' = "unaired"
      <4>1. lines' = Append(lines, Contract!Unaired) /\ Len(lines) = 1
            /\ lines[1] = Contract!Meta
        BY <2>1, <3>3, <3>4
      <4>2. /\ Len(lines') = Len(lines) + 1
            /\ \A i \in 1..Len(lines) : lines'[i] = lines[i]
            /\ lines'[Len(lines) + 1] = Contract!Unaired
        <5>1. lines' = Append(lines, Contract!Unaired)
          BY <4>1
        <5> QED BY <3>2, <5>1, AppendAt
      <4>3. Len(lines') = 2 /\ lines'[1] = Contract!Meta /\ lines'[2] = Contract!Unaired
        BY <4>1, <4>2
      <4> QED BY <2>0, <2>1, <3>4, <4>3 DEF Script
    <3> QED BY <2>0, <2>1, <3>4 DEF Script
  <2>3. ASSUME NEW u PROVE Unsaid(u) => Unsaid(u)'
    <3>1. lines \in Seq(Contract!Line)
      BY DEF Base, TypeOK
    <3>2. PICK l : lines' = Append(lines, l) /\ l.type # "stream"
      BY <2>1
    <3>3. /\ Len(lines) \in Nat /\ DOMAIN lines = 1..Len(lines)
          /\ DOMAIN lines' = 1..(Len(lines) + 1)
          /\ \A i \in 1..Len(lines) : lines'[i] = lines[i]
          /\ lines'[Len(lines) + 1] = l
      BY <3>1, <3>2
    <3>4. l # Contract!Stream(u)
      BY <3>2, LineTypes DEF LineDefs
    <3> QED BY <3>3, <3>4 DEF Unsaid
  <2>4. Single'
    BY <2>1, <2>3 DEF Protocol, Single, Queued
  <2> QED BY <2>2, <2>4 DEF Protocol
<1>4. CASE GetStream
  <2>1. queue # <<>> /\ queue' = Tail(queue) /\ current' = Head(queue)
        /\ UNCHANGED <<lines, seenUrls, count>> /\ phase = "wait" /\ phase' = "ticket"
        /\ Head(queue) # NoMore
    BY <1>4 DEF GetStream, Sentinel, workVars
  <2>2. 1 \in Queued /\ Head(queue) = queue[1]
    BY <2>1 DEF Queued, Base, TypeOK, Nothing
  <2>3. Script'
    BY <2>1 DEF Protocol, Script
  <2>4. /\ \A i \in Queued' : i \in Nat /\ i + 1 \in Queued /\ queue'[i] = queue[i + 1]
        /\ \A i \in Queued' : queue'[i] # Head(queue)
    BY <2>1, Popped
  <2>6. \A i, j \in Queued' : queue'[i] = queue'[j] => i = j
    BY <2>4 DEF Protocol, Single
  <2>7. ASSUME NEW u PROVE Unsaid(u) => Unsaid(u)'
    BY <2>1 DEF Unsaid
  <2>5. Single'
    BY <2>1, <2>2, <2>4, <2>6, <2>7 DEF Protocol, Single
  <2> QED BY <2>3, <2>5 DEF Protocol
<1>5. CASE YieldStream
  <2>1. /\ phase = "ticket" /\ phase' = "sent" /\ count' = count + 1 /\ current' = NoMore
        /\ lines' = Append(lines, Contract!Stream(current)) /\ UNCHANGED <<seenUrls, queue>>
    BY <1>5 DEF YieldStream, workVars
  <2>2. current \in Urls /\ count \in Nat /\ lines \in Seq(Contract!Line)
    BY <2>1 DEF Base, TypeOK
  <2>3. /\ Len(lines') = Len(lines) + 1 /\ DOMAIN lines' = 1..(Len(lines) + 1)
        /\ \A i \in 1..Len(lines) : lines'[i] = lines[i]
        /\ lines'[Len(lines) + 1] = Contract!Stream(current) /\ Len(lines) \in Nat
        /\ DOMAIN lines = 1..Len(lines)
    BY <2>1, <2>2
  <2>4. Script'
    BY <2>1, <2>2, <2>3, LineTypes DEF Protocol, Script, LineDefs
  <2>5. ASSUME NEW u, u # current PROVE Unsaid(u) => Unsaid(u)'
    BY <2>3, <2>5, LineTypes DEF Unsaid, LineDefs
  <2>6. Single'
    BY <2>1, <2>2, <2>5 DEF Protocol, Single, Queued
  <2> QED BY <2>4, <2>6 DEF Protocol
<1>6. CASE YieldDone
  <2>1. /\ queue # <<>> /\ queue' = Tail(queue) /\ phase' = "done"
        /\ lines' = Append(lines, Contract!Done(count)) /\ UNCHANGED <<seenUrls, current>>
    BY <1>6 DEF YieldDone, Sentinel, workVars
  <2>2. Script'
    BY <2>1 DEF Script
  <2>3. ASSUME NEW u PROVE Unsaid(u) => Unsaid(u)'
    <3>1. lines \in Seq(Contract!Line)
      BY DEF Base, TypeOK
    <3>2. /\ Len(lines) \in Nat /\ DOMAIN lines = 1..Len(lines)
          /\ DOMAIN lines' = 1..(Len(lines) + 1)
          /\ \A i \in 1..Len(lines) : lines'[i] = lines[i]
          /\ lines'[Len(lines) + 1] = Contract!Done(count)
      BY <2>1, <3>1
    <3>3. Contract!Done(count) # Contract!Stream(u)
      BY LineTypes DEF LineDefs
    <3> QED BY <3>2, <3>3 DEF Unsaid
  <2>4. /\ \A i \in Queued' : i \in Nat /\ i + 1 \in Queued /\ queue'[i] = queue[i + 1]
        /\ \A i \in Queued' : queue'[i] # Head(queue)
    BY <2>1, Popped
  <2>6. \A i, j \in Queued' : queue'[i] = queue'[j] => i = j
    BY <2>4 DEF Protocol, Single
  <2>5. Single'
    <3>1. (\A u \in Urls : Unsaid(u) \/ u \in seenUrls)'
      BY <2>1, <2>3 DEF Protocol, Single
    <3>2. (\A i \in Queued : queue[i] \in seenUrls /\ Unsaid(queue[i]) /\ queue[i] # current)'
      BY <2>1, <2>3, <2>4 DEF Protocol, Single
    <3>3. (current \in Urls => current \in seenUrls /\ Unsaid(current))'
      BY <2>1, <2>3 DEF Protocol, Single
    <3> QED BY <2>6, <3>1, <3>2, <3>3 DEF Single
  <2> QED BY <2>2, <2>5 DEF Protocol
<1> QED BY <1>1, <1>2, <1>3, <1>4, <1>5, <1>6 DEF Events

LEMMA ProtocolNext == Base /\ Protocol /\ [Next]_vars => Protocol'
<1> SUFFICES ASSUME Base, Protocol, [Next]_vars PROVE Protocol'
  OBVIOUS
<1>1. CASE Leave
  BY <1>1 DEF Leave, Protocol, Script, Single, Unsaid, Queued, workVars
<1>2. CASE CloseLeft \/ UNCHANGED vars
  BY <1>2 DEF CloseLeft, vars, Protocol, Script, Single, Unsaid, Queued, workVars, reqVars
<1>3. CASE Finish
  <2>1. queue' = Append(queue, NoMore) /\ UNCHANGED <<lines, current, count, phase, seenUrls>>
    BY <1>3 DEF Finish, workVars, reqVars
  <2>2. queue \in Seq(Urls \cup Nothing)
    BY DEF Base, TypeOK
  <2>3. Queued' = Queued /\ \A i \in Queued : queue'[i] = queue[i]
    BY <2>1, <2>2 DEF Queued
  <2>4. Script'
    BY <2>1 DEF Protocol, Script
  <2>5. ASSUME NEW u PROVE Unsaid(u) => Unsaid(u)'
    BY <2>1 DEF Unsaid
  <2>6. (\A u \in Urls : Unsaid(u) \/ u \in seenUrls)'
    BY <2>1, <2>5 DEF Protocol, Single
  <2>7. (\A i \in Queued :
             queue[i] \in seenUrls /\ Unsaid(queue[i]) /\ queue[i] # current)'
    BY <2>1, <2>3, <2>5 DEF Protocol, Single
  <2>8. (\A i, j \in Queued : queue[i] = queue[j] => i = j)'
    BY <2>3 DEF Protocol, Single
  <2>9. (current \in Urls => current \in seenUrls /\ Unsaid(current))'
    BY <2>1, <2>5 DEF Protocol, Single
  <2> QED BY <2>4, <2>6, <2>7, <2>8, <2>9 DEF Protocol, Single
<1> QED BY <1>1, <1>2, <1>3, ProtocolWork, ProtocolEvents DEF Next

-----------------------------------------------------------------------------
(* The protocol of core/contracts.py.                                      *)

\* While streams are passed on, the lines are the meta line and then streams.
LEMMA StillOpen ==
    ASSUME Base, Protocol, phase \in {"wait", "ticket", "sent"}
    PROVE  Contract!Said(Contract!Meta) /\ ~Contract!Said(Contract!Unaired) /\ ~Contract!Finished
<1>1. /\ Len(lines) = count + 1 /\ lines[1] = Contract!Meta
      /\ \A i \in 2..Len(lines) : lines[i].type = "stream"
  BY DEF Protocol, Script
<1>2. count \in Nat /\ DOMAIN lines = 1..Len(lines)
  BY DEF Base, TypeOK
<1>3. 1 \in DOMAIN lines /\ \A i \in DOMAIN lines : i = 1 \/ i \in 2..Len(lines)
  BY <1>1, <1>2
<1> QED BY <1>1, <1>3, LineTypes DEF LineDefs, Contract!Said, Contract!Finished

LEMMA Kept ==
    ASSUME Base, Protocol, [Next]_vars PROVE Contract!Next \/ UNCHANGED lines
<1> USE DEF Goto, Yield, Contract!Say
<1>1. CASE YieldMeta
  <2>1. lines = <<>> /\ lines' = Append(lines, Contract!Meta)
    BY <1>1 DEF YieldMeta, Protocol, Script
  <2> QED BY <2>1 DEF Contract!Next, Contract!SayMeta
<1>2. CASE YieldUnaired
  <2>1. lines = <<Contract!Meta>> /\ lines' = Append(lines, Contract!Unaired)
    BY <1>2 DEF YieldUnaired, Protocol, Script
  <2> QED BY <2>1 DEF Contract!Next, Contract!SayUnaired
<1>3. CASE YieldNothing
  <2>1. /\ Len(lines) = 2 /\ lines[1] = Contract!Meta /\ lines[2] = Contract!Unaired
        /\ lines' = Append(lines, Contract!Done(0))
    BY <1>3 DEF YieldNothing, Protocol, Script
  <2>2. DOMAIN lines = {1, 2}
    BY <2>1 DEF Base, TypeOK
  <2>3. Contract!Said(Contract!Meta) /\ Contract!Said(Contract!Unaired)
    BY <2>1, <2>2 DEF Contract!Said
  <2>4. ~Contract!Finished
    BY <2>1, <2>2, LineTypes DEF Contract!Finished, LineDefs
  <2> QED BY <2>1, <2>3, <2>4 DEF Contract!Next, Contract!SayDone
<1>4. CASE YieldStream
  <2>1. phase = "ticket" /\ lines' = Append(lines, Contract!Stream(current)) /\ current \in Urls
    BY <1>4 DEF YieldStream, Base, TypeOK
  <2>2. ~Contract!Said(Contract!Stream(current))
    BY <2>1 DEF Protocol, Single, Unsaid, Contract!Said
  <2>3. Contract!SayStream(current)
    BY <2>1, <2>2, StillOpen DEF Contract!SayStream
  <2> QED BY <2>1, <2>3 DEF Contract!Next
<1>5. CASE YieldDone
  <2>1. /\ phase = "wait" /\ lines' = Append(lines, Contract!Done(count))
        /\ Len(lines) = count + 1 /\ count \in Nat
    BY <1>5 DEF YieldDone, Base, TypeOK, Protocol, Script
  <2>2. Len(lines) - 1 = count
    BY <2>1
  <2> QED BY <2>1, <2>2, StillOpen DEF Contract!Next, Contract!SayDone
<1>6. CASE AskAirDate \/ AddTitles \/ Open \/ GetStream \/ Pull \/ Return
  BY <1>6 DEF AskAirDate, AddTitles, Open, GetStream, Pull, Return
<1>7. CASE Leave \/ CloseLeft \/ Finish \/ UNCHANGED vars
  BY <1>7 DEF Leave, CloseLeft, Finish, vars, reqVars
<1>8. ASSUME NEW s \in Scrapers, Work(s) PROVE UNCHANGED lines
  BY <1>8 DEF Work, Scraped, NextEmbed, Resolved, PutStream, WorkerEnds, WorkerDies,
              WorkerCancelled, reqVars
<1> QED BY <1>1, <1>2, <1>3, <1>4, <1>5, <1>6, <1>7, <1>8 DEF Next, Events

\* Whatever the scrapers find, in whatever order and wherever the client leaves, what the
\* client has read is a beginning of a response as core/contracts.py promises it: one meta
\* line, then an unaired line or distinct streams, then a done line with their number.
THEOREM ContractKept == Spec => KeepsContract
<1>1. Init => Contract!Init
  BY DEF Init, Contract!Init
<1>2. Base /\ Protocol /\ [Next]_vars => [Contract!Next]_lines
  BY Kept
<1> QED BY <1>1, <1>2, BaseInit, BaseNext, ProtocolInit, ProtocolNext, PTL
        DEF Spec, KeepsContract, Contract!Spec

-----------------------------------------------------------------------------
(* What the dashboard counts.                                              *)

Early   == {"context", "meta", "airdate", "titles"}
Running == {"wait", "ticket", "sent"}
Answers == {<<"unaired">>, <<"streams">>, <<"empty">>}

AtDone == lines # <<>> /\ lines[Len(lines)].type = "done"

\* What has been recorded when watch_events is at each of its steps.
Recorded ==
    /\ phase \in Early \cup Running => recorded = <<>>
    /\ phase \in Early \cup {"unaired"} => fan = "unborn"
    /\ phase = "unaired" => recorded = <<"unaired">>
    /\ phase \in {"done", "over"} => recorded \in Answers
    /\ phase \notin {"done", "over", "left"} => ~AtDone
    /\ phase = "left" => /\ Len(recorded) <= 1
                         /\ AtDone => recorded \in Answers
                         /\ fan # "unborn" => Len(recorded) = 1

LEMMA RecordedInit == Init => Recorded
  BY DEF Init, Recorded, AtDone, Early, Running

LEMMA AnswerLength == \A r \in Answers \cup {<<"abandoned">>} : Len(r) = 1
  BY DEF Answers

LEMMA LastSaid ==
    ASSUME Base, NEW l, lines' = Append(lines, l) PROVE AtDone' <=> l.type = "done"
<1>1. lines \in Seq(Contract!Line)
  BY DEF Base, TypeOK
<1>2. Len(lines') = Len(lines) + 1 /\ lines'[Len(lines) + 1] = l /\ Len(lines) \in Nat
  BY <1>1, AppendAt
<1>3. lines' # <<>>
  BY <1>1
<1> QED BY <1>2, <1>3 DEF AtDone

LEMMA RecordedEvents == ASSUME Base, Recorded, Events PROVE Recorded'
<1> USE DEF Goto, Yield, Record, Early, Running
<1>1. CASE YieldMeta
  <2>1. ~AtDone'
    BY <1>1, LastSaid, LineTypes DEF YieldMeta, LineDefs
  <2> QED BY <1>1, <2>1 DEF YieldMeta, Recorded, workVars, fanVars
<1>2. CASE YieldUnaired
  <2>1. ~AtDone'
    BY <1>2, LastSaid, LineTypes DEF YieldUnaired, LineDefs
  <2>2. recorded = <<>> /\ recorded' = Append(recorded, "unaired")
    BY <1>2 DEF YieldUnaired, Recorded
  <2>3. recorded' = <<"unaired">>
    BY <2>2
  <2> QED BY <1>2, <2>1, <2>3 DEF YieldUnaired, Recorded, workVars, fanVars
<1>3. CASE YieldNothing
  BY <1>3 DEF YieldNothing, Recorded, Answers
<1>4. CASE YieldStream
  <2>1. ~AtDone'
    BY <1>4, LastSaid, LineTypes DEF YieldStream, LineDefs
  <2> QED BY <1>4, <2>1 DEF YieldStream, Recorded
<1>5. CASE YieldDone
  <2>1. phase = "wait" /\ phase' = "done"
        /\ recorded' = Append(recorded, IF count > 0 THEN "streams" ELSE "empty")
    BY <1>5 DEF YieldDone
  <2>2. recorded = <<>>
    BY <2>1 DEF Recorded
  <2>3. recorded' \in Answers
    BY <2>1, <2>2 DEF Answers
  <2> QED BY <2>1, <2>3 DEF Recorded
<1>6. CASE AskAirDate \/ AddTitles \/ Open \/ GetStream \/ Pull \/ Return
  <2>1. UNCHANGED lines /\ UNCHANGED recorded
    BY <1>6 DEF AskAirDate, AddTitles, Open, GetStream, Pull, Return
  <2> QED BY <1>6, <2>1
          DEF AskAirDate, AddTitles, Open, GetStream, Pull, Return, Recorded, AtDone, fanVars
<1> QED BY <1>1, <1>2, <1>3, <1>4, <1>5, <1>6 DEF Events

LEMMA RecordedNext == Base /\ Recorded /\ [Next]_vars => Recorded'
<1> SUFFICES ASSUME Base, Recorded, [Next]_vars PROVE Recorded'
  OBVIOUS
<1>1. CASE Leave
  <2>1. phase' = "left" /\ UNCHANGED lines /\ phase \notin {"over", "left"}
        /\ (fan' = "unborn" <=> fan = "unborn" /\ phase # "wait")
    BY <1>1 DEF Leave, CancelAll, fanVars
  <2>2. CASE phase \in Running
    <3>1. recorded = <<>> /\ recorded' = Append(recorded, "abandoned")
      BY <1>1, <2>2 DEF Leave, Abandoned, Record, Recorded, Running
    <3>2. recorded' = <<"abandoned">>
      BY <3>1
    <3>3. Len(recorded') = 1 /\ ~AtDone'
      BY <2>1, <2>2, <3>2 DEF Recorded, AtDone, Running
    <3> QED BY <2>1, <3>3 DEF Recorded, Early, Running
  <2>3. CASE phase \notin Running
    <3>1. recorded' = recorded
      BY <1>1, <2>3 DEF Leave, Abandoned, Running
    <3>2. phase \in Early \cup {"unaired", "done"}
      BY <2>1, <2>3 DEF Base, TypeOK, Early, Running
    <3>3. CASE phase \in Early
      <4>1. recorded' = <<>> /\ ~AtDone' /\ fan' = "unborn"
        BY <2>1, <3>1, <3>3 DEF Recorded, AtDone, Early
      <4>2. Len(recorded') = 0
        BY <4>1
      <4> QED BY <2>1, <4>1, <4>2 DEF Recorded, Early, Running
    <3>4. CASE phase \in {"unaired", "done"}
      <4>1. recorded' \in Answers
        BY <3>1, <3>4 DEF Recorded, Answers
      <4>2. Len(recorded') = 1
        BY <4>1, AnswerLength
      <4>3. Len(recorded') <= 1
        BY <4>2
      <4> QED BY <2>1, <4>1, <4>2, <4>3 DEF Recorded, Early, Running
    <3> QED BY <3>2, <3>3, <3>4
  <2> QED BY <2>2, <2>3
<1>2. CASE CloseLeft \/ Finish \/ UNCHANGED vars
  <2>1. UNCHANGED lines /\ UNCHANGED recorded /\ UNCHANGED phase
        /\ (fan' = "unborn" <=> fan = "unborn")
    BY <1>2 DEF CloseLeft, Finish, vars, reqVars, fanVars, CancelAll
  <2> QED BY <2>1 DEF Recorded, AtDone
<1>3. ASSUME NEW s \in Scrapers, Work(s) PROVE Recorded'
  <2>1. UNCHANGED lines /\ UNCHANGED recorded /\ UNCHANGED phase /\ UNCHANGED fan
    BY <1>3 DEF Work, Scraped, NextEmbed, Resolved, PutStream, WorkerEnds, WorkerDies,
                WorkerCancelled, reqVars, fanVars
  <2> QED BY <2>1 DEF Recorded, AtDone
<1> QED BY <1>1, <1>2, <1>3, RecordedEvents DEF Next

\* watch_events tells metrics.record_watch of a request at most once, tells it of every one
\* that began a fan-out, and never as abandoned when the done line was said.
THEOREM CountedOnce == Spec => []RecordedOnce
<1>1. Base /\ Recorded => RecordedOnce
  <2> SUFFICES ASSUME Base, Recorded PROVE RecordedOnce
    OBVIOUS
  <2>1. Len(<<>>) = 0
    OBVIOUS
  <2>2. phase \in Early \cup Running \cup {"unaired", "done", "over", "left"}
    BY DEF Base, TypeOK, Early, Running
  <2>3. CASE phase \in Early \cup Running
    BY <2>1, <2>3 DEF Recorded, RecordedOnce, AtDone, Early, Running
  <2>4. CASE phase \in {"unaired", "done", "over"}
    <3>1. recorded \in Answers
      BY <2>4 DEF Recorded, Answers
    <3>2. Len(recorded) = 1
      BY <3>1, AnswerLength
    <3>3. Len(recorded) <= 1
      BY <3>2
    <3> QED BY <3>1, <3>2, <3>3 DEF RecordedOnce, Answers
  <2>5. CASE phase = "left"
    BY <2>5 DEF Recorded, RecordedOnce, AtDone, Answers
  <2> QED BY <2>2, <2>3, <2>4, <2>5
<1> QED BY <1>1, BaseInit, BaseNext, RecordedInit, RecordedNext, PTL DEF Spec

-----------------------------------------------------------------------------
(* Nothing is lost.                                                        *)

LEMMA ElementsOf ==
    /\ Elements(<<>>) = {}
    /\ \A S : \A q \in Seq(S) : q # <<>> => Elements(q) = {Head(q)} \cup Elements(Tail(q))
<1>1. Elements(<<>>) = {}
  BY DEF Elements
<1>2. ASSUME NEW S, NEW q \in Seq(S), q # <<>>
      PROVE  Elements(q) = {Head(q)} \cup Elements(Tail(q))
  <2>1. /\ Len(q) \in Nat \ {0} /\ DOMAIN q = 1..Len(q) /\ Head(q) = q[1]
        /\ DOMAIN Tail(q) = 1..(Len(q) - 1)
        /\ \A i \in 1..(Len(q) - 1) : Tail(q)[i] = q[i + 1]
    BY <1>2
  <2>2. ASSUME NEW x \in Elements(q) PROVE x \in {Head(q)} \cup Elements(Tail(q))
    <3>1. PICK i \in 1..Len(q) : x = q[i]
      BY <2>1, <2>2 DEF Elements
    <3>2. CASE i = 1
      BY <2>1, <3>1, <3>2
    <3>3. CASE i # 1
      <4>1. i - 1 \in 1..(Len(q) - 1) /\ Tail(q)[i - 1] = x
        BY <2>1, <3>1, <3>3
      <4> QED BY <2>1, <4>1 DEF Elements
    <3> QED BY <3>2, <3>3
  <2>3. ASSUME NEW x \in {Head(q)} \cup Elements(Tail(q)) PROVE x \in Elements(q)
    <3>1. CASE x = Head(q)
      BY <2>1, <3>1 DEF Elements
    <3>2. CASE x \in Elements(Tail(q))
      <4>1. PICK i \in 1..(Len(q) - 1) : x = Tail(q)[i]
        BY <2>1, <3>2 DEF Elements
      <4>2. i + 1 \in 1..Len(q) /\ q[i + 1] = x
        BY <2>1, <4>1
      <4> QED BY <2>1, <4>2 DEF Elements
    <3> QED BY <2>3, <3>1, <3>2
  <2> QED BY <2>2, <2>3
<1> QED BY <1>1, <1>2

\* The streams a client has read are those of which a line has been said.
LEMMA Heard == Base => Streams = {u \in Urls : ~Unsaid(u)}
<1> SUFFICES ASSUME Base PROVE Streams = {u \in Urls : ~Unsaid(u)}
  OBVIOUS
<1>1. lines \in Seq(Contract!Line)
  BY DEF Base, TypeOK
<1>2. \A l \in Contract!Line : l.type = "stream" => l.url \in Urls /\ l = Contract!Stream(l.url)
  <2> SUFFICES ASSUME NEW l \in Contract!Line, l.type = "stream"
               PROVE  l.url \in Urls /\ l = Contract!Stream(l.url)
    OBVIOUS
  <2>1. l \notin {Contract!Meta, Contract!Unaired}
    BY LineTypes DEF LineDefs
  <2>2. l \notin [type : {"done"}, streams : Nat]
    OBVIOUS
  <2>3. l \in [type : {"stream"}, url : Urls]
    BY <2>1, <2>2 DEF Contract!Line
  <2> QED BY <2>3 DEF Contract!Stream
<1>3. ASSUME NEW u \in Streams PROVE u \in Urls /\ ~Unsaid(u)
  <2>1. PICK i \in DOMAIN lines : lines[i].type = "stream" /\ u = lines[i].url
    BY <1>3 DEF Streams
  <2>2. lines[i] \in Contract!Line
    BY <1>1, <2>1
  <2> QED BY <1>2, <2>1, <2>2 DEF Unsaid
<1>4. ASSUME NEW u \in Urls, ~Unsaid(u) PROVE u \in Streams
  <2>1. PICK i \in DOMAIN lines : lines[i] = Contract!Stream(u)
    BY <1>4 DEF Unsaid
  <2>2. lines[i].type = "stream" /\ lines[i].url = u
    BY <2>1, LineTypes DEF LineDefs
  <2> QED BY <2>1, <2>2 DEF Streams
<1> QED BY <1>3, <1>4

\* watch_events has not said its last line and the client has not gone.
Serving == phase \notin {"done", "over", "left"}

\* Nobody has been told to stop; a task at an await holds nothing it would overwrite, one
\* that has ended holds nothing.
Steady ==
    /\ fan # "closed" /\ cancelled = {}
    /\ \A s \in Scrapers : /\ at[s] \in {"resolve", "ended"} => got[s] = <<>>
                           /\ at[s] \in {"unborn", "scrape", "ended"} => todo[s] = <<>>

\* Every stream found is with the worker that found it, in the queue, in hand or said.
StreamsHeld ==
    /\ seenUrls \subseteq found /\ \A s \in Scrapers : Elements(got[s]) \subseteq found
    /\ \A u \in found : u \in seenUrls \/ \E s \in Scrapers : u \in Elements(got[s])
    /\ \A u \in seenUrls : ~Unsaid(u) \/ u = current \/ \E i \in Queued : queue[i] = u

\* Every embed offered is with the scraper that found it, being resolved, or tried, unless a
\* worker has died.
EmbedsHeld ==
    /\ seenEmbeds \subseteq offered /\ \A s \in Scrapers : Elements(todo[s]) \subseteq offered
    /\ died = {} =>
         /\ \A e \in offered : e \in seenEmbeds \/ \E s \in Scrapers : e \in Elements(todo[s])
         /\ \A e \in seenEmbeds : e \in tried \/ \E s \in Scrapers : at[s] = "resolve" /\ embed[s] = e

\* The sentinel comes last, and once no worker is left to put anything behind it.
SentinelLast ==
    \A i \in DOMAIN queue : queue[i] = NoMore =>
        i = Len(queue) /\ WorkersDone /\ finisher = "done"

Held == Serving => Steady /\ StreamsHeld /\ EmbedsHeld /\ SentinelLast

Safe == Base /\ Closed /\ Claimed /\ Protocol

LEMMA HeldInit == Init => Held
  BY ElementsOf DEF Init, Held, Serving, Steady, StreamsHeld, EmbedsHeld, SentinelLast

\* Once no worker is left, none does anything.
LEMMA NoWork == ASSUME NEW s \in Scrapers, Work(s) PROVE ~WorkersDone
  BY DEF Work, Scraped, NextEmbed, Resolved, PutStream, WorkerEnds, WorkerDies, WorkerCancelled,
         WorkersDone

LEMMA SteadyWork ==
    ASSUME Safe, Steady, NEW s \in Scrapers, Work(s) PROVE Steady'
<1> USE DEF Safe, Base, TypeOK, Steady
<1>1. CASE Scraped(s)
  BY <1>1 DEF Scraped, fanVars
<1>2. CASE NextEmbed(s)
  <2>1. /\ todo' = [todo EXCEPT ![s] = Tail(@)] /\ UNCHANGED <<fan, cancelled, got>>
        /\ at' = at \/ at' = [at EXCEPT ![s] = "resolve"]
        /\ at[s] = "put" /\ got[s] = <<>>
    BY <1>2 DEF NextEmbed, fanVars
  <2> QED BY <2>1
<1>3. CASE Resolved(s)
  BY <1>3 DEF Resolved, fanVars
<1>4. CASE PutStream(s)
  BY <1>4 DEF PutStream, fanVars
<1>5. CASE WorkerEnds(s) \/ WorkerDies(s)
  BY <1>5 DEF WorkerEnds, WorkerDies, fanVars
<1>6. CASE WorkerCancelled(s)
  BY <1>6 DEF WorkerCancelled
<1> QED BY <1>1, <1>2, <1>3, <1>4, <1>5, <1>6 DEF Work

LEMMA StreamsWork ==
    ASSUME Safe, Steady, StreamsHeld, NEW s \in Scrapers, Work(s) PROVE StreamsHeld'
<1> USE DEF Safe, Base, StreamsHeld
<1>1. CASE Resolved(s)
  <2>1. PICK list \in UrlLists : /\ got' = [got EXCEPT ![s] = list]
                                 /\ found' = found \cup Elements(list)
    BY <1>1 DEF Resolved
  <2>2. got[s] = <<>> /\ got \in [Scrapers -> Seq(Urls)]
    BY <1>1 DEF Resolved, Steady, TypeOK
  <2>3. UNCHANGED <<seenUrls, queue, lines, current>>
    BY <1>1 DEF Resolved, reqVars
  <2>4. got'[s] = list /\ \A o \in Scrapers : o # s => got'[o] = got[o]
    BY <2>1, <2>2
  <2>5. \A u \in found' : u \in seenUrls' \/ \E o \in Scrapers : u \in Elements(got'[o])
    <3> SUFFICES ASSUME NEW u \in found', u \notin seenUrls
                 PROVE  \E o \in Scrapers : u \in Elements(got'[o])
      BY <2>3
    <3>1. CASE u \in Elements(list)
      BY <2>4, <3>1
    <3>2. CASE u \in found
      <4>1. PICK o \in Scrapers : u \in Elements(got[o])
        BY <3>2
      <4>2. o # s
        BY <2>2, <4>1, ElementsOf
      <4> QED BY <2>4, <4>1, <4>2
    <3> QED BY <2>1, <3>1, <3>2
  <2>6. seenUrls' \subseteq found' /\ \A o \in Scrapers : Elements(got'[o]) \subseteq found'
    BY <2>1, <2>3, <2>4
  <2>7. \A u \in seenUrls' : ~Unsaid(u)' \/ u = current' \/ \E i \in Queued' : queue'[i] = u
    BY <2>3 DEF Unsaid, Queued
  <2> QED BY <2>5, <2>6, <2>7
<1>2. CASE PutStream(s)
  <2> DEFINE u == Head(got[s])
  <2>1. /\ got' = [got EXCEPT ![s] = Tail(@)] /\ UNCHANGED <<found, lines, current>>
        /\ seenUrls' = seenUrls \cup {u}
        /\ queue' = IF u \in seenUrls THEN queue ELSE Append(queue, u)
        /\ got[s] # <<>>
    BY <1>2 DEF PutStream, Put, reqVars
  <2>2. got[s] \in Seq(Urls) /\ queue \in Seq(Urls \cup Nothing) /\ got \in [Scrapers -> Seq(Urls)]
    BY DEF TypeOK
  <2>3. u \in Urls /\ Elements(got[s]) = {u} \cup Elements(Tail(got[s]))
    BY <2>1, <2>2, ElementsOf
  <2>4. got'[s] = Tail(got[s]) /\ \A o \in Scrapers : o # s => got'[o] = got[o]
    BY <2>1, <2>2
  <2> HIDE DEF u
  <2>5. \A v \in found' : v \in seenUrls' \/ \E o \in Scrapers : v \in Elements(got'[o])
    <3> SUFFICES ASSUME NEW v \in found, v \notin seenUrls, v # u
                 PROVE  \E o \in Scrapers : v \in Elements(got'[o])
      BY <2>1
    <3>1. PICK o \in Scrapers : v \in Elements(got[o])
      OBVIOUS
    <3> QED BY <2>3, <2>4, <3>1
  <2>6. seenUrls' \subseteq found' /\ \A o \in Scrapers : Elements(got'[o]) \subseteq found'
    <3>1. u \in found /\ Elements(Tail(got[s])) \subseteq found
      BY <2>3
    <3> QED BY <2>1, <2>4, <3>1
  <2>7. \A v \in seenUrls' : ~Unsaid(v)' \/ v = current' \/ \E i \in Queued' : queue'[i] = v
    <3>1. CASE u \in seenUrls
      BY <2>1, <3>1 DEF Unsaid, Queued
    <3>2. CASE u \notin seenUrls
      <4>1. /\ DOMAIN queue' = 1..(Len(queue) + 1) /\ Len(queue) \in Nat
            /\ DOMAIN queue = 1..Len(queue)
            /\ \A i \in 1..Len(queue) : queue'[i] = queue[i]
            /\ queue'[Len(queue) + 1] = u
        BY <2>1, <2>2, <3>2
      <4>2. \A i \in Queued : i \in Queued' /\ queue'[i] = queue[i]
        BY <4>1 DEF Queued
      <4>3. Len(queue) + 1 \in Queued' /\ queue'[Len(queue) + 1] = u
        BY <2>3, <4>1 DEF Queued
      <4>4. \A v : Unsaid(v)' <=> Unsaid(v)
        BY <2>1 DEF Unsaid
      <4> QED BY <2>1, <4>2, <4>3, <4>4
    <3> QED BY <3>1, <3>2
  <2> QED BY <2>5, <2>6, <2>7
<1>3. CASE Scraped(s) \/ NextEmbed(s) \/ WorkerEnds(s) \/ WorkerDies(s)
  <2>1. UNCHANGED <<got, found, seenUrls, queue, lines, current>>
    BY <1>3 DEF Scraped, NextEmbed, WorkerEnds, WorkerDies, reqVars
  <2> QED BY <2>1 DEF Unsaid, Queued
<1>4. CASE WorkerCancelled(s)
  BY <1>4 DEF WorkerCancelled, Steady
<1> QED BY <1>1, <1>2, <1>3, <1>4 DEF Work

LEMMA EmbedsWork ==
    ASSUME Safe, Steady, EmbedsHeld, NEW s \in Scrapers, Work(s) PROVE EmbedsHeld'
<1> USE DEF Safe, Base, EmbedsHeld
<1>0. todo \in [Scrapers -> Seq(Embeds)] /\ embed \in [Scrapers -> Embeds \cup Nothing]
      /\ at \in [Scrapers -> {"unborn", "scrape", "resolve", "put", "ended"}]
  BY DEF TypeOK
<1>1. CASE Scraped(s)
  <2>1. PICK list \in EmbedLists : /\ todo' = [todo EXCEPT ![s] = list]
                                   /\ offered' = offered \cup Elements(list)
    BY <1>1 DEF Scraped
  <2>2. todo[s] = <<>> /\ at[s] = "scrape" /\ at' = [at EXCEPT ![s] = "put"]
        /\ UNCHANGED <<seenEmbeds, tried, embed, died>>
    BY <1>1 DEF Scraped, Steady
  <2>3. todo'[s] = list /\ \A o \in Scrapers : o # s => todo'[o] = todo[o]
    BY <1>0, <2>1
  <2>4. \A e \in offered' : died = {} =>
            e \in seenEmbeds' \/ \E o \in Scrapers : e \in Elements(todo'[o])
    <3> SUFFICES ASSUME NEW e \in offered', died = {}, e \notin seenEmbeds
                 PROVE  \E o \in Scrapers : e \in Elements(todo'[o])
      BY <2>2
    <3>1. CASE e \in Elements(list)
      BY <2>3, <3>1
    <3>2. CASE e \in offered
      <4>1. PICK o \in Scrapers : e \in Elements(todo[o])
        BY <3>2
      <4>2. o # s
        BY <2>2, <4>1, ElementsOf
      <4> QED BY <2>3, <4>1, <4>2
    <3> QED BY <2>1, <3>1, <3>2
  <2>5. seenEmbeds' \subseteq offered' /\ \A o \in Scrapers : Elements(todo'[o]) \subseteq offered'
    BY <2>1, <2>2, <2>3
  <2>6. \A e \in seenEmbeds' : died = {} =>
            e \in tried' \/ \E o \in Scrapers : at'[o] = "resolve" /\ embed'[o] = e
    BY <1>0, <2>2
  <2> QED BY <2>2, <2>4, <2>5, <2>6
<1>2. CASE NextEmbed(s)
  <2> DEFINE x == Head(todo[s])
  <2>1. /\ todo[s] # <<>> /\ todo' = [todo EXCEPT ![s] = Tail(@)] /\ at[s] = "put"
        /\ UNCHANGED <<offered, tried, died>>
        /\ \/ x \in seenEmbeds /\ UNCHANGED <<at, embed, seenEmbeds>>
           \/ /\ seenEmbeds' = seenEmbeds \cup {x}
              /\ embed' = [embed EXCEPT ![s] = x] /\ at' = [at EXCEPT ![s] = "resolve"]
    BY <1>2 DEF NextEmbed, ClaimEmbed
  <2>2. Elements(todo[s]) = {x} \cup Elements(Tail(todo[s]))
    BY <1>0, <2>1, ElementsOf
  <2>3. todo'[s] = Tail(todo[s]) /\ \A o \in Scrapers : o # s => todo'[o] = todo[o]
    BY <1>0, <2>1
  <2> HIDE DEF x
  <2>4. x \in offered /\ Elements(Tail(todo[s])) \subseteq offered
    BY <2>2
  <2>5. \A e \in offered' : died = {} =>
            e \in seenEmbeds' \/ \E o \in Scrapers : e \in Elements(todo'[o])
    <3> SUFFICES ASSUME NEW e \in offered, died = {}, e \notin seenEmbeds, e # x
                 PROVE  \E o \in Scrapers : e \in Elements(todo'[o])
      BY <2>1
    <3>1. PICK o \in Scrapers : e \in Elements(todo[o])
      OBVIOUS
    <3> QED BY <2>2, <2>3, <3>1
  <2>6. seenEmbeds' \subseteq offered' /\ \A o \in Scrapers : Elements(todo'[o]) \subseteq offered'
    BY <2>1, <2>3, <2>4
  <2>7. ASSUME NEW e \in seenEmbeds', died = {}
        PROVE  e \in tried' \/ \E o \in Scrapers : at'[o] = "resolve" /\ embed'[o] = e
    <3>1. CASE e \in seenEmbeds /\ e \notin tried
      <4>1. PICK o \in Scrapers : at[o] = "resolve" /\ embed[o] = e
        BY <2>7, <3>1
      <4>2. o # s
        BY <2>1, <4>1
      <4> QED BY <1>0, <2>1, <4>1, <4>2
    <3>2. CASE e \notin seenEmbeds
      <4>1. /\ e = x /\ embed' = [embed EXCEPT ![s] = x]
            /\ at' = [at EXCEPT ![s] = "resolve"]
        BY <2>1, <3>2
      <4> QED BY <1>0, <4>1
    <3> QED BY <2>1, <3>1, <3>2
  <2> QED BY <2>1, <2>5, <2>6, <2>7
<1>3. CASE Resolved(s)
  <2>1. /\ tried' = tried \cup {embed[s]} /\ embed' = [embed EXCEPT ![s] = NoMore]
        /\ at' = [at EXCEPT ![s] = "put"] /\ UNCHANGED <<todo, offered, seenEmbeds, died>>
    BY <1>3 DEF Resolved
  <2> QED BY <1>0, <2>1
<1>4. CASE PutStream(s)
  BY <1>4 DEF PutStream
<1>5. CASE WorkerEnds(s)
  <2>1. at[s] = "put" /\ at' = [at EXCEPT ![s] = "ended"]
        /\ UNCHANGED <<todo, embed, tried, offered, seenEmbeds, died>>
    BY <1>5 DEF WorkerEnds
  <2> QED BY <1>0, <2>1
<1>6. CASE WorkerDies(s)
  <2>1. died' # {} /\ UNCHANGED <<offered, seenEmbeds>> /\ todo' = [todo EXCEPT ![s] = <<>>]
    BY <1>6 DEF WorkerDies
  <2>2. \A o \in Scrapers : Elements(todo'[o]) \subseteq offered'
    BY <1>0, <2>1, ElementsOf
  <2> QED BY <2>1, <2>2
<1>7. CASE WorkerCancelled(s)
  BY <1>7 DEF WorkerCancelled, Steady
<1> QED BY <1>1, <1>2, <1>3, <1>4, <1>5, <1>6, <1>7 DEF Work

LEMMA SentinelWork ==
    ASSUME Safe, SentinelLast, NEW s \in Scrapers, Work(s) PROVE SentinelLast'
<1>1. \A i \in DOMAIN queue : queue[i] # NoMore
  BY NoWork DEF SentinelLast
<1>2. UNCHANGED queue => SentinelLast'
  BY <1>1 DEF SentinelLast
<1>3. CASE PutStream(s)
  <2> DEFINE u == Head(got[s])
  <2>1. got[s] \in Seq(Urls) /\ got[s] # <<>> /\ queue \in Seq(Urls \cup Nothing)
    BY <1>3 DEF Safe, Base, TypeOK, PutStream
  <2>2. u \in Urls
    BY <2>1
  <2>3. u # NoMore
    BY <2>2, AnswerAssumption
  <2> HIDE DEF u
  <2>4. queue' = queue \/ queue' = Append(queue, u)
    BY <1>3 DEF PutStream, Put, u
  <2>5. \A i \in DOMAIN queue' : queue'[i] # NoMore
    BY <1>1, <2>1, <2>3, <2>4, SMTT(30)
  <2> QED BY <2>5 DEF SentinelLast
<1>4. CASE Scraped(s) \/ NextEmbed(s) \/ Resolved(s) \/ WorkerEnds(s) \/ WorkerDies(s)
           \/ WorkerCancelled(s)
  BY <1>2, <1>4 DEF Scraped, NextEmbed, Resolved, WorkerEnds, WorkerDies, WorkerCancelled
<1> QED BY <1>3, <1>4 DEF Work

LEMMA AppendKeeps ==
    ASSUME NEW S, NEW q \in Seq(S), NEW l, NEW i \in DOMAIN q
    PROVE  i \in DOMAIN Append(q, l) /\ Append(q, l)[i] = q[i]
  OBVIOUS

\* What was said stays said.
LEMMA SaidStays ==
    ASSUME lines \in Seq(Contract!Line), UNCHANGED lines \/ \E l : lines' = Append(lines, l)
    PROVE  \A u : ~Unsaid(u) => ~Unsaid(u)'
<1> SUFFICES ASSUME NEW u, ~Unsaid(u) PROVE ~Unsaid(u)'
  OBVIOUS
<1>1. PICK i \in DOMAIN lines : lines[i] = Contract!Stream(u)
  BY DEF Unsaid
<1>2. CASE UNCHANGED lines
  BY <1>1, <1>2 DEF Unsaid
<1>3. CASE \E l : lines' = Append(lines, l)
  <2>1. PICK l : lines' = Append(lines, l)
    BY <1>3
  <2>2. i \in DOMAIN lines' /\ lines'[i] = Contract!Stream(u)
    BY <1>1, <2>1, AppendKeeps
  <2> QED BY <1>1, <2>2 DEF Unsaid
<1> QED BY <1>2, <1>3

LEMMA HeldEvents == ASSUME Safe, Held, Events, Serving' PROVE Held'
<1> USE DEF Goto, Yield, Safe
<1>0. Serving
  BY DEF Events, YieldMeta, AskAirDate, YieldUnaired, YieldNothing, AddTitles, Open, GetStream,
         YieldStream, Pull, YieldDone, Return, Serving
<1>a. Steady /\ StreamsHeld /\ EmbedsHeld /\ SentinelLast
  BY <1>0 DEF Held
<1>b. lines \in Seq(Contract!Line) /\ queue \in Seq(Urls \cup Nothing)
  BY DEF Base, TypeOK
<1>1. CASE Open
  <2>1. \A s \in Scrapers : at[s] = "unborn" /\ at'[s] = "scrape"
    BY <1>1 DEF Open, Base, Unborn
  <2>2. UNCHANGED <<lines, current, todo, embed, got, died, cancelled, finisher, seenEmbeds,
                    seenUrls, queue, offered, tried, found>> /\ fan' = "open"
    BY <1>1 DEF Open
  <2>3. Steady'
    BY <1>a, <2>1, <2>2 DEF Steady
  <2>4. StreamsHeld'
    BY <1>a, <2>2 DEF StreamsHeld, Unsaid, Queued
  <2>5. EmbedsHeld'
    BY <1>a, <2>1, <2>2 DEF EmbedsHeld
  <2>6. Scrapers # {} => SentinelLast'
    BY <1>a, <2>1, <2>2 DEF SentinelLast, WorkersDone
  <2>7. Scrapers = {} => SentinelLast'
    BY <1>a, <2>2 DEF SentinelLast, WorkersDone
  <2> QED BY <2>3, <2>4, <2>5, <2>6, <2>7 DEF Held
<1>2. CASE YieldMeta \/ AskAirDate \/ YieldUnaired \/ AddTitles \/ Pull
  <2>1. UNCHANGED <<workVars, fanVars, queue, current>>
    BY <1>2 DEF YieldMeta, AskAirDate, YieldUnaired, AddTitles, Pull
  <2>2. UNCHANGED lines \/ \E l : lines' = Append(lines, l)
    BY <1>2 DEF YieldMeta, AskAirDate, YieldUnaired, AddTitles, Pull
  <2>3. \A u : ~Unsaid(u) => ~Unsaid(u)'
    BY <1>b, <2>2, SaidStays
  <2>4. StreamsHeld'
    BY <1>a, <2>1, <2>3 DEF StreamsHeld, Queued, workVars
  <2>5. Steady' /\ EmbedsHeld' /\ SentinelLast'
    BY <1>a, <2>1 DEF Steady, EmbedsHeld, SentinelLast, WorkersDone, workVars, fanVars
  <2> QED BY <2>4, <2>5 DEF Held
<1>3. CASE GetStream
  <2>1. /\ queue # <<>> /\ current' = Head(queue) /\ queue' = Tail(queue) /\ phase = "wait"
        /\ UNCHANGED <<lines, workVars, fanVars>>
    BY <1>3 DEF GetStream
  <2>2. current = NoMore
    BY <2>1 DEF Base, TypeOK, Nothing
  <2>3. /\ Len(queue) \in Nat \ {0} /\ DOMAIN queue = 1..Len(queue) /\ Head(queue) = queue[1]
        /\ DOMAIN queue' = 1..(Len(queue) - 1) /\ Len(queue') = Len(queue) - 1
        /\ \A i \in 1..(Len(queue) - 1) : queue'[i] = queue[i + 1]
    BY <1>b, <2>1
  <2>4. \A u : Unsaid(u)' <=> Unsaid(u)
    BY <2>1 DEF Unsaid
  <2>5. ASSUME NEW i \in Queued PROVE queue[i] = current' \/ \E j \in Queued' : queue'[j] = queue[i]
    <3>1. CASE i = 1
      BY <2>1, <2>3, <3>1
    <3>2. CASE i # 1
      <4>1. i - 1 \in 1..(Len(queue) - 1) /\ queue'[i - 1] = queue[i]
        BY <2>3, <3>2 DEF Queued
      <4> QED BY <2>3, <4>1 DEF Queued
    <3> QED BY <3>1, <3>2
  <2>6. StreamsHeld'
    <3>1. \A u \in seenUrls : u \in Urls
      BY DEF Base, TypeOK
    <3>2. NoMore \notin Urls
      BY AnswerAssumption
    <3>3. \A u \in seenUrls' : ~Unsaid(u)' \/ u = current' \/ \E i \in Queued' : queue'[i] = u
      BY <1>a, <2>1, <2>2, <2>4, <2>5, <3>1, <3>2 DEF StreamsHeld, workVars
    <3> QED BY <1>a, <2>1, <3>3 DEF StreamsHeld, workVars
  <2>7. SentinelLast'
    BY <1>a, <2>1, <2>3 DEF SentinelLast, WorkersDone, workVars, fanVars
  <2>8. Steady' /\ EmbedsHeld'
    BY <1>a, <2>1 DEF Steady, EmbedsHeld, workVars, fanVars
  <2> QED BY <2>6, <2>7, <2>8 DEF Held
<1>4. CASE YieldStream
  <2>1. /\ lines' = Append(lines, Contract!Stream(current)) /\ current' = NoMore
        /\ UNCHANGED <<workVars, fanVars, queue>>
    BY <1>4 DEF YieldStream
  <2>2. \A u : ~Unsaid(u) \/ u = current => ~Unsaid(u)'
    <3>1. /\ Len(lines) \in Nat /\ DOMAIN lines = 1..Len(lines)
          /\ DOMAIN lines' = 1..(Len(lines) + 1)
          /\ \A i \in 1..Len(lines) : lines'[i] = lines[i]
          /\ lines'[Len(lines) + 1] = Contract!Stream(current)
      BY <1>b, <2>1
    <3> QED BY <3>1 DEF Unsaid
  <2>3. StreamsHeld'
    BY <1>a, <2>1, <2>2 DEF StreamsHeld, Queued, workVars
  <2>4. Steady' /\ EmbedsHeld' /\ SentinelLast'
    BY <1>a, <2>1 DEF Steady, EmbedsHeld, SentinelLast, WorkersDone, workVars, fanVars
  <2> QED BY <2>3, <2>4 DEF Held
<1>5. CASE YieldNothing \/ YieldDone \/ Return
  BY <1>5 DEF YieldNothing, YieldDone, Return, Serving
<1> QED BY <1>1, <1>2, <1>3, <1>4, <1>5 DEF Events

LEMMA HeldNext == Safe /\ Held /\ [Next]_vars => Held'
<1> SUFFICES ASSUME Safe, Held, [Next]_vars, Serving' PROVE Held'
  BY DEF Held
<1>1. CASE Leave
  BY <1>1 DEF Leave, Serving
<1>2. CASE CloseLeft
  BY <1>2 DEF CloseLeft, Serving, reqVars
<1>3. CASE UNCHANGED vars
  BY <1>3 DEF vars, reqVars, workVars, fanVars, Held, Serving, Steady, StreamsHeld, EmbedsHeld,
              SentinelLast, WorkersDone, Unsaid, Queued
<1>4. CASE Finish
  <2>1. /\ WorkersDone /\ finisher = "waiting" /\ finisher' = "done"
        /\ queue' = Append(queue, NoMore) /\ UNCHANGED <<reqVars, workVars, fan, cancelled>>
    BY <1>4 DEF Finish
  <2>2. Steady /\ StreamsHeld /\ EmbedsHeld /\ SentinelLast
    BY <2>1 DEF Held, Serving, reqVars
  <2>3. queue \in Seq(Urls \cup Nothing)
    BY DEF Safe, Base, TypeOK
  <2>4. /\ DOMAIN queue' = 1..(Len(queue) + 1) /\ Len(queue) \in Nat
        /\ DOMAIN queue = 1..Len(queue) /\ Len(queue') = Len(queue) + 1
        /\ \A i \in 1..Len(queue) : queue'[i] = queue[i]
    BY <2>1, <2>3
  <2>5. SentinelLast'
    BY <2>1, <2>2, <2>4 DEF SentinelLast, WorkersDone, workVars
  <2>6. \A i \in Queued : i \in Queued' /\ queue'[i] = queue[i]
    BY <2>4 DEF Queued
  <2>7. StreamsHeld'
    <3>1. \A u : Unsaid(u)' <=> Unsaid(u)
      BY <2>1 DEF Unsaid, reqVars
    <3>2. \A u \in seenUrls : ~Unsaid(u) \/ u = current \/ \E i \in Queued : queue[i] = u
      BY <2>2 DEF StreamsHeld
    <3>3. (\A u \in seenUrls : ~Unsaid(u) \/ u = current \/ \E i \in Queued : queue[i] = u)'
      BY <2>1, <2>6, <3>1, <3>2 DEF workVars, reqVars
    <3> QED BY <2>1, <2>2, <3>3 DEF StreamsHeld, workVars
  <2>8. Steady' /\ EmbedsHeld'
    BY <2>1, <2>2 DEF Steady, EmbedsHeld, workVars
  <2> QED BY <2>5, <2>7, <2>8 DEF Held
<1>5. ASSUME NEW s \in Scrapers, Work(s) PROVE Held'
  <2>1. Serving
    BY <1>5 DEF Work, Scraped, NextEmbed, Resolved, PutStream, WorkerEnds, WorkerDies,
                WorkerCancelled, reqVars, Serving
  <2> QED BY <1>5, <2>1, SteadyWork, StreamsWork, EmbedsWork, SentinelWork DEF Held
<1> QED BY <1>1, <1>2, <1>3, <1>4, <1>5, HeldEvents DEF Next

\* The done line of a fan-out: the sentinel is alone in the queue, so every stream is said.
LEMMA DoneLoses == ASSUME Safe, Held, YieldDone, Base' PROVE NothingLost'
<1>1. /\ queue # <<>> /\ Head(queue) = NoMore /\ phase = "wait"
      /\ lines' = Append(lines, Contract!Done(count)) /\ UNCHANGED <<movie, current, count, workVars>>
  BY DEF YieldDone, Sentinel, Goto, Yield
<1>2. Steady /\ StreamsHeld /\ EmbedsHeld /\ SentinelLast
  BY <1>1 DEF Held, Serving
<1>3. lines \in Seq(Contract!Line) /\ queue \in Seq(Urls \cup Nothing) /\ current = NoMore
  BY <1>1 DEF Safe, Base, TypeOK, Nothing
<1>4. 1 \in DOMAIN queue /\ queue[1] = NoMore /\ DOMAIN queue = 1..Len(queue)
  BY <1>1, <1>3
<1>5. Len(queue) = 1 /\ WorkersDone
  BY <1>2, <1>4 DEF SentinelLast
<1>6. Queued = {}
  BY <1>4, <1>5, AnswerAssumption DEF Queued
<1>7. \A s \in Scrapers : Elements(got[s]) = {} /\ Elements(todo[s]) = {} /\ at[s] = "ended"
  BY <1>2, <1>5, ElementsOf DEF Steady, WorkersDone
<1>8. found = seenUrls
  BY <1>2, <1>7 DEF StreamsHeld
<1>9. seenUrls \subseteq Urls /\ NoMore \notin Urls
  BY AnswerAssumption DEF Safe, Base, TypeOK
<1>10. \A u \in Urls : u \in seenUrls <=> ~Unsaid(u)
  BY <1>2, <1>3, <1>6, <1>9 DEF StreamsHeld, Safe, Protocol, Single
<1>11. ASSUME NEW u PROVE Unsaid(u)' <=> Unsaid(u)
  <2>1. /\ Len(lines) \in Nat /\ DOMAIN lines = 1..Len(lines)
        /\ DOMAIN lines' = 1..(Len(lines) + 1)
        /\ \A i \in 1..Len(lines) : lines'[i] = lines[i]
        /\ lines'[Len(lines) + 1] = Contract!Done(count)
    BY <1>1, <1>3
  <2>2. Contract!Done(count) # Contract!Stream(u)
    BY LineTypes DEF LineDefs
  <2> QED BY <2>1, <2>2 DEF Unsaid
<1>12. Streams' = {u \in Urls : ~Unsaid(u)'}
  <2>1. (Base => Streams = {u \in Urls : ~Unsaid(u)})'
    BY Heard, PTL
  <2> QED BY <2>1
<1>13. Streams' = found'
  BY <1>1, <1>8, <1>9, <1>10, <1>11, <1>12 DEF workVars
<1>14. died = {} => offered = tried
  BY <1>2, <1>7 DEF EmbedsHeld, Safe, Claimed
<1> QED BY <1>1, <1>13, <1>14 DEF NothingLost, workVars

LEMMA NothingLostNext == Safe /\ Base' /\ Held /\ NothingLost /\ [Next]_vars => NothingLost'
<1> SUFFICES ASSUME Safe, Base', Held, NothingLost, [Next]_vars, phase' = "done", fan' = "closed"
             PROVE  NothingLost'
  BY DEF NothingLost
<1>1. CASE YieldDone
  BY <1>1, DoneLoses
<1>2. CASE Events /\ ~YieldDone
  <2>1. phase = "unaired" /\ UNCHANGED fan
    BY <1>2 DEF Events, YieldMeta, AskAirDate, YieldUnaired, YieldNothing, AddTitles, Open,
                GetStream, YieldStream, Pull, Return, Goto, fanVars
  <2> QED BY <2>1 DEF Held, Serving, Steady
<1>3. CASE Leave \/ CloseLeft
  BY <1>3 DEF Leave, CloseLeft, reqVars
<1>4. CASE Finish \/ UNCHANGED vars
  BY <1>4 DEF Finish, vars, reqVars, workVars, fanVars, NothingLost, Streams
<1>5. ASSUME NEW s \in Scrapers, Work(s) PROVE NothingLost'
  <2>1. UNCHANGED <<phase, lines, fan>>
    BY <1>5 DEF Work, Scraped, NextEmbed, Resolved, PutStream, WorkerEnds, WorkerDies,
                WorkerCancelled, reqVars, fanVars
  <2>2. s \in cancelled
    BY <2>1 DEF Safe, Closed
  <2>3. UNCHANGED <<found, died, offered, tried>>
    BY <1>5, <2>2 DEF Work, Scraped, NextEmbed, Resolved, PutStream, WorkerEnds, WorkerDies,
                      WorkerCancelled
  <2> QED BY <2>1, <2>3 DEF NothingLost, Streams
<1> QED BY <1>1, <1>2, <1>3, <1>4, <1>5 DEF Next

\* A response that reaches its done line after a fan-out has passed on every stream any
\* resolver answered with, and tried every embed, unless a worker died: _finish in fan_out
\* puts the sentinel behind everything, for any number of scrapers.
THEOREM NothingIsLost == Spec => []NothingLost
<1>1. Init => Closed /\ Claimed /\ NothingLost
  BY DEF Init, Closed, Claimed, EmbedResolvedOnce, NothingLost
<1> QED BY <1>1, BaseInit, BaseNext, ClosedNext, ClaimedNext, ProtocolInit, ProtocolNext,
           HeldInit, HeldNext, NothingLostNext, PTL DEF Spec, Safe

=============================================================================
