-------------------------------- MODULE Watch --------------------------------
(***************************************************************************)
(* One /watch request: watch_events, fan_out and run_single_scraper of      *)
(* playback_engine/pipeline.py.                                             *)
(*                                                                          *)
(* Every scraper runs as a task of its own, embeds are resolved to streams, *)
(* and the streams reach the consumer through one queue, which a finisher   *)
(* task closes with a sentinel when the last worker has ended.  Tasks       *)
(* interleave where the code awaits.  The consumer may leave at every yield *)
(* and at every await; the generators are then closed one after the other,  *)
(* so fan_out may outlive the request for a while.                          *)
(***************************************************************************)
EXTENDS Naturals, Sequences

CONSTANTS
    Scrapers,       \* ALL_SCRAPERS
    MovieScrapers,  \* those with SUPPORTS_MOVIES
    Embeds, Urls,   \* what scrapers find, and what embeds resolve to
    EmbedLists,     \* the answers a scraper may give
    UrlLists,       \* the answers a resolver may give
    NoMore          \* the sentinel that ends the queue

ASSUME ScraperAssumption == MovieScrapers \subseteq Scrapers
ASSUME AnswerAssumption == /\ EmbedLists \subseteq Seq(Embeds) /\ <<>> \in EmbedLists
                           /\ UrlLists \subseteq Seq(Urls)
                           /\ NoMore \notin Urls \cup Embeds

VARIABLES
    movie,       \* media_type == "movie"
    phase,       \* where watch_events is
    lines,       \* the lines it has yielded
    current,     \* the stream it is minting a ticket for
    count,
    recorded,    \* the outcomes given to metrics.record_watch
    fan,         \* fan_out: "unborn", "open", "closed"
    finisher,    \* the task that closes the queue: "waiting", "done", "cancelled"
    at,          \* scraper -> where its task is
    todo,        \* scraper -> embeds it has found and not looked at
    embed,       \* scraper -> the embed it is resolving
    got,         \* scraper -> streams of that embed it has not put yet
    died,        \* scrapers whose task ended in an exception
    cancelled,   \* scrapers whose task was told to stop
    seenEmbeds, seenUrls, queue,
    offered,     \* history: embeds some scraper has found
    tried,       \* history: embeds whose resolver has answered
    found        \* history: streams some resolver has answered with

reqVars  == <<movie, phase, lines, current, count, recorded>>
workVars == <<at, todo, embed, got, died, seenEmbeds, seenUrls, offered, tried, found>>
fanVars  == <<fan, finisher, cancelled>>
vars == <<reqVars, workVars, fanVars, queue>>

Contract == INSTANCE WatchContract

Outcomes == {"unaired", "streams", "empty", "abandoned"}
Nothing  == {NoMore}

TypeOK ==
    /\ movie \in BOOLEAN
    /\ phase \in {"context", "meta", "airdate", "unaired", "titles", "wait", "ticket",
                  "sent", "done", "over", "left"}
    /\ lines \in Seq(Contract!Line) /\ count \in Nat
    /\ current \in (IF phase = "ticket" THEN Urls ELSE Nothing)
    /\ recorded \in Seq(Outcomes)
    /\ fan \in {"unborn", "open", "closed"}
    /\ finisher \in {"waiting", "done", "cancelled"}
    /\ at \in [Scrapers -> {"unborn", "scrape", "resolve", "put", "ended"}]
    /\ todo \in [Scrapers -> Seq(Embeds)]
    /\ embed \in [Scrapers -> Embeds \cup Nothing]
    /\ \A s \in Scrapers : at[s] = "resolve" <=> embed[s] # NoMore
    /\ got \in [Scrapers -> Seq(Urls)]
    /\ died \subseteq Scrapers /\ cancelled \subseteq Scrapers
    /\ seenEmbeds \subseteq Embeds /\ seenUrls \subseteq Urls
    /\ queue \in Seq(Urls \cup Nothing)
    /\ offered \subseteq Embeds /\ tried \subseteq Embeds /\ found \subseteq Urls

Init ==
    /\ movie \in BOOLEAN /\ phase = "context" /\ lines = <<>> /\ count = 0
    /\ current = NoMore /\ recorded = <<>>
    /\ fan = "unborn" /\ finisher = "waiting" /\ queue = <<>>
    /\ at = [s \in Scrapers |-> "unborn"] /\ todo = [s \in Scrapers |-> <<>>]
    /\ embed = [s \in Scrapers |-> NoMore] /\ got = [s \in Scrapers |-> <<>>]
    /\ died = {} /\ cancelled = {}
    /\ seenEmbeds = {} /\ seenUrls = {}
    /\ offered = {} /\ tried = {} /\ found = {}

Yield(line) == lines' = Append(lines, line)

Record(outcome) == recorded' = Append(recorded, outcome)

Elements(q) == {q[i] : i \in DOMAIN q}

\* Mutant: the sentinel is taken for a stream.
SentinelMissed == FALSE

\* queue.get() would return the sentinel.
Sentinel == queue # <<>> /\ Head(queue) = NoMore

-----------------------------------------------------------------------------
(* The workers.                                                            *)

\* The scraper answers; one that has no movies, finds nothing or throws answers nothing.
Scraped(s) ==
    /\ at[s] = "scrape" /\ s \notin cancelled
    /\ \E list \in EmbedLists :
          /\ (movie /\ s \notin MovieScrapers) => list = <<>>
          /\ todo' = [todo EXCEPT ![s] = list]
          /\ offered' = offered \cup Elements(list)
    /\ at' = [at EXCEPT ![s] = "put"]
    /\ UNCHANGED <<reqVars, fanVars, queue, embed, got, died, seenEmbeds, seenUrls, tried,
                   found>>

\* Mutant: an embed is marked only once it has been resolved.
ClaimEmbedLater(e) == UNCHANGED seenEmbeds

ClaimEmbed(e) == seenEmbeds' = seenEmbeds \cup {e}

\* The next embed is claimed for this worker, unless another one has claimed it.
NextEmbed(s) ==
    /\ at[s] = "put" /\ got[s] = <<>> /\ todo[s] # <<>> /\ s \notin cancelled
    /\ LET e == Head(todo[s])
       IN IF e \in seenEmbeds
          THEN UNCHANGED <<at, embed, seenEmbeds>>
          ELSE /\ ClaimEmbed(e)
               /\ embed' = [embed EXCEPT ![s] = e]
               /\ at' = [at EXCEPT ![s] = "resolve"]
    /\ todo' = [todo EXCEPT ![s] = Tail(@)]
    /\ UNCHANGED <<reqVars, fanVars, queue, got, died, seenUrls, offered, tried, found>>

\* resolve_streams returns; a resolver that throws or finds nothing answers nothing.
Resolved(s) ==
    /\ at[s] = "resolve" /\ s \notin cancelled
    /\ \E list \in UrlLists :
          /\ got' = [got EXCEPT ![s] = list]
          /\ found' = found \cup Elements(list)
    /\ tried' = tried \cup {embed[s]}
    /\ embed' = [embed EXCEPT ![s] = NoMore]
    /\ at' = [at EXCEPT ![s] = "put"]
    /\ UNCHANGED <<reqVars, fanVars, queue, todo, died, seenEmbeds, seenUrls, offered>>

\* Mutant: nobody looks whether another worker has put it.
PutAnyway(u) == queue' = Append(queue, u) /\ seenUrls' = seenUrls \cup {u}

\* Mutant: the queue holds one stream, and what does not fit is dropped.
PutIfRoom(u) ==
    /\ queue' = IF u \in seenUrls \/ queue # <<>> THEN queue ELSE Append(queue, u)
    /\ seenUrls' = seenUrls \cup {u}

\* A stream nobody has put yet joins the queue.
Put(u) ==
    /\ queue' = IF u \in seenUrls THEN queue ELSE Append(queue, u)
    /\ seenUrls' = seenUrls \cup {u}

PutStream(s) ==
    /\ at[s] = "put" /\ got[s] # <<>> /\ s \notin cancelled
    /\ Put(Head(got[s]))
    /\ got' = [got EXCEPT ![s] = Tail(@)]
    /\ UNCHANGED <<reqVars, fanVars, at, todo, embed, died, seenEmbeds, offered, tried,
                   found>>

WorkerEnds(s) ==
    /\ at[s] = "put" /\ got[s] = <<>> /\ todo[s] = <<>> /\ s \notin cancelled
    /\ at' = [at EXCEPT ![s] = "ended"]
    /\ UNCHANGED <<reqVars, fanVars, queue, todo, embed, got, died, seenEmbeds, seenUrls,
                   offered, tried, found>>

\* An answer _stream cannot shape ends the worker; the embeds it had left go with it, and
\* the one it had claimed stays claimed.
WorkerDies(s) ==
    /\ at[s] = "resolve" /\ s \notin cancelled
    /\ died' = died \cup {s}
    /\ at' = [at EXCEPT ![s] = "ended"]
    /\ todo' = [todo EXCEPT ![s] = <<>>] /\ embed' = [embed EXCEPT ![s] = NoMore]
    /\ UNCHANGED <<reqVars, fanVars, queue, got, seenEmbeds, seenUrls, offered, tried, found>>

\* CancelledError at the task's next step.
WorkerCancelled(s) ==
    /\ s \in cancelled /\ at[s] # "ended"
    /\ at' = [at EXCEPT ![s] = "ended"]
    /\ todo' = [todo EXCEPT ![s] = <<>>] /\ embed' = [embed EXCEPT ![s] = NoMore]
    /\ got' = [got EXCEPT ![s] = <<>>]
    /\ UNCHANGED <<reqVars, fanVars, queue, died, seenEmbeds, seenUrls, offered, tried, found>>

\* Mutant: the queue is closed when the first worker has ended.
WorkersDoneAny == \E s \in Scrapers : at[s] = "ended"

\* Mutant: gather stops at the first exception.
WorkersDoneWell == \A s \in Scrapers : at[s] = "ended" /\ s \notin died

WorkersDone == \A s \in Scrapers : at[s] = "ended"

\* _finish: gather returns, and the queue is closed.
Finish ==
    /\ fan # "unborn" /\ finisher = "waiting" /\ WorkersDone
    /\ finisher' = "done" /\ queue' = Append(queue, NoMore)
    /\ UNCHANGED <<reqVars, workVars, fan, cancelled>>

-----------------------------------------------------------------------------
(* watch_events.                                                           *)

Goto(from, to) == phase = from /\ phase' = to

\* anilist_context has returned: the meta line.
YieldMeta ==
    /\ Goto("context", "meta") /\ Yield(Contract!Meta)
    /\ UNCHANGED <<movie, current, count, recorded, workVars, fanVars, queue>>

AskAirDate ==
    /\ Goto("meta", "airdate") /\ ~movie
    /\ UNCHANGED <<movie, lines, current, count, recorded, workVars, fanVars, queue>>

\* The episode is not out: recorded, said, and then done with no streams.
YieldUnaired ==
    /\ Goto("airdate", "unaired") /\ Record("unaired") /\ Yield(Contract!Unaired)
    /\ UNCHANGED <<movie, current, count, workVars, fanVars, queue>>

YieldNothing ==
    /\ Goto("unaired", "done") /\ Yield(Contract!Done(0))
    /\ UNCHANGED <<movie, current, count, recorded, workVars, fanVars, queue>>

\* A show AniList does not know is searched under its localized titles too.
AddTitles ==
    /\ Goto("airdate", "titles")
    /\ UNCHANGED <<movie, lines, current, count, recorded, workVars, fanVars, queue>>

\* The first pull of fan_out starts every task.
Open ==
    /\ Goto("titles", "wait") \/ Goto("airdate", "wait") \/ (movie /\ Goto("meta", "wait"))
    /\ fan = "unborn" /\ fan' = "open"
    /\ at' = [s \in Scrapers |-> "scrape"]
    /\ UNCHANGED <<movie, lines, current, count, recorded, todo, embed, got, died, cancelled,
                   finisher, seenEmbeds, seenUrls, queue, offered, tried, found>>

\* queue.get returns a stream, and mint_ticket is awaited for it.
GetStream ==
    /\ Goto("wait", "ticket") /\ queue # <<>> /\ ~Sentinel
    /\ current' = Head(queue) /\ queue' = Tail(queue)
    /\ UNCHANGED <<movie, lines, count, recorded, workVars, fanVars>>

YieldStream ==
    /\ Goto("ticket", "sent") /\ Yield(Contract!Stream(current)) /\ count' = count + 1
    /\ current' = NoMore
    /\ UNCHANGED <<movie, recorded, workVars, fanVars, queue>>

Pull ==
    /\ Goto("sent", "wait")
    /\ UNCHANGED <<movie, lines, current, count, recorded, workVars, fanVars, queue>>

FinisherCancelled == finisher' = IF finisher = "waiting" THEN "cancelled" ELSE finisher

\* Mutant: only the finisher is cancelled.
CancelFinisherOnly == FinisherCancelled /\ UNCHANGED cancelled

\* fan_out's finally.
CancelAll == FinisherCancelled /\ cancelled' = Scrapers

\* The sentinel: fan_out returns, the outcome is recorded, the done line is yielded.
YieldDone ==
    /\ Goto("wait", "done") /\ Sentinel
    /\ queue' = Tail(queue)
    /\ fan' = "closed" /\ CancelAll
    /\ Record(IF count > 0 THEN "streams" ELSE "empty")
    /\ Yield(Contract!Done(count))
    /\ UNCHANGED <<movie, current, count, workVars>>

Return ==
    /\ Goto("done", "over")
    /\ UNCHANGED <<movie, lines, current, count, recorded, workVars, fanVars, queue>>

\* Mutant: watch_events does not remember that it finished.
AbandonedAlways == IF fan # "unborn" THEN Record("abandoned") ELSE UNCHANGED recorded

\* watch_events's finally: left before the fan-out finished.  At the done line it is finished,
\* and before the fan-out there is nothing to record.
Abandoned == IF phase \in {"wait", "ticket", "sent"} THEN Record("abandoned")
             ELSE UNCHANGED recorded

\* The client goes away, or an await before the fan-out throws.  Waiting on the queue, the
\* request closes fan_out on its way out.
Leave ==
    /\ phase \notin {"over", "left"} /\ phase' = "left"
    /\ Abandoned
    /\ IF phase = "wait" THEN fan' = "closed" /\ CancelAll ELSE UNCHANGED fanVars
    /\ current' = NoMore
    /\ UNCHANGED <<movie, lines, count, workVars, queue>>

\* Left elsewhere, fan_out is closed when the event loop finalizes the generator.
CloseLeft ==
    /\ phase = "left" /\ fan = "open"
    /\ fan' = "closed" /\ CancelAll
    /\ UNCHANGED <<reqVars, workVars, queue>>

-----------------------------------------------------------------------------

Work(s) == \/ Scraped(s) \/ NextEmbed(s) \/ Resolved(s) \/ PutStream(s) \/ WorkerEnds(s)
           \/ WorkerDies(s) \/ WorkerCancelled(s)

Events == \/ YieldMeta \/ AskAirDate \/ YieldUnaired \/ YieldNothing \/ AddTitles \/ Open
          \/ GetStream \/ YieldStream \/ Pull \/ YieldDone \/ Return

Next == Events \/ Leave \/ CloseLeft \/ Finish \/ \E s \in Scrapers : Work(s)

Spec == Init /\ [][Next]_vars

\* The event loop runs every task that can go on; scrapers, resolvers and the client's
\* socket all have timeouts, so what is awaited returns.
Fairness == /\ WF_vars(Events) /\ WF_vars(Finish) /\ WF_vars(CloseLeft)
            /\ \A s \in Scrapers : WF_vars(Work(s))

FairSpec == Spec /\ Fairness

-----------------------------------------------------------------------------
(* Properties.                                                             *)

\* "A stream is one meta line, then either one unaired line or zero or more stream lines,
\* then a final done line" (core/contracts.py), with distinct streams and a true count.
KeepsContract == Contract!Spec

Streams == {lines[i].url : i \in {j \in DOMAIN lines : lines[j].type = "stream"}}

\* A response that reaches its done line after a fan-out has passed on every stream any
\* resolver answered with, none left in the queue or with a worker, and every embed any scraper
\* found was resolved, by whichever worker claimed it, except what a worker that died took with it.
NothingLost == phase = "done" /\ fan = "closed" => Streams = found /\ (died = {} => offered = tried)

\* No embed is resolved twice in one request, however many scrapers find it.
EmbedResolvedOnce ==
    \A s \in Scrapers : at[s] = "resolve" =>
        /\ embed[s] \notin tried
        /\ \A o \in Scrapers \ {s} : embed[o] # embed[s]

\* The dashboard counts a request once: never twice, and not as abandoned when it reached
\* its done line.
RecordedOnce ==
    /\ Len(recorded) <= 1
    /\ lines # <<>> /\ lines[Len(lines)].type = "done" =>
           recorded \in {<<"unaired">>, <<"streams">>, <<"empty">>}
    /\ phase \in {"left", "over"} /\ fan # "unborn" => Len(recorded) = 1

\* "Closing the iterator cancels the remaining scrapers" (fan_out): once it is closed, no
\* scraper's answer is taken up and no resolver is asked.
ClosedIsQuiet == [][fan = "closed" => UNCHANGED <<offered, seenEmbeds, tried, seenUrls>>]_vars

\* However its sources fail, a request ends.
RequestEnds == <>(phase \in {"over", "left"})

=============================================================================
