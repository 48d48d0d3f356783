------------------------------ MODULE Collection ------------------------------
(***************************************************************************)
(* MapsCollector driven by the query loop of Pipeline.run: a context and a  *)
(* page for each query, the search, the scrolling, and the walk over the    *)
(* places found, of which each is opened, read, checked and yielded.        *)
(*                                                                          *)
(* Google Maps is outside src/: what it shows is chosen at each step.  The  *)
(* detail panel fills after the click, in its own time, so until it does    *)
(* every read finds the business that was opened before.  A read of a       *)
(* missing element, or on a dead browser, gives nothing and goes on.        *)
(***************************************************************************)
EXTENDS BrowserManager

CONSTANTS Queries,       \* the configured queries, in order
          Feed,          \* the cards of each query, as they load
          Closed,        \* the permanently closed places
          Alike,         \* pairs of places whose names share a token
          MaxTotal,      \* maps.max_total_results; 0 is no limit
          MaxPerQuery,   \* maps.max_results_per_query; 0 is no limit
          IncludeClosed, \* maps.include_permanently_closed
          MaxRounds,     \* max_rounds of _scroll_results
          StallLimit     \* rounds without growth after which it gives up

Query == Range(Queries)
Place == UNION {Range(Feed[q]) : q \in Query}

ASSUME CollectionAssumption ==
    /\ Queries \in Seq(Query)
    /\ \A q \in Query : Feed[q] \in Seq(Place)
    /\ None \notin Place
    /\ Closed \subseteq Place /\ Alike \subseteq Place \X Place
    /\ {MaxTotal, MaxPerQuery} \subseteq Nat
    /\ {MaxRounds, StallLimit} \subseteq Nat \ {0}
    /\ IncludeClosed \in BOOLEAN

VARIABLES
    status,   \* queries table
    pc, qi,   \* where the main thread is, and its query
    raised,   \* the collector raises
    open,     \* which of the context and the page are open
    page,     \* what the search shows
    scroll,   \* _scroll_results: cards loaded, heights seen, stalled rounds
    links,    \* listing_links
    pos,      \* position in them
    onFeed,   \* the page still has the cards of the search
    panel,    \* the business the detail panel shows
    record,   \* data: the place, and whose name and other fields it has
    count,    \* yielded, as far as MaxPerQuery needs it
    total,    \* _yielded_total, as far as MaxTotal needs it
    cut,      \* a limit ended the walk
    handled,  \* places yielded, or left out as closed (for the properties)
    sent      \* records yielded in the session (for the properties)

control == <<status, pc, qi, raised>>
search  == <<open, page, scroll, links>>
view    == <<onFeed, panel>>
limits  == <<count, total, cut>>
ghosts  == <<handled, sent>>
vars    == <<browserVars, control, search, pos, view, record, limits, ghosts>>

NoScroll == [shown |-> 0, heights |-> <<>>, stalled |-> 0]
NoRecord == [place |-> None, name |-> None, fields |-> None,
             closed |-> FALSE, retry |-> "no"]

TypeOK ==
    /\ BrowserTypeOK
    /\ status \in [Query -> {"pending", "done"}]
    /\ pc \in {"stopped", "next", "page", "search", "scroll", "links", "walk",
               "open", "name", "fields", "sentinel", "yield", "teardown", "mark"}
    /\ qi \in 1..Len(Queries) + 1
    /\ raised \in BOOLEAN
    /\ open \subseteq {"context", "page"}
    /\ page \in {"results", "empty", "wall"}
    /\ scroll \in [shown : Nat, heights : Seq(Nat \cup {-1}), stalled : 0..StallLimit]
    /\ links \in Seq(Place) /\ pos \in 1..Len(links) + 1
    /\ onFeed \in BOOLEAN
    /\ panel \in Place \cup {None}
    /\ record \in [place : Place \cup {None}, name : Place \cup {None},
                   fields : Place \cup {None}, closed : BOOLEAN,
                   retry : {"no", "failed", "ok"}]
    /\ count \in 0..MaxPerQuery /\ total \in 0..MaxTotal
    /\ cut \in BOOLEAN
    /\ handled \subseteq Place
    /\ sent \in 0..MaxTotal + 1

Init ==
    /\ BrowserInit
    /\ status = [q \in Query |-> "pending"]
    /\ pc = "stopped" /\ qi = 1 /\ raised = FALSE
    /\ open = {} /\ page = "wall" /\ scroll = NoScroll
    /\ links = <<>> /\ pos = 1
    /\ onFeed = FALSE /\ panel = None /\ record = NoRecord
    /\ count = 0 /\ total = 0 /\ cut = FALSE
    /\ handled = {} /\ sent = 0

Q     == Queries[qi]
Due   == links[pos]
Like(place, name) == name \in {None, place} \/ <<place, name>> \in Alike

-----------------------------------------------------------------------------
(* The query loop *)

\* A new process: what the last one kept in memory is gone.
Start ==
    /\ pc = "stopped"
    /\ pc' = "next" /\ qi' = 1
    /\ UNCHANGED <<browserVars, status, raised, search, pos, view, record,
                   limits, ghosts>>

SkipDoneQuery ==
    /\ pc = "next" /\ qi <= Len(Queries) /\ status[Q] = "done"
    /\ qi' = qi + 1
    /\ UNCHANGED <<browserVars, status, pc, raised, search, pos, view, record,
                   limits, ghosts>>

\* The process ends, of itself or not, and its browser with it.
End ==
    /\ pc # "stopped"
    /\ pc' = "stopped" /\ qi' = 1 /\ raised' = FALSE
    /\ browser' = "none" /\ driver' = FALSE /\ served' = 0 /\ active' = None
    /\ failures' = [p \in Proxy |-> 0] /\ turn' = 0
    /\ open' = {} /\ page' = "wall" /\ scroll' = NoScroll /\ links' = <<>>
    /\ pos' = 1 /\ onFeed' = FALSE /\ panel' = None /\ record' = NoRecord
    /\ count' = 0 /\ total' = 0 /\ cut' = FALSE
    /\ handled' = {} /\ sent' = 0
    /\ UNCHANGED status

\* Mutant: the count of the session starts again with each query.
BeginQueryAnew ==
    /\ count' = 0 /\ cut' = FALSE /\ total' = 0

\* What is local to collect and _collect_on_page.  The total limit is not.
BeginQuery ==
    /\ count' = 0 /\ cut' = FALSE
    /\ UNCHANGED total

OpenContext ==
    /\ pc = "next" /\ qi <= Len(Queries) /\ status[Q] # "done"
    /\ \/ /\ NewContext
          /\ pc' = "page" /\ open' = {"context"}
          /\ UNCHANGED raised
       \/ /\ NewContextRaises \/ LaunchFails
          /\ pc' = "mark" /\ raised' = TRUE
          /\ UNCHANGED open
    /\ BeginQuery
    /\ handled' = {} /\ scroll' = NoScroll /\ links' = <<>> /\ pos' = 1
    /\ UNCHANGED <<status, qi, page, view, record, sent>>

Raise ==
    /\ pc' = "teardown"
    /\ raised' = TRUE

OpenPage ==
    /\ pc = "page"
    /\ \/ /\ Alive
          /\ open' = open \cup {"page"}
          /\ pc' = "search"
          /\ UNCHANGED raised
       \/ Raise /\ UNCHANGED open
    /\ UNCHANGED <<browserVars, status, qi, page, scroll, links, pos, view,
                   record, limits, ghosts>>

\* Mutant: only the page is closed when its creation failed.
TeardownPageOnly ==
    /\ pc = "teardown"
    /\ open' = IF "page" \in open THEN {} ELSE open
    /\ pc' = "mark"
    /\ UNCHANGED <<browserVars, status, qi, raised, page, scroll, links, pos,
                   view, record, limits, ghosts>>

\* The two finally blocks of collect.
Teardown ==
    /\ pc = "teardown"
    /\ open' = {}
    /\ pc' = "mark"
    /\ UNCHANGED <<browserVars, status, qi, raised, page, scroll, links, pos,
                   view, record, limits, ghosts>>

\* Pipeline.run: a query that raised is left for the next run; one that did not
\* is done, and only then may the browser be recycled.
MarkQuery ==
    /\ pc = "mark"
    /\ pc' = "next" /\ qi' = qi + 1 /\ raised' = FALSE
    /\ IF raised
       THEN UNCHANGED <<status, browserVars>>
       ELSE status' = [status EXCEPT ![Q] = "done"] /\ MarkAndRecycle
    /\ UNCHANGED <<search, pos, view, record, limits, ghosts>>

-----------------------------------------------------------------------------
(* The search *)

\* goto, the wait for the feed, the consent wall, the bot challenge.  A wall
\* that could not be dismissed has no cards and no text that says so.
Search ==
    /\ pc = "search"
    /\ \/ Raise /\ UNCHANGED <<failures, page, onFeed, panel>>
       \/ Alive /\ Raise /\ ReportProxyFailure /\ UNCHANGED <<page, onFeed, panel>>
       \/ /\ Alive
          /\ page' \in {"results", "empty", "wall"}
          /\ onFeed' = TRUE /\ panel' = None
          /\ pc' = "scroll"
          /\ UNCHANGED <<failures, raised>>
    /\ UNCHANGED <<browser, driver, served, active, turn, status, qi, open,
                   scroll, links, pos, record, limits, ghosts>>

LastHeight == IF scroll.heights = <<>> THEN -1 ELSE Last(scroll.heights)

\* Mutant: a round without growth counts for good.
StalledAfterEver(height) ==
    IF height = LastHeight THEN scroll.stalled + 1 ELSE scroll.stalled

StalledAfter(height) == IF height = LastHeight THEN scroll.stalled + 1 ELSE 0

\* One round of _scroll_results.  The height stands for the cards loaded; it
\* is -1 when there is no feed or it cannot be read.
ScrollRound ==
    /\ pc = "scroll" /\ Alive
    /\ \E shown \in scroll.shown..(IF page = "results" THEN Len(Feed[Q]) ELSE 0) :
          \/ /\ page = "results" /\ shown = Len(Feed[Q]) \* end of the list
             /\ scroll' = [scroll EXCEPT !.shown = shown]
             /\ pc' = "links"
          \/ \E height \in IF page = "results" THEN {shown, -1} ELSE {-1} :
               /\ scroll' = [shown   |-> shown,
                             heights |-> Append(scroll.heights, height),
                             stalled |-> StalledAfter(height)]
               /\ pc' = IF \/ scroll'.stalled >= StallLimit
                           \/ Len(scroll'.heights) = MaxRounds
                        THEN "links"
                        ELSE "scroll"
    /\ UNCHANGED <<browserVars, status, qi, raised, open, page, links, pos, view,
                   record, limits, ghosts>>

\* The mouse wheel is what remains when the feed cannot be scrolled.
ScrollRaises ==
    /\ pc = "scroll"
    /\ Raise
    /\ scroll' = NoScroll
    /\ UNCHANGED <<browserVars, status, qi, open, page, links, pos, view, record,
                   limits, ghosts>>

\* Mutant: no links is no results.
NoLinksIsDone ==
    /\ pc' = "teardown" /\ UNCHANGED raised

\* No links: done if the page says so, otherwise something is wrong with it.
NoLinks ==
    IF page = "empty" /\ Alive THEN pc' = "teardown" /\ UNCHANGED raised ELSE Raise

\* Some of the first n cards of a query, in some order.
CardsRead(q, n) ==
    UNION { { [i \in 1..k |-> Feed[q][at[i]]] : at \in {f \in [1..k -> 1..n] : IsInjective(f)} }
            : k \in 0..n }

\* _extract_listing_links goes through the cards once for each selector.  A card
\* without a link is left out, and an error, a time-out of get_attribute say,
\* ends the pass of its selector: any of the loaded cards may be missing.
ExtractLinks ==
    /\ pc = "links"
    /\ \E found \in IF Alive THEN CardsRead(Q, scroll.shown) ELSE {<<>>} :
          IF found = <<>>
          THEN NoLinks /\ UNCHANGED links
          ELSE links' = found /\ pc' = "walk" /\ UNCHANGED raised
    /\ scroll' = [NoScroll EXCEPT !.shown = scroll.shown]
    /\ UNCHANGED <<browserVars, status, qi, open, page, pos, view, record, limits,
                   ghosts>>

-----------------------------------------------------------------------------
(* The walk over the places *)

TotalReached == MaxTotal > 0 /\ total >= MaxTotal

\* Mutant: one more than the limit.
PerQueryExceeded == MaxPerQuery > 0 /\ count > MaxPerQuery

PerQueryReached == MaxPerQuery > 0 /\ count >= MaxPerQuery

\* The head of the loop.  A limit ends the query like the end of its links.
Walk ==
    /\ pc = "walk"
    /\ IF pos > Len(links) \/ TotalReached \/ PerQueryReached
       THEN /\ pc' = "teardown"
            /\ cut' = (pos <= Len(links))
            /\ UNCHANGED record
       ELSE /\ pc' = "open"
            /\ record' = [NoRecord EXCEPT !.place = Due]
            /\ UNCHANGED cut
    /\ UNCHANGED <<browserVars, status, qi, raised, search, pos, view, count, total,
                   ghosts>>

\* _click_to_open: the card is there and the URL changed.
ClickToOpen ==
    /\ pc = "open" /\ Alive /\ onFeed
    /\ pc' = "name"
    /\ UNCHANGED <<browserVars, status, qi, raised, search, pos, view, record,
                   limits, ghosts>>

\* Otherwise the page goes to the URL of the place, and leaves the cards.
GotoPlace ==
    /\ pc = "open" /\ Alive
    /\ pc' = "name"
    /\ onFeed' = FALSE /\ panel' = None
    /\ UNCHANGED <<browserVars, status, qi, raised, search, pos, record, limits,
                   ghosts>>

\* The proxy is blamed, and data is returned with nothing in it.
GotoFails ==
    /\ pc = "open"
    /\ ReportProxyFailure
    /\ pc' = "yield"
    /\ UNCHANGED <<browser, driver, served, active, turn, status, qi, raised,
                   search, pos, view, record, limits, ghosts>>

\* The panel changes to the place that was opened.
PanelFills ==
    /\ pc \in {"name", "fields", "sentinel", "yield"} /\ Alive
    /\ panel # Due
    /\ panel' = Due
    /\ UNCHANGED <<browserVars, control, search, pos, onFeed, record, limits, ghosts>>

Seen == IF Alive THEN panel ELSE None

\* Each of the waits before it, the identity guard too, gives up after a time.
ReadName ==
    /\ pc = "name"
    /\ record' = [record EXCEPT !.name = Seen]
    /\ pc' = "fields"
    /\ UNCHANGED <<browserVars, status, qi, raised, search, pos, view, limits,
                   ghosts>>

\* The text "Permanently closed" is looked for in the whole page, cards included.
ReadFields ==
    /\ pc = "fields"
    /\ \E closed \in BOOLEAN :
          /\ closed => /\ Alive
                       /\ \/ panel \in Closed
                          \/ onFeed /\ Closed \cap Range(Feed[Q]) # {}
          /\ panel \in Closed /\ Alive => closed
          /\ record' = [record EXCEPT !.fields = Seen, !.closed = closed]
    /\ pc' = "sentinel"
    /\ UNCHANGED <<browserVars, status, qi, raised, search, pos, view, limits,
                   ghosts>>

\* Mutant: the name is compared, and the page is not loaded again.
SentinelWarns ==
    /\ pc = "sentinel"
    /\ pc' = "yield"
    /\ UNCHANGED <<browserVars, status, qi, raised, search, pos, view, record,
                   limits, ghosts>>

\* The coherence check.  A name unlike the place's is read again, alone, after
\* a fresh load, if that does not fail.
Sentinel ==
    /\ pc = "sentinel"
    /\ pc' = "yield"
    /\ \/ /\ Like(Due, record.name)
          /\ UNCHANGED <<view, record>>
       \/ /\ ~Like(Due, record.name)
          /\ record' = [record EXCEPT !.retry = "failed"]
          /\ UNCHANGED view
       \/ /\ ~Like(Due, record.name) /\ Alive
          /\ onFeed' = FALSE /\ panel' \in {Due, None}
          /\ record' = [record EXCEPT !.retry = "ok", !.name = panel']
    /\ UNCHANGED <<browserVars, status, qi, raised, search, pos, limits, ghosts>>

\* A record without a name gets the one in the URL of its place; a permanently
\* closed place is left out; anything else is yielded.
Yield ==
    /\ pc = "yield"
    /\ pc' = "walk" /\ pos' = pos + 1
    /\ handled' = handled \cup {Due}
    /\ IF record.closed /\ ~IncludeClosed
       THEN UNCHANGED <<count, total, sent>>
       ELSE /\ count' = IF MaxPerQuery = 0 THEN 0 ELSE count + 1
            /\ total' = IF MaxTotal = 0 THEN 0 ELSE total + 1
            /\ sent' = IF MaxTotal = 0 THEN 0 ELSE sent + 1
    /\ UNCHANGED <<browserVars, status, qi, raised, search, view, record, cut>>

-----------------------------------------------------------------------------

Meanwhile ==
    /\ pc # "stopped"
    /\ EnrichmentFails \/ BrowserDies
    /\ UNCHANGED <<control, search, pos, view, record, limits, ghosts>>

Next ==
    \/ Start \/ SkipDoneQuery \/ End
    \/ OpenContext \/ OpenPage \/ Teardown \/ MarkQuery
    \/ Search \/ ScrollRound \/ ScrollRaises \/ ExtractLinks
    \/ Walk \/ ClickToOpen \/ GotoPlace \/ GotoFails \/ PanelFills
    \/ ReadName \/ ReadFields \/ Sentinel \/ Yield
    \/ Meanwhile

Spec == Init /\ [][Next]_vars

-----------------------------------------------------------------------------
(* Properties *)

\* However a query ends, a failed creation of its page included, its page and
\* context are closed before the next one starts (the two finally blocks of
\* MapsCollector.collect).
NothingLeftOpen == pc \in {"stopped", "next", "mark"} => open = {}

\* A query is marked done only when its page said that it has no results, or at
\* least one of its links was read and every link read was opened and yielded or
\* left out as closed, or a limit ended the walk: never after a challenge, a
\* wall, a page without links or an error.  Cards whose links were not read are
\* not visited, and the query is done without them (_extract_listing_links).
DoneMeansVisited ==
    [][\A q \in Query :
          status[q] # "done" /\ status'[q] = "done" =>
             page = "empty" \/ (links # <<>> /\ (cut \/ handled = Range(links)))]_vars

\* The total limit holds over all queries of the session, the other one over
\* each query; and a walk is cut short only when one of them is used up.
LimitsHold ==
    /\ MaxTotal > 0 => sent <= MaxTotal
    /\ TotalReached => sent = MaxTotal
    /\ MaxPerQuery > 0 => count <= MaxPerQuery
    /\ cut => TotalReached \/ (MaxPerQuery > 0 /\ count = MaxPerQuery)

\* Scrolling gives up on a feed that has more cards only after the last round,
\* or when the last StallLimit rounds all saw the height of the round before
\* them (_scroll_results: a lazy feed is given time).
PatientScroll ==
    pc = "links" /\ page = "results" /\ scroll.shown < Len(Feed[Q]) =>
       \/ Len(scroll.heights) = MaxRounds
       \/ LET heights == <<-1>> \o scroll.heights
              n == Len(heights)
          IN  n > StallLimit /\ \A i \in n - StallLimit..n : heights[i] = heights[n]

\* A proxy that failed too often carries a new context only when every proxy of
\* the pool has, however the workers report failures in between.
EvictedStaysOut ==
    [][open = {} /\ "context" \in open' /\ active' # None
       => failures[active'] < Threshold \/ \A p \in Proxy : failures[p] = Threshold]_vars

\* A record has the name of a business unlike its place only if the fresh load
\* of its page failed (the coherence sentinel of _open_and_extract).
UnlikeNameRetried ==
    pc = "yield" => Like(record.place, record.name) \/ record.retry = "failed"

\* Violated.  The fields of a record are never those of another business.
NoForeignFields == pc = "yield" => record.fields \in {None, record.place}
=============================================================================
