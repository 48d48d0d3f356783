--------------------------- MODULE CollectionProofs ---------------------------
(***************************************************************************)
(* Proofs about Collection for any queries, feeds, proxies and limits: type *)
(* correctness, that no context stays open, that the limits hold, that a    *)
(* name unlike its place was asked for again, that scrolling is patient,    *)
(* that only a query whose places were visited is marked done, and that the *)
(* collector never runs in circles.                                         *)
(***************************************************************************)
EXTENDS Collection, SequenceTheorems, TLAPS

AtPlace == {"open", "name", "fields", "sentinel", "yield"}
Before  == {"page", "search", "scroll", "links"}

\* There is a query wherever there is a context.
QueryOK == pc \notin {"stopped", "next"} => qi \in 1..Len(Queries)

\* The heights that are compared: none has been seen before the first.
Heights == <<-1>> \o scroll.heights

\* The stalled rounds are the last ones, and none of them saw the feed grow.
Stalled ==
    /\ scroll.stalled < Len(Heights)
    /\ \A i \in Len(Heights) - scroll.stalled..Len(Heights) :
          Heights[i] = Heights[Len(Heights)]

ScrollOK ==
    /\ pc \notin {"stopped", "next"} => scroll.shown <= Len(Feed[Q])
    /\ pc \in {"page", "search"} => scroll = NoScroll
    /\ pc = "scroll" => /\ Stalled
                        /\ scroll.stalled < StallLimit
                        /\ Len(scroll.heights) < MaxRounds

\* The walk is over the links, in order, and has handled those behind it.
WalkOK ==
    /\ pc \in Before => pos = 1 /\ handled = {}
    /\ pc \in AtPlace \cup {"walk"} =>
          /\ links # <<>>
          /\ handled = {links[i] : i \in 1..pos - 1}
    /\ pc \in AtPlace => pos <= Len(links) /\ record.place = Due
    /\ pc = "open" => record.name = None

\* Why the walk of a query has ended.
EndOK ==
    pc \in {"teardown", "mark"} =>
        \/ raised
        \/ page = "empty"
        \/ links # <<>> /\ (cut \/ handled = Range(links))

LimitReached == TotalReached \/ PerQueryReached

\* A place is opened only below both limits, which count what was yielded, and
\* a walk was cut short only by one of them.
LimitsOK ==
    /\ sent = total
    /\ pc \in AtPlace => ~LimitReached
    /\ cut => LimitReached

IInv ==
    /\ TypeOK /\ QueryOK /\ NothingLeftOpen /\ ScrollOK /\ WalkOK /\ EndOK
    /\ LimitsOK /\ UnlikeNameRetried /\ PatientScroll
-----------------------------------------------------------------------------
(* Constants *)

LEMMA Constants ==
    /\ MaxTotal \in Nat /\ MaxPerQuery \in Nat
    /\ MaxRounds \in Nat \ {0} /\ StallLimit \in Nat \ {0}
    /\ Threshold \in Nat \ {0} /\ Turns \in Nat \ {0}
    /\ None \notin Place /\ None \notin Proxy
    /\ Queries \in Seq(Query)
    /\ \A q \in Query : Feed[q] \in Seq(Place)
<1>1. {MaxTotal, MaxPerQuery} \subseteq Nat /\ {MaxRounds, StallLimit} \subseteq Nat \ {0}
  BY CollectionAssumption, Zenon
<1>2. /\ Threshold \in Nat \ {0} /\ Turns \in Nat \ {0} /\ None \notin Proxy
  BY ProxyAssumption, Zenon DEF Proxy
<1>3. /\ None \notin Place /\ Queries \in Seq(Query)
      /\ \A q \in Query : Feed[q] \in Seq(Place)
  BY CollectionAssumption, Zenon
<1> QED
  BY <1>1, <1>2, <1>3

LEMMA Remainder == \A a \in Nat, b \in Nat \ {0} : a % b \in 0..b - 1
  OBVIOUS

\* The feed of a configured query is a list of places.
LEMMA FeedType ==
    ASSUME NEW i \in 1..Len(Queries)
    PROVE  Queries[i] \in Query /\ Feed[Queries[i]] \in Seq(Place)
<1>1. Queries[i] \in Query
  BY Constants, ElementOfSeq
<1> QED
  BY <1>1, Constants

-----------------------------------------------------------------------------
(* The browser and its proxies *)

LEMMA ResolveType ==
    ASSUME BrowserTypeOK, NEW proxy, Resolve(proxy)
    PROVE  turn' \in 0..Turns - 1
<1>1. turn' = turn \/ turn' = (turn + 1) % Turns
  BY Zenon DEF Resolve
<1>2. turn \in 0..Turns - 1
  BY Zenon DEF BrowserTypeOK
<1>3. turn + 1 \in Nat /\ Turns \in Nat \ {0}
  BY <1>2, Constants
<1>4. (turn + 1) % Turns \in 0..Turns - 1
  BY <1>3, Remainder
<1> QED
  BY ONLY <1>1, <1>2, <1>4

\* A proxy that is chosen is one of the candidates: it has not failed too often,
\* or every proxy has.
LEMMA ResolveSound ==
    ASSUME BrowserTypeOK, NEW proxy, Resolve(proxy), proxy # None
    PROVE  /\ proxy \in Proxy
           /\ failures[proxy] < Threshold \/ \A p \in Proxy : failures[p] = Threshold
<1>1. PICK i \in Candidates : proxy = Pool[i]
  BY Zenon DEF Resolve, IsCandidate
<1>2. i \in DOMAIN Pool /\ proxy \in Proxy
  BY <1>1 DEF Candidates, Healthy, Proxy, Range
<1>3. CASE Healthy = {}
  <2>1. \A p \in Proxy : ~(failures[p] < Threshold)
    BY <1>3 DEF Healthy, Proxy, Range
  <2>2. \A p \in Proxy : failures[p] \in 0..Threshold
    BY DEF BrowserTypeOK
  <2>3. \A p \in Proxy : failures[p] = Threshold
    BY <2>1, <2>2, Constants
  <2> QED
    BY <1>2, <2>3
<1>4. CASE Healthy # {}
  BY <1>1, <1>2, <1>4 DEF Candidates, Healthy
<1> QED
  BY <1>3, <1>4

LEMMA FailedType ==
    ASSUME BrowserTypeOK, NEW proxy \in Proxy \cup {None}
    PROVE  Failed(proxy) \in [Proxy -> 0..Threshold]
<1>1. failures \in [Proxy -> 0..Threshold] /\ Threshold \in Nat
  BY Constants DEF BrowserTypeOK
<1>2. CASE proxy = None \/ failures[proxy] = Threshold
  BY <1>1, <1>2 DEF Failed
<1>3. CASE ~(proxy = None \/ failures[proxy] = Threshold)
  <2>1. proxy \in Proxy /\ failures[proxy] + 1 \in 0..Threshold
    BY <1>1, <1>3
  <2>2. Failed(proxy) = [failures EXCEPT ![proxy] = failures[proxy] + 1]
    BY <1>3 DEF Failed
  <2> QED
    BY <1>1, <2>1, <2>2
<1> QED
  BY <1>2, <1>3

\* Whatever BrowserManager, its proxies and the workers do keeps the types.
LEMMA BrowserTypes ==
    ASSUME BrowserTypeOK,
           \/ NewContext \/ NewContextRaises \/ LaunchFails \/ MarkAndRecycle
           \/ EnrichmentFails \/ BrowserDies \/ UNCHANGED browserVars
           \/ ReportProxyFailure /\ UNCHANGED <<browser, driver, served, active, turn>>
    PROVE  BrowserTypeOK'
<1> USE DEF BrowserTypeOK, browserVars, proxies
<1>1. CASE NewContext \/ NewContextRaises
  <2>1. PICK proxy \in Proxy \cup {None} :
            Resolve(proxy) /\ active' = IF proxy = None THEN active ELSE proxy
    BY <1>1, Zenon DEF NewContext, NewContextRaises
  <2>2. turn' \in 0..Turns - 1
    BY <2>1, ResolveType
  <2>3. active' \in Proxy \cup {None}
    BY <2>1
  <2>4. UNCHANGED <<served, failures>>
    BY <1>1, Zenon DEF NewContext, NewContextRaises
  <2>5. browser' \in {"none", "up", "dead"} /\ driver' \in BOOLEAN
    <3>1. CASE NewContext
      BY <3>1, Zenon DEF NewContext
    <3>2. CASE NewContextRaises
      BY <3>2, Zenon DEF NewContextRaises
    <3> QED
      BY <1>1, <3>1, <3>2
  <2> QED
    BY <2>2, <2>3, <2>4, <2>5
<1>2. CASE LaunchFails \/ BrowserDies \/ UNCHANGED browserVars
  <2>1. driver' \in BOOLEAN
    BY <1>2, Zenon DEF LaunchFails, BrowserDies
  <2> QED
    BY <1>2, <2>1 DEF LaunchFails, BrowserDies
<1>3. CASE MarkAndRecycle
  <2>1. /\ driver' \in BOOLEAN /\ browser' \in {"none", "up", "dead"}
        /\ UNCHANGED <<active, proxies>>
    BY <1>3, Zenon DEF MarkAndRecycle
  <2>2. served' \in {0, served, served + 1}
    BY <1>3, Zenon DEF MarkAndRecycle
  <2> QED
    BY <2>1, <2>2
<1>4. CASE EnrichmentFails
  <2>1. PICK proxy \in Proxy \cup {None} : Resolve(proxy) /\ failures' = Failed(proxy)
    BY <1>4, Zenon DEF EnrichmentFails
  <2>2. turn' \in 0..Turns - 1 /\ failures' \in [Proxy -> 0..Threshold]
    BY <2>1, ResolveType, FailedType
  <2>3. UNCHANGED <<browser, driver, served, active>>
    BY <1>4, Zenon DEF EnrichmentFails
  <2> QED
    BY <2>2, <2>3
<1>5. CASE ReportProxyFailure /\ UNCHANGED <<browser, driver, served, active, turn>>
  <2>1. failures' \in [Proxy -> 0..Threshold]
    BY <1>5, FailedType DEF ReportProxyFailure
  <2> QED
    BY <1>5, <2>1
<1> QED
  BY <1>1, <1>2, <1>3, <1>4, <1>5
LEMMA BrowserStep == BrowserTypeOK /\ [Next]_vars => BrowserTypeOK'
<1> SUFFICES ASSUME BrowserTypeOK, [Next]_vars PROVE BrowserTypeOK'
  OBVIOUS
<1>1. CASE End
  <2>1. 0 \in 0..Threshold /\ 0 \in 0..Turns - 1 /\ 0 \in Nat
    BY Constants
  <2> QED
    BY <1>1, <2>1 DEF End, BrowserTypeOK
<1>2. CASE OpenContext
  BY <1>2, BrowserTypes, Zenon DEF OpenContext
<1>3. CASE MarkQuery
  BY <1>3, BrowserTypes, Zenon DEF MarkQuery
<1>4. CASE Search
  <2>1. /\ UNCHANGED <<browser, driver, served, active, turn>>
        /\ failures' = failures \/ ReportProxyFailure
    BY <1>4, Zenon DEF Search
  <2>2. CASE failures' = failures
    BY <2>1, <2>2 DEF BrowserTypeOK
  <2> QED
    BY <2>1, <2>2, BrowserTypes
<1>5. CASE GotoFails
  <2>1. ReportProxyFailure /\ UNCHANGED <<browser, driver, served, active, turn>>
    BY <1>5, Zenon DEF GotoFails
  <2> QED
    BY <2>1, BrowserTypes
<1>6. CASE Meanwhile
  BY <1>6, BrowserTypes, Zenon DEF Meanwhile
<1>7. ASSUME UNCHANGED browserVars PROVE BrowserTypeOK'
  BY <1>7, BrowserTypes
<1>8. ASSUME \/ Start \/ SkipDoneQuery \/ OpenPage \/ Teardown \/ ScrollRound
             \/ ScrollRaises \/ ExtractLinks \/ Walk \/ ClickToOpen \/ GotoPlace
             \/ PanelFills \/ ReadName \/ ReadFields \/ Sentinel \/ Yield
             \/ UNCHANGED vars
      PROVE  UNCHANGED browserVars
  BY <1>8, Zenon DEF Start, SkipDoneQuery, OpenPage, Teardown, ScrollRound,
     ScrollRaises, ExtractLinks, Walk, ClickToOpen, GotoPlace, PanelFills, ReadName,
     ReadFields, Sentinel, Yield, vars
<1> QED
  BY <1>1, <1>2, <1>3, <1>4, <1>5, <1>6, <1>7, <1>8, Zenon DEF Next

-----------------------------------------------------------------------------
(* The query a step is about *)

LEMMA QueryStep == TypeOK /\ QueryOK /\ [Next]_vars => QueryOK'
<1> SUFFICES ASSUME TypeOK, QueryOK, [Next]_vars PROVE QueryOK'
  OBVIOUS
<1>0. Len(Queries) \in Nat /\ qi \in 1..Len(Queries) + 1
  BY Constants, LenProperties DEF TypeOK
<1>1. CASE Start \/ SkipDoneQuery \/ End \/ MarkQuery
  <2>1. pc' \in {"stopped", "next"}
    BY <1>1 DEF Start, SkipDoneQuery, End, MarkQuery
  <2> QED
    BY <2>1 DEF QueryOK
<1>2. CASE OpenContext
  <2>1. qi' = qi /\ qi <= Len(Queries)
    BY <1>2, Zenon DEF OpenContext
  <2> QED
    BY <1>0, <2>1 DEF QueryOK
<1>3. CASE qi' = qi /\ pc \notin {"stopped", "next"}
  BY <1>3 DEF QueryOK
<1>4. CASE UNCHANGED <<qi, pc>>
  BY <1>4 DEF QueryOK
<1>5. ASSUME \/ OpenPage \/ Teardown \/ Search \/ ScrollRound \/ ScrollRaises
             \/ ExtractLinks \/ Walk \/ ClickToOpen \/ GotoPlace \/ GotoFails
             \/ ReadName \/ ReadFields \/ Sentinel \/ Yield
      PROVE  qi' = qi /\ pc \notin {"stopped", "next"}
  BY <1>5 DEF OpenPage, Teardown, Search, ScrollRound, ScrollRaises, ExtractLinks,
     Walk, ClickToOpen, GotoPlace, GotoFails, ReadName, ReadFields, Sentinel, Yield
<1>6. ASSUME Meanwhile \/ PanelFills \/ UNCHANGED vars PROVE UNCHANGED <<qi, pc>>
  BY <1>6, Zenon DEF Meanwhile, PanelFills, vars, control
<1> QED
  BY <1>1, <1>2, <1>3, <1>4, <1>5, <1>6, Zenon DEF Next

\* A step about a query, and the feed that has its places.
LEMMA InQuery ==
    ASSUME TypeOK, QueryOK, pc \notin {"stopped", "next"}
    PROVE  Q \in Query /\ Feed[Q] \in Seq(Place)
BY FeedType DEF QueryOK, Q

\* What a walk may still have to open is a place.
LEMMA DueIsPlace ==
    ASSUME TypeOK, pos <= Len(links)
    PROVE  Due \in Place
<1>1. links \in Seq(Place) /\ pos \in 1..Len(links) + 1 /\ Len(links) \in Nat
  BY LenProperties DEF TypeOK
<1>2. pos \in 1..Len(links)
  BY <1>1
<1> QED
  BY <1>1, <1>2, ElementOfSeq DEF Due
-----------------------------------------------------------------------------
(* Type correctness *)

Rounds == [shown : Nat, heights : Seq(Nat \cup {-1}), stalled : 0..StallLimit]
Record == [place : Place \cup {None}, name : Place \cup {None},
           fields : Place \cup {None}, closed : BOOLEAN,
           retry : {"no", "failed", "ok"}]

LEMMA NothingYet ==
    /\ NoScroll \in Rounds /\ NoRecord \in Record
    /\ <<>> \in Seq(Place) /\ 1 \in 1..Len(<<>>) + 1
    /\ 1 \in 1..Len(Queries) + 1
    /\ 0 \in 0..MaxPerQuery /\ 0 \in 0..MaxTotal /\ 0 \in 0..MaxTotal + 1
<1>1. NoScroll \in Rounds
  <2>1. 0 \in 0..StallLimit /\ <<>> \in Seq(Nat \cup {-1})
    BY Constants, EmptySeq
  <2> QED
    BY <2>1 DEF NoScroll, Rounds
<1>2. NoRecord \in Record
  BY DEF NoRecord, Record
<1>3. <<>> \in Seq(Place) /\ 1 \in 1..Len(<<>>) + 1
  BY EmptySeq
<1>4. 1 \in 1..Len(Queries) + 1
  BY Constants, LenProperties
<1>5. 0 \in 0..MaxPerQuery /\ 0 \in 0..MaxTotal /\ 0 \in 0..MaxTotal + 1
  BY Constants
<1> QED
  BY <1>1, <1>2, <1>3, <1>4, <1>5

LEMMA RoundType ==
    ASSUME TypeOK, QueryOK, ScrollOK, ScrollRound
    PROVE  scroll' \in Rounds
<1>0. Q \in Query /\ Feed[Q] \in Seq(Place) /\ scroll \in Rounds
  BY InQuery DEF ScrollRound, TypeOK, Rounds
<1>1. PICK shown \in scroll.shown..(IF page = "results" THEN Len(Feed[Q]) ELSE 0) :
          \/ scroll' = [scroll EXCEPT !.shown = shown]
          \/ \E height \in {shown, -1} :
                scroll' = [shown   |-> shown,
                           heights |-> Append(scroll.heights, height),
                           stalled |-> StalledAfter(height)]
  BY Zenon DEF ScrollRound
<1>2. shown \in Nat
  <2>1. scroll.shown \in Nat /\ Len(Feed[Q]) \in Nat
    BY <1>0, LenProperties DEF Rounds
  <2> QED
    BY <2>1
<1>3. CASE scroll' = [scroll EXCEPT !.shown = shown]
  BY <1>0, <1>2, <1>3 DEF Rounds
<1>4. ASSUME NEW height \in {shown, -1},
             scroll' = [shown   |-> shown,
                        heights |-> Append(scroll.heights, height),
                        stalled |-> StalledAfter(height)]
      PROVE  scroll' \in Rounds
  <2>1. height \in Nat \cup {-1} /\ scroll.heights \in Seq(Nat \cup {-1})
    BY <1>0, <1>2 DEF Rounds
  <2>2. Append(scroll.heights, height) \in Seq(Nat \cup {-1})
    BY ONLY <2>1, AppendProperties
  <2>3. StalledAfter(height) \in 0..StallLimit
    <3>1. scroll.stalled \in Nat /\ scroll.stalled < StallLimit /\ StallLimit \in Nat
      BY <1>0, Constants DEF ScrollOK, ScrollRound, Rounds
    <3>2. StalledAfter(height) \in {scroll.stalled + 1, 0}
      BY DEF StalledAfter
    <3> QED
      BY ONLY <3>1, <3>2
  <2> QED
    BY <1>2, <1>4, <2>2, <2>3 DEF Rounds
<1> QED
  BY <1>1, <1>3, <1>4

\* Whichever cards were read, their links are to places.
LEMMA FoundType ==
    ASSUME TypeOK, QueryOK, ScrollOK, pc = "links", NEW found \in CardsRead(Q, scroll.shown)
    PROVE  found \in Seq(Place)
<1>1. Feed[Q] \in Seq(Place) /\ Len(Feed[Q]) \in Nat
  BY InQuery, LenProperties
<1>2. scroll.shown \in Nat /\ scroll.shown <= Len(Feed[Q])
  BY DEF TypeOK, ScrollOK
<1>3. PICK k \in 0..scroll.shown : \E at \in [1..k -> 1..scroll.shown] :
          found = [i \in 1..k |-> Feed[Q][at[i]]]
  BY Zenon DEF CardsRead
<1>4. PICK at \in [1..k -> 1..scroll.shown] : found = [i \in 1..k |-> Feed[Q][at[i]]]
  BY <1>3
<1>5. \A i \in 1..k : Feed[Q][at[i]] \in Place
  <2>1. SUFFICES ASSUME NEW i \in 1..k PROVE Feed[Q][at[i]] \in Place
    OBVIOUS
  <2>2. at[i] \in 1..Len(Feed[Q])
    BY <1>1, <1>2
  <2> QED
    BY <1>1, <2>2, ElementOfSeq
<1> QED
  BY <1>4, <1>5
LEMMA TypeStep ==
    TypeOK /\ QueryOK /\ ScrollOK /\ WalkOK /\ LimitsOK /\ [Next]_vars => TypeOK'
<1> SUFFICES ASSUME TypeOK, QueryOK, ScrollOK, WalkOK, LimitsOK, [Next]_vars
             PROVE  TypeOK'
  OBVIOUS
<1>0. BrowserTypeOK'
  BY BrowserStep DEF TypeOK
<1> USE <1>0, NothingYet DEF TypeOK, control, search, view, limits, ghosts, Rounds, Record
<1>1. CASE Start
  BY <1>1 DEF Start
<1>2. CASE SkipDoneQuery
  BY <1>2 DEF SkipDoneQuery
<1>3. CASE End
  BY <1>3 DEF End
<1>4. CASE OpenContext
  <2>1. /\ open' \subseteq {"context", "page"} /\ pc' \in {"page", "mark"}
        /\ raised' \in BOOLEAN
    BY <1>4, Zenon DEF OpenContext
  <2>2. count' = 0 /\ cut' = FALSE /\ total' = total
    BY <1>4 DEF OpenContext, BeginQuery
  <2>3. /\ handled' = {} /\ scroll' = NoScroll /\ links' = <<>> /\ pos' = 1
        /\ UNCHANGED <<status, qi, page, view, record, sent>>
    BY <1>4 DEF OpenContext
  <2> QED
    BY <2>1, <2>2, <2>3, ZenonT(40)
<1>5. CASE OpenPage
  <2>1. /\ open' \subseteq {"context", "page"} /\ pc' \in {"search", "teardown"}
        /\ raised' \in BOOLEAN
    BY <1>5, Zenon DEF OpenPage, Raise
  <2> QED
    BY <1>5, <2>1 DEF OpenPage
<1>6. CASE Teardown
  BY <1>6 DEF Teardown
<1>7. CASE MarkQuery
  <2>1. qi + 1 \in 1..Len(Queries) + 1
    BY <1>7, Constants, LenProperties DEF MarkQuery, QueryOK
  <2>2. status' \in [Query -> {"pending", "done"}]
    BY <1>7 DEF MarkQuery
  <2> QED
    BY <1>7, <2>1, <2>2, ZenonT(40) DEF MarkQuery
<1>8. CASE Search
  <2>1. /\ page' \in {"results", "empty", "wall"} /\ onFeed' \in BOOLEAN
        /\ panel' \in Place \cup {None} /\ raised' \in BOOLEAN
        /\ pc' \in {"scroll", "teardown"}
    BY <1>8, Zenon DEF Search, Raise
  <2> QED
    BY <1>8, <2>1 DEF Search
<1>9. CASE ScrollRound
  <2>1. scroll' \in Rounds
    BY <1>9, RoundType
  <2>2. pc' \in {"scroll", "links"}
    BY <1>9, Zenon DEF ScrollRound
  <2>3. UNCHANGED <<browserVars, status, qi, raised, open, page, links, pos, view,
                    record, limits, ghosts>>
    BY <1>9, Zenon DEF ScrollRound
  <2> QED
    BY <2>1, <2>2, <2>3, SMTT(40)
<1>10. CASE ScrollRaises
  BY <1>10 DEF ScrollRaises, Raise
<1>11. CASE ExtractLinks
  <2>1. \/ links' = links \/ links' = <<>>
        \/ \E found \in CardsRead(Q, scroll.shown) : links' = found
    BY <1>11, Zenon DEF ExtractLinks
  <2>2. links' \in Seq(Place) /\ pos = 1
    BY <1>11, <2>1, FoundType DEF ExtractLinks, WalkOK, Before
  <2>3. pos' \in 1..Len(links') + 1
    BY <1>11, <2>2, LenProperties DEF ExtractLinks
  <2>4. pc' \in {"teardown", "walk"} /\ raised' \in BOOLEAN
    BY <1>11, Zenon DEF ExtractLinks, NoLinks, Raise
  <2>5. scroll' \in Rounds
    BY <1>11 DEF ExtractLinks, NoScroll
  <2>6. UNCHANGED <<browserVars, status, qi, open, page, pos, view, record, limits, ghosts>>
    BY <1>11, Zenon DEF ExtractLinks
  <2> QED
    BY <2>2, <2>3, <2>4, <2>5, <2>6, SMTT(40)
<1>12. CASE Walk
  <2>1. cut' \in BOOLEAN /\ pc' \in {"teardown", "open"}
    <3>1. cut' = cut \/ cut' = (pos <= Len(links))
      BY <1>12, Zenon DEF Walk
    <3>2. cut \in BOOLEAN /\ (pos <= Len(links)) \in BOOLEAN
      OBVIOUS
    <3>3. cut' \in BOOLEAN
      BY <3>1, <3>2, Zenon
    <3> QED
      BY <1>12, <3>3, Zenon DEF Walk
  <2>2. record' \in Record
    <3>1. CASE pos > Len(links)
      BY <1>12, <3>1 DEF Walk
    <3>2. CASE ~(pos > Len(links))
      <4>1. Due \in Place
        BY <3>2, DueIsPlace, LenProperties
      <4>2. record' = record \/ record' = [NoRecord EXCEPT !.place = Due]
        BY <1>12, Zenon DEF Walk
      <4> QED
        BY <4>1, <4>2, ZenonT(40)
    <3> QED
      BY <3>1, <3>2
  <2> QED
    BY <1>12, <2>1, <2>2 DEF Walk
<1>13. CASE ClickToOpen
  BY <1>13 DEF ClickToOpen
<1>14. CASE GotoPlace
  BY <1>14, ZenonT(40) DEF GotoPlace
<1>15. CASE GotoFails
  BY <1>15 DEF GotoFails
<1>16. CASE PanelFills
  <2>1. Due \in Place
    BY <1>16, DueIsPlace DEF PanelFills, WalkOK, AtPlace
  <2> QED
    BY <1>16, <2>1 DEF PanelFills
<1>17. CASE ReadName \/ ReadFields
  <2>1. Seen \in Place \cup {None}
    BY DEF Seen
  <2>2. CASE ReadName
    BY <2>1, <2>2 DEF ReadName
  <2>3. CASE ReadFields
    <3>1. PICK closed \in BOOLEAN :
              record' = [record EXCEPT !.fields = Seen, !.closed = closed]
      BY <2>3, Zenon DEF ReadFields
    <3>2. record' \in Record
      BY <2>1, <3>1
    <3> QED
      BY <2>3, <3>2 DEF ReadFields
  <2> QED
    BY <1>17, <2>2, <2>3
<1>18. CASE Sentinel
  <2>1. Due \in Place
    BY <1>18, DueIsPlace DEF Sentinel, WalkOK, AtPlace
  <2>2. panel' \in Place \cup {None} /\ onFeed' \in BOOLEAN
    <3>1. panel' \in {panel, Due, None}
      BY <1>18, Zenon DEF Sentinel
    <3>2. onFeed' \in BOOLEAN
      BY <1>18, Zenon DEF Sentinel
    <3>3. panel' \in Place \cup {None}
      BY <2>1, <3>1
    <3> QED
      BY <3>2, <3>3, Zenon
  <2>3. record' \in Record
    <3>1. PICK name \in Place \cup {None} : name = panel'
      BY <2>2, Zenon
    <3>2. \/ record' = record
          \/ record' = [record EXCEPT !.retry = "failed"]
          \/ record' = [record EXCEPT !.retry = "ok", !.name = name]
      BY <1>18, <3>1, Zenon DEF Sentinel
    <3>3. record \in Record
      BY Zenon
    <3>4. "failed" \in {"no", "failed", "ok"} /\ "ok" \in {"no", "failed", "ok"}
      OBVIOUS
    <3> QED
      BY ONLY <3>2, <3>3, <3>4, name \in Place \cup {None} DEF Record
  <2>4. /\ pc' = "yield"
        /\ UNCHANGED <<browserVars, status, qi, raised, search, pos, limits, ghosts>>
    BY <1>18, Zenon DEF Sentinel
  <2> QED
    BY <2>2, <2>3, <2>4
<1>19. CASE Yield
  <2>1. pos <= Len(links) /\ Due \in Place
    BY <1>19, DueIsPlace DEF Yield, WalkOK, AtPlace
  <2>2. pos + 1 \in 1..Len(links) + 1
    BY <2>1, LenProperties
  <2>3. handled' \subseteq Place
    BY <1>19, <2>1 DEF Yield
  <2>4. /\ count' \in 0..MaxPerQuery /\ total' \in 0..MaxTotal /\ sent' \in 0..MaxTotal + 1
    <3>1. /\ MaxTotal \in Nat /\ MaxPerQuery \in Nat
          /\ sent = total /\ total \in 0..MaxTotal /\ count \in 0..MaxPerQuery
          /\ MaxTotal > 0 => ~(total >= MaxTotal)
          /\ MaxPerQuery > 0 => ~(count >= MaxPerQuery)
      BY <1>19, Constants DEF Yield, LimitsOK, LimitReached, AtPlace, TotalReached,
         PerQueryReached
    <3>2. \/ count' = count /\ total' = total /\ sent' = sent
          \/ /\ count' = IF MaxPerQuery = 0 THEN 0 ELSE count + 1
             /\ total' = IF MaxTotal = 0 THEN 0 ELSE total + 1
             /\ sent' = IF MaxTotal = 0 THEN 0 ELSE sent + 1
      BY <1>19, Zenon DEF Yield
    <3> QED
      BY ONLY <3>1, <3>2
  <2> QED
    BY <1>19, <2>2, <2>3, <2>4, SMTT(40) DEF Yield
<1>20. CASE Meanwhile
  BY <1>20 DEF Meanwhile
<1>21. CASE UNCHANGED vars
  BY <1>21 DEF vars
<1> QED
  BY <1>1, <1>2, <1>3, <1>4, <1>5, <1>6, <1>7, <1>8, <1>9, <1>10, <1>11, <1>12,
     <1>13, <1>14, <1>15, <1>16, <1>17, <1>18, <1>19, <1>20, <1>21, Zenon DEF Next
-----------------------------------------------------------------------------
(* What is left open *)

LEMMA OpenStep == NothingLeftOpen /\ [Next]_vars => NothingLeftOpen'
<1> SUFFICES ASSUME NothingLeftOpen, [Next]_vars PROVE NothingLeftOpen'
  OBVIOUS
<1> USE DEF NothingLeftOpen
<1>1. CASE End \/ Teardown
  BY <1>1 DEF End, Teardown
<1>2. CASE Start \/ SkipDoneQuery \/ MarkQuery
  <2>1. pc \in {"stopped", "next", "mark"} /\ open' = open
    BY <1>2, Zenon DEF Start, SkipDoneQuery, MarkQuery, search
  <2> QED
    BY <2>1
<1>3. CASE OpenContext
  <2>1. pc = "next" /\ (pc' = "page" \/ open' = open)
    BY <1>3, Zenon DEF OpenContext
  <2> QED
    BY <2>1
<1>4. CASE UNCHANGED <<pc, open>>
  BY <1>4
<1>5. ASSUME \/ OpenPage \/ Search \/ ScrollRound \/ ScrollRaises \/ ExtractLinks
             \/ Walk \/ ClickToOpen \/ GotoPlace \/ GotoFails \/ ReadName
             \/ ReadFields \/ Sentinel \/ Yield
      PROVE  pc' \in {"search", "scroll", "links", "walk", "open", "name", "fields",
                      "sentinel", "yield", "teardown"}
  BY <1>5, Zenon DEF OpenPage, Search, ScrollRound, ScrollRaises, ExtractLinks, NoLinks,
     Walk, ClickToOpen, GotoPlace, GotoFails, ReadName, ReadFields, Sentinel, Yield, Raise
<1>6. ASSUME PanelFills \/ Meanwhile \/ UNCHANGED vars PROVE UNCHANGED <<pc, open>>
  BY <1>6, Zenon DEF PanelFills, Meanwhile, vars, control, search
<1> QED
  BY <1>1, <1>2, <1>3, <1>4, <1>5, <1>6 DEF Next

-----------------------------------------------------------------------------
(* Scrolling *)

\* The heights compared are those seen, after the -1 there is before the first.
LEMMA HeightsAre ==
    ASSUME NEW S, -1 \in S, NEW hs \in Seq(S)
    PROVE  /\ Len(<<-1>> \o hs) = Len(hs) + 1 /\ Len(hs) \in Nat
           /\ (<<-1>> \o hs)[1] = -1
           /\ \A i \in 1..Len(hs) : (<<-1>> \o hs)[i + 1] = hs[i]
<1>1. <<-1>> \in Seq(S) /\ Len(<<-1>>) = 1 /\ <<-1>>[1] = -1 /\ Len(hs) \in Nat
  BY LenProperties
<1>2. /\ Len(<<-1>> \o hs) = Len(<<-1>>) + Len(hs)
      /\ \A i \in 1..Len(<<-1>>) + Len(hs) :
            (<<-1>> \o hs)[i] = IF i <= Len(<<-1>>) THEN <<-1>>[i] ELSE hs[i - Len(<<-1>>)]
  BY ONLY <1>1, ConcatProperties
<1>3. (<<-1>> \o hs)[1] = -1
  BY <1>1, <1>2
<1>4. \A i \in 1..Len(hs) : (<<-1>> \o hs)[i + 1] = hs[i]
  BY <1>1, <1>2
<1> QED
  BY <1>1, <1>2, <1>3, <1>4

\* A round that sees the last height makes the stalled tail longer; any other
\* begins it anew.
LEMMA OneMoreRound ==
    ASSUME NEW S, -1 \in S, NEW hs \in Seq(S), NEW h \in S, NEW k \in Nat, NEW l,
           k < Len(<<-1>> \o hs),
           \A i \in Len(<<-1>> \o hs) - k..Len(<<-1>> \o hs) :
              (<<-1>> \o hs)[i] = (<<-1>> \o hs)[Len(<<-1>> \o hs)],
           l = IF h = (IF hs = <<>> THEN -1 ELSE Last(hs)) THEN k + 1 ELSE 0
    PROVE  /\ l < Len(<<-1>> \o Append(hs, h))
           /\ \A i \in Len(<<-1>> \o Append(hs, h)) - l..Len(<<-1>> \o Append(hs, h)) :
                 (<<-1>> \o Append(hs, h))[i]
                     = (<<-1>> \o Append(hs, h))[Len(<<-1>> \o Append(hs, h))]
<1>1. PICK H : H = <<-1>> \o hs
  OBVIOUS
<1>2. PICK G : G = <<-1>> \o Append(hs, h)
  OBVIOUS
<1>3. PICK n \in Nat : n = Len(hs)
  BY LenProperties
<1>4. Append(hs, h) \in Seq(S) /\ Len(Append(hs, h)) = n + 1
  BY <1>3, AppendProperties
<1>5. /\ \A i \in 1..n : Append(hs, h)[i] = hs[i]
      /\ Append(hs, h)[n + 1] = h
  BY <1>3, AppendProperties
<1>6. /\ Len(H) = n + 1 /\ H[1] = -1
      /\ \A i \in 1..n : H[i + 1] = hs[i]
  BY <1>1, <1>3, HeightsAre
<1>7. /\ Len(G) = n + 2 /\ G[1] = -1
      /\ \A i \in 1..n + 1 : G[i + 1] = Append(hs, h)[i]
  BY <1>2, <1>4, HeightsAre
<1>8. G[n + 2] = h
  <2>1. n + 1 \in 1..n + 1 /\ n + 1 + 1 = n + 2
    OBVIOUS
  <2> QED
    BY ONLY <1>5, <1>7, <2>1
<1>9. \A i \in 1..n + 1 : G[i] = H[i]
  <2> SUFFICES ASSUME NEW i \in 1..n + 1, i # 1 PROVE G[i] = H[i]
    BY <1>6, <1>7
  <2>1. i - 1 \in 1..n /\ i - 1 \in 1..n + 1 /\ i - 1 + 1 = i
    OBVIOUS
  <2> QED
    BY ONLY <1>5, <1>6, <1>7, <2>1
<1>10. (IF hs = <<>> THEN -1 ELSE Last(hs)) = H[n + 1]
  <2>1. CASE hs = <<>>
    BY <1>3, <1>6, <2>1
  <2>2. CASE hs # <<>>
    <3>1. n \in 1..n
      BY <1>3, <2>2, EmptySeq
    <3> QED
      BY <1>3, <1>6, <2>2, <3>1 DEF Last
  <2> QED
    BY <2>1, <2>2
<1>11. k < n + 1 /\ \A i \in n + 1 - k..n + 1 : H[i] = H[n + 1]
  <2>1. k < Len(H) /\ \A i \in Len(H) - k..Len(H) : H[i] = H[Len(H)]
    BY <1>1, Zenon
  <2>2. Len(H) = n + 1
    BY <1>6
  <2> QED
    BY ONLY <2>1, <2>2
<1>12. l < n + 2 /\ \A i \in n + 2 - l..n + 2 : G[i] = G[n + 2]
  <2>1. CASE h = H[n + 1]
    <3>1. l = k + 1
      BY <1>10, <2>1
    <3>2. ASSUME NEW i \in n + 2 - l..n + 2 PROVE G[i] = G[n + 2]
      <4>1. i = n + 2 \/ (i \in n + 1 - k..n + 1 /\ i \in 1..n + 1)
        BY <1>11, <3>1
      <4> QED
        BY <1>8, <1>9, <1>11, <2>1, <4>1
    <3>3. l < n + 2
      BY <1>11, <3>1
    <3> QED
      BY <3>2, <3>3
  <2>2. CASE h # H[n + 1]
    <3>1. l = 0
      BY <1>10, <2>2
    <3> QED
      BY <3>1
  <2> QED
    BY <2>1, <2>2
<1>13. l < Len(G) /\ \A i \in Len(G) - l..Len(G) : G[i] = G[Len(G)]
  <2>1. Len(G) = n + 2
    BY <1>7
  <2> QED
    BY <1>12, <2>1
<1> QED
  BY <1>2, <1>13, Zenon
\* A round ends the list, or sees one more height.
LEMMA RoundOutcome ==
    ASSUME TypeOK, QueryOK, ScrollOK, ScrollRound
    PROVE  /\ scroll'.shown <= Len(Feed[Q])
           /\ \/ pc' = "links" /\ page = "results" /\ scroll'.shown = Len(Feed[Q])
              \/ /\ Stalled'
                 /\ pc' = "links" => \/ scroll'.stalled >= StallLimit
                                     \/ Len(scroll'.heights) = MaxRounds
                 /\ pc' # "links" => /\ scroll'.stalled < StallLimit
                                     /\ Len(scroll'.heights) < MaxRounds
<1>0. /\ Q \in Query /\ Feed[Q] \in Seq(Place) /\ Len(Feed[Q]) \in Nat
      /\ scroll \in Rounds /\ scroll' \in Rounds
      /\ MaxRounds \in Nat /\ StallLimit \in Nat
  BY InQuery, LenProperties, RoundType, Constants DEF ScrollRound, TypeOK, Rounds
<1>1. PICK shown \in scroll.shown..(IF page = "results" THEN Len(Feed[Q]) ELSE 0) :
          \/ /\ page = "results" /\ shown = Len(Feed[Q])
             /\ scroll' = [scroll EXCEPT !.shown = shown]
             /\ pc' = "links"
          \/ \E height \in IF page = "results" THEN {shown, -1} ELSE {-1} :
               /\ scroll' = [shown   |-> shown,
                             heights |-> Append(scroll.heights, height),
                             stalled |-> StalledAfter(height)]
               /\ pc' = IF \/ scroll'.stalled >= StallLimit
                           \/ Len(scroll'.heights) = MaxRounds
                        THEN "links"
                        ELSE "scroll"
  BY Zenon DEF ScrollRound
<1>2. shown \in Nat /\ shown <= Len(Feed[Q])
  <2>1. scroll.shown \in Nat
    BY <1>0 DEF Rounds
  <2> QED
    BY <1>0, <2>1
<1>3. CASE /\ page = "results" /\ shown = Len(Feed[Q])
           /\ scroll' = [scroll EXCEPT !.shown = shown]
           /\ pc' = "links"
  <2>1. scroll'.shown = shown
    BY <1>0, <1>3 DEF Rounds
  <2> QED
    BY <1>2, <1>3, <2>1
<1>4. ASSUME NEW height \in IF page = "results" THEN {shown, -1} ELSE {-1},
             scroll' = [shown   |-> shown,
                        heights |-> Append(scroll.heights, height),
                        stalled |-> StalledAfter(height)],
             pc' = IF \/ scroll'.stalled >= StallLimit
                      \/ Len(scroll'.heights) = MaxRounds
                   THEN "links"
                   ELSE "scroll"
      PROVE  /\ scroll'.shown = shown /\ Stalled'
             /\ pc' = "links" => \/ scroll'.stalled >= StallLimit
                                 \/ Len(scroll'.heights) = MaxRounds
             /\ pc' # "links" => /\ scroll'.stalled < StallLimit
                                 /\ Len(scroll'.heights) < MaxRounds
  <2>1. /\ scroll'.shown = shown /\ scroll'.heights = Append(scroll.heights, height)
        /\ scroll'.stalled = StalledAfter(height)
    BY ONLY <1>4
  <2>2. PICK hs \in Seq(Nat \cup {-1}) : hs = scroll.heights
    BY <1>0 DEF Rounds
  <2>3. PICK k \in Nat : k = scroll.stalled
    BY <1>0 DEF Rounds
  <2>4. PICK l : l = StalledAfter(height)
    OBVIOUS
  <2>5. height \in Nat \cup {-1} /\ -1 \in Nat \cup {-1}
    BY <1>2
  <2>6. l = IF height = (IF hs = <<>> THEN -1 ELSE Last(hs)) THEN k + 1 ELSE 0
    BY <2>2, <2>3, <2>4, Zenon DEF StalledAfter, LastHeight
  <2>7. /\ k < Len(<<-1>> \o hs)
        /\ \A i \in Len(<<-1>> \o hs) - k..Len(<<-1>> \o hs) :
              (<<-1>> \o hs)[i] = (<<-1>> \o hs)[Len(<<-1>> \o hs)]
    BY <2>2, <2>3, Zenon DEF ScrollOK, ScrollRound, Stalled, Heights
  <2>8. /\ l < Len(<<-1>> \o Append(hs, height))
        /\ \A i \in Len(<<-1>> \o Append(hs, height)) - l..Len(<<-1>> \o Append(hs, height)) :
              (<<-1>> \o Append(hs, height))[i]
                  = (<<-1>> \o Append(hs, height))[Len(<<-1>> \o Append(hs, height))]
    BY ONLY <2>5, <2>6, <2>7, OneMoreRound
  <2>9. Stalled'
    BY <2>1, <2>2, <2>4, <2>8, Zenon DEF Stalled, Heights
  <2>10. Len(scroll'.heights) \in Nat /\ Len(scroll'.heights) <= MaxRounds
    <3>1. Len(hs) \in Nat /\ Len(Append(hs, height)) = Len(hs) + 1
      BY ONLY <2>5, AppendProperties, LenProperties
    <3>2. Len(hs) < MaxRounds
      BY <2>2, Zenon DEF ScrollOK, ScrollRound
    <3>3. Len(scroll'.heights) = Len(hs) + 1
      BY <2>1, <2>2, <3>1, Zenon
    <3> QED
      BY ONLY <1>0, <3>1, <3>2, <3>3
  <2>11. scroll'.stalled \in Nat
    BY <1>0 DEF Rounds
  <2>12. pc' = "links" => \/ scroll'.stalled >= StallLimit
                          \/ Len(scroll'.heights) = MaxRounds
    BY <1>4, Zenon
  <2>13. pc' # "links" => /\ ~(scroll'.stalled >= StallLimit)
                          /\ Len(scroll'.heights) # MaxRounds
    BY <1>4, Zenon
  <2>14. pc' # "links" => /\ scroll'.stalled < StallLimit
                          /\ Len(scroll'.heights) < MaxRounds
    BY ONLY <1>0, <2>10, <2>11, <2>13
  <2> QED
    BY <2>1, <2>9, <2>12, <2>14, Zenon
<1>5. CASE \E height \in IF page = "results" THEN {shown, -1} ELSE {-1} :
               /\ scroll' = [shown   |-> shown,
                             heights |-> Append(scroll.heights, height),
                             stalled |-> StalledAfter(height)]
               /\ pc' = IF \/ scroll'.stalled >= StallLimit
                           \/ Len(scroll'.heights) = MaxRounds
                        THEN "links"
                        ELSE "scroll"
  <2>1. /\ scroll'.shown = shown /\ Stalled'
        /\ pc' = "links" => \/ scroll'.stalled >= StallLimit
                            \/ Len(scroll'.heights) = MaxRounds
        /\ pc' # "links" => /\ scroll'.stalled < StallLimit
                            /\ Len(scroll'.heights) < MaxRounds
    BY <1>4, <1>5, Zenon
  <2> QED
    BY <1>2, <2>1
<1> QED
  BY <1>1, <1>3, <1>5, Zenon

LEMMA ScrollStep == TypeOK /\ QueryOK /\ ScrollOK /\ [Next]_vars => ScrollOK'
<1> SUFFICES ASSUME TypeOK, QueryOK, ScrollOK, [Next]_vars PROVE ScrollOK'
  OBVIOUS
<1>0. NoScroll.shown = 0 /\ NoScroll.stalled = 0 /\ NoScroll.heights = <<>>
  BY DEF NoScroll
<1>1. CASE Start \/ SkipDoneQuery \/ End \/ MarkQuery
  <2>1. pc' \in {"stopped", "next"}
    BY <1>1, Zenon DEF Start, SkipDoneQuery, End, MarkQuery
  <2> QED
    BY <2>1 DEF ScrollOK
<1>2. CASE OpenContext
  <2>1. /\ pc' \in {"page", "mark"} /\ scroll' = NoScroll /\ qi' = qi
        /\ qi \in 1..Len(Queries) + 1 /\ qi <= Len(Queries)
    BY <1>2, Zenon DEF OpenContext, TypeOK
  <2>2. Len(Feed[Q]) \in Nat
    <3>1. qi \in 1..Len(Queries)
      BY <2>1, Constants, LenProperties
    <3>2. Feed[Q] \in Seq(Place)
      BY <3>1, FeedType DEF Q
    <3> QED
      BY <3>2, LenProperties
  <2>3. Q' = Q
    BY <2>1 DEF Q
  <2> QED
    BY <1>0, <2>1, <2>2, <2>3 DEF ScrollOK
<1>3. CASE Search
  <2>1. /\ pc = "search" /\ pc' \in {"scroll", "teardown"} /\ scroll' = scroll /\ qi' = qi
    BY <1>3, Zenon DEF Search, Raise
  <2>2. scroll = NoScroll
    BY <2>1 DEF ScrollOK
  <2>3. Stalled'
    <3>1. /\ Len(<<-1>> \o <<>>) = 1
          /\ \A i \in 1 - 0..1 : (<<-1>> \o <<>>)[i] = (<<-1>> \o <<>>)[1]
      OBVIOUS
    <3>2. scroll'.heights = <<>> /\ scroll'.stalled = 0
      BY <1>0, <2>1, <2>2
    <3> QED
      BY <3>1, <3>2 DEF Stalled, Heights
  <2>4. Len(scroll'.heights) = 0 /\ scroll'.stalled = 0 /\ 0 < StallLimit /\ 0 < MaxRounds
    BY <1>0, <2>1, <2>2, Constants
  <2>5. Q' = Q
    BY <2>1 DEF Q
  <2> QED
    BY <2>1, <2>3, <2>4, <2>5 DEF ScrollOK
<1>4. CASE ScrollRound
  <2>1. pc = "scroll" /\ pc' \in {"scroll", "links"} /\ qi' = qi
    BY <1>4, Zenon DEF ScrollRound
  <2>2. Q' = Q
    BY <2>1 DEF Q
  <2> QED
    BY <1>4, <2>1, <2>2, RoundOutcome DEF ScrollOK
<1>5. CASE ScrollRaises \/ ExtractLinks
  <2>1. /\ pc \notin {"stopped", "next"} /\ pc' \in {"teardown", "walk"} /\ qi' = qi
        /\ scroll' = NoScroll \/ scroll' = [NoScroll EXCEPT !.shown = scroll.shown]
    BY <1>5, Zenon DEF ScrollRaises, ExtractLinks, NoLinks, Raise
  <2>2. scroll'.shown \in {0, scroll.shown}
    BY <2>1 DEF NoScroll
  <2>3. Q' = Q
    BY <2>1 DEF Q
  <2>4. Len(Feed[Q]) \in Nat
    BY <2>1, InQuery, LenProperties
  <2> QED
    BY <2>1, <2>2, <2>3, <2>4 DEF ScrollOK
<1>6. CASE OpenPage
  <2>1. /\ pc = "page" /\ pc' \in {"search", "teardown"} /\ UNCHANGED <<scroll, qi>>
    BY <1>6, Zenon DEF OpenPage, Raise
  <2>2. Q' = Q
    BY <2>1 DEF Q
  <2> QED
    BY <2>1, <2>2 DEF ScrollOK
<1>7. CASE UNCHANGED <<scroll, qi>> /\ pc \notin {"stopped", "next"}
           /\ pc' \notin {"page", "search", "scroll"}
  <2>1. Q' = Q
    BY <1>7 DEF Q
  <2> QED
    BY <1>7, <2>1 DEF ScrollOK
<1>8. CASE UNCHANGED <<pc, scroll, qi>>
  BY <1>8 DEF ScrollOK, Stalled, Heights, Q
<1>9. ASSUME \/ Teardown \/ Walk \/ ClickToOpen \/ GotoPlace \/ GotoFails
             \/ ReadName \/ ReadFields \/ Sentinel \/ Yield
      PROVE  UNCHANGED <<scroll, qi>> /\ pc \notin {"stopped", "next"}
             /\ pc' \notin {"page", "search", "scroll"}
  BY <1>9 DEF Teardown, Walk, ClickToOpen, GotoPlace, GotoFails, ReadName,
     ReadFields, Sentinel, Yield, search
<1>10. ASSUME PanelFills \/ Meanwhile \/ UNCHANGED vars PROVE UNCHANGED <<pc, scroll, qi>>
  BY <1>10, Zenon DEF PanelFills, Meanwhile, vars, control, search
<1> QED
  BY <1>1, <1>2, <1>3, <1>4, <1>5, <1>6, <1>7, <1>8, <1>9, <1>10, Zenon DEF Next
LEMMA PatientStep ==
    TypeOK /\ QueryOK /\ ScrollOK /\ PatientScroll /\ [Next]_vars => PatientScroll'
<1> SUFFICES ASSUME TypeOK, QueryOK, ScrollOK, PatientScroll, [Next]_vars
             PROVE  PatientScroll'
  OBVIOUS
<1>1. CASE ScrollRound
  <2>1. UNCHANGED <<page, qi>> /\ pc = "scroll"
    BY <1>1, Zenon DEF ScrollRound
  <2>2. Q' = Q
    BY <2>1 DEF Q
  <2>3. CASE scroll'.shown = Len(Feed[Q])
    <3>1. Len(Feed[Q]) \in Nat
      BY <2>1, InQuery, LenProperties
    <3> QED
      BY <2>2, <2>3, <3>1 DEF PatientScroll
  <2>4. CASE pc' # "links"
    BY <2>4 DEF PatientScroll
  <2>5. CASE pc' = "links" /\ Len(scroll'.heights) = MaxRounds
    BY <2>5 DEF PatientScroll
  <2>6. CASE Stalled' /\ scroll'.stalled >= StallLimit
    <3>1. scroll' \in Rounds
      BY <1>1, RoundType
    <3>2. scroll'.heights \in Seq(Nat \cup {-1}) /\ scroll'.stalled \in Nat /\ StallLimit \in Nat
      BY <3>1, Constants DEF Rounds
    <3>3. PICK n \in Nat : n = Len(<<-1>> \o scroll'.heights)
      <4>1. -1 \in Nat \cup {-1}
        OBVIOUS
      <4> QED
        BY <3>2, <4>1, HeightsAre
    <3>4. /\ scroll'.stalled < n
          /\ \A i \in n - scroll'.stalled..n :
                (<<-1>> \o scroll'.heights)[i] = (<<-1>> \o scroll'.heights)[n]
      BY <2>6, <3>3, Zenon DEF Stalled, Heights
    <3>5. n > StallLimit /\ \A i \in n - StallLimit..n : i \in n - scroll'.stalled..n
      BY <2>6, <3>2, <3>4
    <3>6. /\ n > StallLimit
          /\ \A i \in n - StallLimit..n :
                (<<-1>> \o scroll'.heights)[i] = (<<-1>> \o scroll'.heights)[n]
      BY <3>4, <3>5, Zenon
    <3> QED
      BY <3>3, <3>6, Zenon DEF PatientScroll
  <2> QED
    BY <1>1, <2>3, <2>4, <2>5, <2>6, RoundOutcome, Zenon
<1>2. CASE UNCHANGED <<pc, page, scroll, qi>>
  BY <1>2 DEF PatientScroll, Q
<1>3. CASE pc' # "links"
  BY <1>3 DEF PatientScroll
<1>4. ASSUME \/ Start \/ SkipDoneQuery \/ End \/ MarkQuery \/ OpenContext \/ OpenPage
             \/ Search \/ ScrollRaises \/ ExtractLinks \/ Teardown \/ Walk
             \/ ClickToOpen \/ GotoPlace \/ GotoFails \/ ReadName \/ ReadFields
             \/ Sentinel \/ Yield
      PROVE  pc' # "links"
  <2>1. pc' \in {"stopped", "next", "mark", "page", "search", "teardown", "scroll",
                 "walk", "open", "name", "yield", "fields", "sentinel"}
           \/ SkipDoneQuery
    BY <1>4, Zenon DEF Start, End, MarkQuery, OpenContext, OpenPage, Search,
       ScrollRaises, ExtractLinks, NoLinks, Teardown, Walk, ClickToOpen, GotoPlace,
       GotoFails, ReadName, ReadFields, Sentinel, Yield, Raise
  <2> QED
    BY <2>1 DEF SkipDoneQuery
<1>5. ASSUME PanelFills \/ Meanwhile \/ UNCHANGED vars
      PROVE  UNCHANGED <<pc, page, scroll, qi>>
  BY <1>5, Zenon DEF PanelFills, Meanwhile, vars, control, search
<1> QED
  BY <1>1, <1>2, <1>3, <1>4, <1>5, Zenon DEF Next

-----------------------------------------------------------------------------
(* The walk *)

LEMMA WalkStep == TypeOK /\ QueryOK /\ ScrollOK /\ WalkOK /\ [Next]_vars => WalkOK'
<1> SUFFICES ASSUME TypeOK, QueryOK, ScrollOK, WalkOK, [Next]_vars PROVE WalkOK'
  OBVIOUS
<1> USE DEF Before, AtPlace
<1>1. CASE Start \/ SkipDoneQuery \/ End \/ MarkQuery \/ Teardown \/ ScrollRaises
  <2>1. pc' \in {"stopped", "next", "mark", "teardown"}
    BY <1>1, Zenon DEF Start, SkipDoneQuery, End, MarkQuery, Teardown, ScrollRaises, Raise
  <2> QED
    BY <2>1 DEF WalkOK
<1>2. CASE OpenContext
  <2>1. pc' \in {"page", "mark"} /\ pos' = 1 /\ handled' = {}
    BY <1>2, Zenon DEF OpenContext
  <2> QED
    BY <2>1 DEF WalkOK
<1>3. CASE OpenPage \/ Search \/ ScrollRound
  <2>1. /\ pc \in {"page", "search", "scroll"} /\ UNCHANGED <<pos, handled>>
        /\ pc' \in {"search", "scroll", "links", "teardown"}
    BY <1>3, Zenon DEF OpenPage, Search, ScrollRound, Raise, ghosts
  <2> QED
    BY <2>1 DEF WalkOK
<1>4. CASE ExtractLinks
  <2>1. /\ pc = "links" /\ UNCHANGED <<pos, handled, qi>>
        /\ \/ pc' = "teardown"
           \/ pc' = "walk" /\ links' # <<>>
    BY <1>4, Zenon DEF ExtractLinks, NoLinks, Raise, ghosts
  <2>2. pos = 1 /\ handled = {}
    BY <2>1 DEF WalkOK
  <2>3. handled' = {links'[i] : i \in 1..pos' - 1}
    BY <2>1, <2>2
  <2> QED
    BY <2>1, <2>3 DEF WalkOK
<1>5. CASE Walk
  <2>1. /\ pc = "walk" /\ UNCHANGED <<pos, handled, qi, links, scroll>>
        /\ \/ pc' = "teardown"
           \/ /\ pc' = "open" /\ ~(pos > Len(links))
              /\ record' = [NoRecord EXCEPT !.place = Due]
    BY <1>5, Zenon DEF Walk, search, ghosts
  <2>2. Due' = Due
    BY <2>1 DEF Due
  <2>3. record' = [NoRecord EXCEPT !.place = Due] => record'.place = Due /\ record'.name = None
    BY DEF NoRecord
  <2>4. pos \in Nat /\ Len(links) \in Nat
    BY LenProperties DEF TypeOK
  <2> QED
    BY <2>1, <2>2, <2>3, <2>4 DEF WalkOK
<1>6. CASE \/ ClickToOpen \/ GotoPlace \/ GotoFails \/ ReadName \/ ReadFields \/ Sentinel
  <2>1. /\ pc \in AtPlace /\ pc' \in AtPlace \ {"open"}
        /\ UNCHANGED <<pos, handled, qi, links, scroll>>
    BY <1>6 DEF ClickToOpen, GotoPlace, GotoFails, ReadName, ReadFields, Sentinel,
       search, ghosts
  <2>2. record'.place = record.place
    <3>1. record \in Record
      BY DEF TypeOK, Record
    <3>2. CASE ClickToOpen \/ GotoPlace \/ GotoFails
      BY <3>2 DEF ClickToOpen, GotoPlace, GotoFails
    <3>3. CASE ReadName
      BY <3>1, <3>3 DEF ReadName, Record
    <3>4. CASE ReadFields
      <4>1. PICK closed : record' = [record EXCEPT !.fields = Seen, !.closed = closed]
        BY <3>4, Zenon DEF ReadFields
      <4> QED
        BY <3>1, <4>1 DEF Record
    <3>5. CASE Sentinel
      <4>1. PICK name : \/ record' = record
                        \/ record' = [record EXCEPT !.retry = "failed"]
                        \/ record' = [record EXCEPT !.retry = "ok", !.name = name]
        BY <3>5, Zenon DEF Sentinel
      <4> QED
        BY <3>1, <4>1 DEF Record
    <3> QED
      BY <1>6, <3>2, <3>3, <3>4, <3>5
  <2>3. Due' = Due
    BY <2>1 DEF Due
  <2> QED
    BY <2>1, <2>2, <2>3 DEF WalkOK
<1>7. CASE Yield
  <2>1. /\ pc = "yield" /\ pc' = "walk" /\ UNCHANGED <<qi, links, scroll>>
        /\ pos' = pos + 1 /\ handled' = handled \cup {links[pos]}
    BY <1>7, Zenon DEF Yield, Due, search
  <2>2. pos \in Nat \ {0} /\ handled = {links[i] : i \in 1..pos - 1}
    BY <2>1 DEF WalkOK, TypeOK
  <2>3. 1..(pos + 1) - 1 = (1..pos - 1) \cup {pos}
    BY <2>2
  <2>4. handled' = {links[i] : i \in 1..(pos + 1) - 1}
    BY <2>1, <2>2, <2>3
  <2> QED
    BY <2>1, <2>4 DEF WalkOK
<1>8. CASE PanelFills \/ Meanwhile \/ UNCHANGED vars
  <2>1. UNCHANGED <<pc, pos, handled, qi, links, scroll, record>>
    BY <1>8, Zenon DEF PanelFills, Meanwhile, vars, control, search, ghosts
  <2> QED
    BY <2>1 DEF WalkOK, Due
<1> QED
  BY <1>1, <1>2, <1>3, <1>4, <1>5, <1>6, <1>7, <1>8, Zenon DEF Next
LEMMA EndStep ==
    TypeOK /\ QueryOK /\ ScrollOK /\ WalkOK /\ EndOK /\ [Next]_vars => EndOK'
<1> SUFFICES ASSUME TypeOK, QueryOK, ScrollOK, WalkOK, EndOK, [Next]_vars PROVE EndOK'
  OBVIOUS
<1>1. CASE Walk
  <2>1. /\ pc = "walk" /\ UNCHANGED <<pos, handled, qi, links, scroll>>
        /\ pc' = "open" \/ cut' = (pos <= Len(links))
    BY <1>1, Zenon DEF Walk, search, ghosts
  <2>2. CASE pc' = "open"
    BY <2>2 DEF EndOK
  <2>3. CASE cut' = (pos <= Len(links)) /\ pos <= Len(links)
    <3>1. cut'
      BY <2>3, Zenon
    <3>2. links' # <<>>
      BY <2>1 DEF WalkOK
    <3> QED
      BY <3>1, <3>2 DEF EndOK
  <2>4. CASE ~(pos <= Len(links))
    <3>1. links \in Seq(Place) /\ Len(links) \in Nat /\ pos \in 1..Len(links) + 1
      BY LenProperties DEF TypeOK
    <3>2. pos - 1 = Len(links)
      BY <2>4, <3>1
    <3>3. handled = {links[i] : i \in 1..pos - 1} /\ links # <<>>
      BY <2>1 DEF WalkOK
    <3>4. Range(links) = {links[i] : i \in 1..Len(links)}
      BY <3>1, LenProperties DEF Range
    <3>5. handled = Range(links)
      BY <3>2, <3>3, <3>4
    <3>6. links' = links /\ handled' = handled
      BY <2>1
    <3> QED
      BY <3>3, <3>5, <3>6 DEF EndOK
  <2> QED
    BY <2>1, <2>2, <2>3, <2>4
<1>2. CASE OpenContext \/ OpenPage \/ Search \/ ScrollRaises
  <2>1. pc' \in {"page", "search", "scroll"} \/ raised'
    BY <1>2, Zenon DEF OpenContext, OpenPage, Search, ScrollRaises, Raise
  <2> QED
    BY <2>1 DEF EndOK
<1>3. CASE ExtractLinks
  <2>1. page' = page /\ (pc' = "walk" \/ raised' \/ page = "empty")
    BY <1>3, Zenon DEF ExtractLinks, NoLinks, Raise
  <2> QED
    BY <2>1 DEF EndOK
<1>4. CASE Teardown
  <2>1. /\ pc = "teardown"
        /\ UNCHANGED <<raised, page, links, cut, handled>>
    BY <1>4, Zenon DEF Teardown, limits, ghosts
  <2> QED
    BY <2>1 DEF EndOK
<1>5. CASE UNCHANGED <<pc, raised, page, links, cut, handled>>
  BY <1>5 DEF EndOK
<1>6. ASSUME \/ Start \/ SkipDoneQuery \/ End \/ MarkQuery \/ ScrollRound
             \/ ClickToOpen \/ GotoPlace \/ GotoFails \/ ReadName \/ ReadFields
             \/ Sentinel \/ Yield
      PROVE  pc' \notin {"teardown", "mark"}
  <2>1. pc' \in {"stopped", "next", "scroll", "links", "walk", "name", "yield", "fields",
                 "sentinel"}
    BY <1>6, Zenon DEF Start, SkipDoneQuery, End, MarkQuery, ScrollRound, ClickToOpen,
       GotoPlace, GotoFails, ReadName, ReadFields, Sentinel, Yield
  <2> QED
    BY <2>1
<1>7. ASSUME PanelFills \/ Meanwhile \/ UNCHANGED vars
      PROVE  UNCHANGED <<pc, raised, page, links, cut, handled>>
  BY <1>7, Zenon DEF PanelFills, Meanwhile, vars, control, search, limits, ghosts
<1>8. ASSUME pc' \notin {"teardown", "mark"} PROVE EndOK'
  BY <1>8 DEF EndOK
<1> QED
  BY <1>1, <1>2, <1>3, <1>4, <1>5, <1>6, <1>7, <1>8, Zenon DEF Next

LEMMA LimitsStep == TypeOK /\ LimitsOK /\ [Next]_vars => LimitsOK'
<1> SUFFICES ASSUME TypeOK, LimitsOK, [Next]_vars PROVE LimitsOK'
  OBVIOUS
<1> USE DEF AtPlace
<1>0. ASSUME UNCHANGED <<total, count>> PROVE LimitReached' = LimitReached
  BY <1>0 DEF LimitReached, TotalReached, PerQueryReached
<1>1. CASE Walk
  <2>1. UNCHANGED <<sent, total, count>>
    BY <1>1, Zenon DEF Walk, ghosts
  <2>2. CASE pc' = "open" /\ ~LimitReached /\ cut' = cut
    BY <1>0, <2>1, <2>2 DEF LimitsOK
  <2>3. CASE pc' = "teardown" /\ (cut' => LimitReached)
    BY <1>0, <2>1, <2>3 DEF LimitsOK
  <2>4. pc' = "teardown" => (cut' => LimitReached)
    <3>1. pos \in Nat /\ Len(links) \in Nat
      BY LenProperties DEF TypeOK
    <3>2. pos <= Len(links) => ~(pos > Len(links))
      BY <3>1
    <3>3. pc' = "teardown" => /\ cut' = (pos <= Len(links))
                              /\ pos > Len(links) \/ LimitReached
      BY <1>1, Zenon DEF Walk, LimitReached
    <3> QED
      BY <3>2, <3>3, Zenon
  <2>5. \/ pc' = "open" /\ ~LimitReached /\ cut' = cut
        \/ pc' = "teardown"
    BY <1>1, Zenon DEF Walk, LimitReached
  <2> QED
    BY <2>2, <2>3, <2>4, <2>5
<1>2. CASE Yield
  <2>1. /\ pc = "yield" /\ pc' = "walk" /\ cut' = cut
        /\ \/ UNCHANGED <<sent, total>>
           \/ /\ total' = IF MaxTotal = 0 THEN 0 ELSE total + 1
              /\ sent' = IF MaxTotal = 0 THEN 0 ELSE sent + 1
    BY <1>2, Zenon DEF Yield
  <2>2. ~cut
    BY <2>1 DEF LimitsOK
  <2> QED
    BY <2>1, <2>2 DEF LimitsOK
<1>3. CASE End
  <2>1. pc' = "stopped" /\ cut' = FALSE /\ sent' = 0 /\ total' = 0
    BY <1>3, Zenon DEF End
  <2> QED
    BY <2>1 DEF LimitsOK
<1>4. CASE OpenContext
  <2>1. pc' \in {"page", "mark"} /\ cut' = FALSE /\ UNCHANGED <<sent, total>>
    BY <1>4, Zenon DEF OpenContext, BeginQuery
  <2> QED
    BY <2>1 DEF LimitsOK
<1>5. CASE UNCHANGED <<sent, total, count, cut>> /\ (pc' \in AtPlace => pc \in AtPlace)
  BY <1>0, <1>5 DEF LimitsOK
<1>6. ASSUME \/ Start \/ SkipDoneQuery \/ MarkQuery \/ OpenPage \/ Search
             \/ ScrollRound \/ ScrollRaises \/ ExtractLinks \/ Teardown
      PROVE  UNCHANGED <<sent, total, count, cut>> /\ pc' \notin AtPlace
  <2>1. UNCHANGED <<sent, total, count, cut>>
    BY <1>6, Zenon DEF Start, SkipDoneQuery, MarkQuery, OpenPage, Search, ScrollRound,
       ScrollRaises, ExtractLinks, Teardown, limits, ghosts
  <2>2. pc' \in {"next", "search", "scroll", "links", "walk", "teardown", "mark"}
    BY <1>6, Zenon DEF Start, SkipDoneQuery, MarkQuery, OpenPage, Search, ScrollRound,
       ScrollRaises, ExtractLinks, NoLinks, Teardown, Raise
  <2> QED
    BY <2>1, <2>2
<1>7. ASSUME ClickToOpen \/ GotoPlace \/ GotoFails \/ ReadName \/ ReadFields \/ Sentinel
      PROVE  UNCHANGED <<sent, total, count, cut>> /\ pc \in AtPlace
  BY <1>7, Zenon DEF ClickToOpen, GotoPlace, GotoFails, ReadName, ReadFields, Sentinel,
     limits, ghosts
<1>8. ASSUME PanelFills \/ Meanwhile \/ UNCHANGED vars
      PROVE  UNCHANGED <<sent, total, count, cut, pc>>
  BY <1>8, Zenon DEF PanelFills, Meanwhile, vars, control, limits, ghosts
<1> QED
  BY <1>1, <1>2, <1>3, <1>4, <1>5, <1>6, <1>7, <1>8, Zenon DEF Next

LEMMA UnlikeStep ==
    TypeOK /\ WalkOK /\ UnlikeNameRetried /\ [Next]_vars => UnlikeNameRetried'
<1> SUFFICES ASSUME TypeOK, WalkOK, UnlikeNameRetried, [Next]_vars
             PROVE  UnlikeNameRetried'
  OBVIOUS
<1>0. record \in Record
  BY DEF TypeOK, Record
<1>1. CASE GotoFails
  <2>1. pc = "open" /\ record' = record
    BY <1>1, Zenon DEF GotoFails
  <2>2. record.name = None
    BY <2>1 DEF WalkOK
  <2> QED
    BY <2>1, <2>2 DEF UnlikeNameRetried, Like
<1>2. CASE Sentinel
  <2>1. record.place = Due
    BY <1>2 DEF Sentinel, WalkOK, AtPlace
  <2>2. CASE Like(Due, record.name) /\ record' = record
    BY <2>1, <2>2 DEF UnlikeNameRetried, Like
  <2>3. CASE record' = [record EXCEPT !.retry = "failed"]
    <3>1. record'.retry = "failed"
      BY <1>0, <2>3 DEF Record
    <3> QED
      BY <3>1 DEF UnlikeNameRetried
  <2>4. ASSUME NEW name \in {Due, None}, record' = [record EXCEPT !.retry = "ok", !.name = name]
        PROVE  UnlikeNameRetried'
    <3>1. record'.place = Due /\ record'.name = name
      BY <1>0, <2>1, <2>4 DEF Record
    <3> QED
      BY <2>4, <3>1 DEF UnlikeNameRetried, Like
  <2>5. \/ Like(Due, record.name) /\ record' = record
        \/ record' = [record EXCEPT !.retry = "failed"]
        \/ \E name \in {Due, None} : record' = [record EXCEPT !.retry = "ok", !.name = name]
    BY <1>2, Zenon DEF Sentinel, view
  <2> QED
    BY <2>2, <2>3, <2>4, <2>5, Zenon
<1>3. CASE UNCHANGED <<pc, record>>
  BY <1>3 DEF UnlikeNameRetried, Like
<1>4. ASSUME \/ Start \/ SkipDoneQuery \/ End \/ MarkQuery \/ OpenContext \/ OpenPage
             \/ Search \/ ScrollRound \/ ScrollRaises \/ ExtractLinks \/ Teardown \/ Walk
             \/ ClickToOpen \/ GotoPlace \/ ReadName \/ ReadFields \/ Yield
      PROVE  pc' # "yield"
  <2>1. pc' \in {"stopped", "next", "mark", "page", "search", "teardown", "scroll",
                 "links", "walk", "open", "name", "fields", "sentinel"}
    BY <1>4, Zenon DEF Start, SkipDoneQuery, End, MarkQuery, OpenContext, OpenPage,
       Search, ScrollRound, ScrollRaises, ExtractLinks, NoLinks, Teardown, Walk,
       ClickToOpen, GotoPlace, ReadName, ReadFields, Yield, Raise
  <2> QED
    BY <2>1
<1>5. ASSUME PanelFills \/ Meanwhile \/ UNCHANGED vars PROVE UNCHANGED <<pc, record>>
  BY <1>5, Zenon DEF PanelFills, Meanwhile, vars, control
<1>6. ASSUME pc' # "yield" PROVE UnlikeNameRetried'
  BY <1>6 DEF UnlikeNameRetried
<1> QED
  BY <1>1, <1>2, <1>3, <1>4, <1>5, <1>6, Zenon DEF Next

-----------------------------------------------------------------------------
(* The theorems *)

LEMMA InitIInv == Init => IInv
<1> SUFFICES ASSUME Init PROVE IInv
  OBVIOUS
<1>1. /\ pc = "stopped" /\ qi = 1 /\ raised = FALSE /\ open = {} /\ page = "wall"
      /\ scroll = NoScroll /\ links = <<>> /\ pos = 1 /\ panel = None
      /\ onFeed \in BOOLEAN /\ cut = FALSE
      /\ record = NoRecord /\ count = 0 /\ total = 0 /\ handled = {} /\ sent = 0
      /\ status = [q \in Query |-> "pending"]
  BY Zenon DEF Init
<1>2. BrowserTypeOK
  <2>1. 0 \in 0..Threshold /\ 0 \in 0..Turns - 1 /\ 0 \in Nat
    BY Constants
  <2>2. /\ browser = "none" /\ driver \in BOOLEAN /\ served = 0 /\ active = None
        /\ failures = [p \in Proxy |-> 0] /\ turn = 0
    BY Zenon DEF Init, BrowserInit
  <2> QED
    BY <2>1, <2>2 DEF BrowserTypeOK
<1>3. TypeOK
  BY <1>1, <1>2, NothingYet DEF TypeOK, Rounds, Record
<1>4. QueryOK /\ NothingLeftOpen /\ ScrollOK /\ EndOK /\ LimitsOK
  BY <1>1 DEF QueryOK, NothingLeftOpen, ScrollOK, EndOK, LimitsOK, AtPlace
<1>5. WalkOK /\ UnlikeNameRetried /\ PatientScroll
  BY <1>1 DEF WalkOK, UnlikeNameRetried, PatientScroll, AtPlace, Before
<1> QED
  BY <1>3, <1>4, <1>5 DEF IInv

LEMMA NextIInv == IInv /\ [Next]_vars => IInv'
BY TypeStep, QueryStep, OpenStep, ScrollStep, WalkStep, EndStep, LimitsStep, UnlikeStep,
   PatientStep DEF IInv

\* The inductive invariant of a collection: what the walk has handled, and why it
\* ended, whatever the pages, the proxies and the browser do meanwhile.
THEOREM Invariance == Spec => []IInv
<1>1. Init => IInv
  BY InitIInv
<1>2. IInv /\ [Next]_vars => IInv'
  BY NextIInv
<1> QED
  BY <1>1, <1>2, PTL DEF Spec

\* The variables of MapsCollector and BrowserManager keep their types.
THEOREM TypeCorrect == Spec => []TypeOK
<1>1. IInv => TypeOK
  BY DEF IInv
<1> QED
  BY <1>1, Invariance, PTL

\* Between two queries no context or page is open, however the last one ended
\* (the two finally blocks of MapsCollector.collect).
THEOREM ContextsClosed == Spec => []NothingLeftOpen
<1>1. IInv => NothingLeftOpen
  BY DEF IInv
<1> QED
  BY <1>1, Invariance, PTL

\* The total limit holds over all queries of a session and the limit of a query
\* over that query, and a walk is cut short only when one of them is used up
\* (_yielded_total and the count of _collect_on_page).
THEOREM LimitsKept == Spec => []LimitsHold
<1>1. IInv => LimitsHold
  <2> SUFFICES ASSUME IInv PROVE LimitsHold
    OBVIOUS
  <2>1. total \in 0..MaxTotal /\ sent = total /\ MaxTotal \in Nat
    BY Constants DEF IInv, TypeOK, LimitsOK
  <2>2. count \in 0..MaxPerQuery /\ MaxPerQuery \in Nat
    BY Constants DEF IInv, TypeOK
  <2>3. cut => LimitReached
    BY DEF IInv, LimitsOK
  <2> QED
    BY <2>1, <2>2, <2>3 DEF LimitsHold, LimitReached, TotalReached, PerQueryReached
<1> QED
  BY <1>1, Invariance, PTL

\* A record with a name unlike its place was read a second time, or tried to be
\* (the coherence sentinel of _open_and_extract).
THEOREM NamesAskedAgain == Spec => []UnlikeNameRetried
<1>1. IInv => UnlikeNameRetried
  BY DEF IInv
<1> QED
  BY <1>1, Invariance, PTL

\* _scroll_results gives up on a feed that has more only after the last round or
\* after StallLimit rounds without growth.
THEOREM ScrollingPatient == Spec => []PatientScroll
<1>1. IInv => PatientScroll
  BY DEF IInv
<1> QED
  BY <1>1, Invariance, PTL

\* Pipeline.run marks a query done only if links were read and each of them was
\* visited, a limit ended the walk, or its page said that there are no results.
THEOREM DoneQueriesVisited == Spec => DoneMeansVisited
<1> DEFINE Visited == page = "empty" \/ (links # <<>> /\ (cut \/ handled = Range(links)))
<1>1. IInv /\ [Next]_vars
        => [\A q \in Query : status[q] # "done" /\ status'[q] = "done" => Visited]_vars
  <2> SUFFICES ASSUME IInv, [Next]_vars, NEW q \in Query, status[q] # "done",
                      status'[q] = "done"
               PROVE  Visited
    OBVIOUS
  <2>1. ASSUME status' = status PROVE FALSE
    BY <2>1
  <2>2. ASSUME ~MarkQuery PROVE status' = status
    BY <2>2, Zenon DEF Next, Start, SkipDoneQuery, End, OpenContext, OpenPage, Teardown,
       Search, ScrollRound, ScrollRaises, ExtractLinks, Walk, ClickToOpen, GotoPlace,
       GotoFails, PanelFills, ReadName, ReadFields, Sentinel, Yield, Meanwhile, vars,
       control
  <2>3. pc = "mark" /\ ~raised /\ status' = [status EXCEPT ![Q] = "done"]
    BY <2>1, <2>2, Zenon DEF MarkQuery
  <2>4. q = Q
    BY <2>3 DEF IInv, TypeOK
  <2> QED
    BY <2>3, <2>4 DEF IInv, EndOK
<1>2. DoneMeansVisited <=>
        [][\A q \in Query : status[q] # "done" /\ status'[q] = "done" => Visited]_vars
  BY DEF DoneMeansVisited
<1> HIDE DEF Visited
<1> QED
  BY <1>1, <1>2, Invariance, PTL DEF Spec

\* ProxyManager gives a new context a proxy that failed too often only when every
\* proxy of the pool has.
THEOREM EvictedProxiesWait == Spec => EvictedStaysOut
<1> DEFINE Sound ==
        open = {} /\ "context" \in open' /\ active' # None
        => failures[active'] < Threshold \/ \A p \in Proxy : failures[p] = Threshold
<1>1. IInv /\ [Next]_vars => [Sound]_vars
  <2> SUFFICES ASSUME IInv, [Next]_vars, open = {}, "context" \in open', active' # None
               PROVE  failures[active'] < Threshold \/ \A p \in Proxy : failures[p] = Threshold
    OBVIOUS
  <2>0. BrowserTypeOK
    BY DEF IInv, TypeOK
  <2>1. ASSUME ~OpenContext PROVE open' \in {open, {}, open \cup {"page"}}
    BY <2>1, Zenon DEF Next, Start, SkipDoneQuery, End, MarkQuery, OpenPage, Teardown,
       Search, ScrollRound, ScrollRaises, ExtractLinks, Walk, ClickToOpen, GotoPlace,
       GotoFails, PanelFills, ReadName, ReadFields, Sentinel, Yield, Meanwhile, vars,
       search
  <2>2. OpenContext
    BY <2>1
  <2>3. NewContext
    BY <2>2, Zenon DEF OpenContext
  <2>4. PICK proxy \in Proxy \cup {None} :
            Resolve(proxy) /\ active' = IF proxy = None THEN active ELSE proxy
    BY <2>3, Zenon DEF NewContext
  <2>5. CASE proxy # None
    BY <2>0, <2>4, <2>5, ResolveSound
  <2>6. CASE proxy = None
    <3>1. ~\E i \in DOMAIN Pool : proxy = Pool[i]
      BY <2>6, Constants DEF Proxy, Range
    <3>2. ~\E i \in Candidates : proxy = Pool[i]
      BY <3>1 DEF Candidates, Healthy
    <3>3. Pool = <<>>
      BY <2>4, <3>1, <3>2, Zenon DEF Resolve
    <3>4. Proxy = {}
      BY <3>3 DEF Proxy, Range
    <3>5. active = None
      BY <2>0, <3>4 DEF BrowserTypeOK
    <3> QED
      BY <2>4, <2>6, <3>5
  <2> QED
    BY <2>5, <2>6
<1>2. EvictedStaysOut <=> [][Sound]_vars
  BY DEF EvictedStaysOut
<1> HIDE DEF Sound
<1> QED
  BY <1>1, <1>2, Invariance, PTL DEF Spec

-----------------------------------------------------------------------------
(* Every session of the collector comes to its end: the safety part *)

QueriesLeft == Len(Queries) + 1 - qi

Walking == AtPlace \cup {"walk"}

\* How far the current query is from its end.
Stage ==
    CASE pc = "next" -> 8
      [] pc = "page" -> 7
      [] pc = "search" -> 6
      [] pc = "scroll" -> 5
      [] pc = "links" -> 4
      [] pc \in Walking -> 3
      [] pc = "teardown" -> 2
      [] OTHER -> 1

\* How far the current place is from having been handled.
AtStep ==
    CASE pc = "walk" -> 6
      [] pc = "open" -> 5
      [] pc = "name" -> 4
      [] pc = "fields" -> 3
      [] pc = "sentinel" -> 2
      [] OTHER -> 1

\* What is left of the scrolling, or of the walk.
Rest ==
    CASE pc = "scroll" -> MaxRounds - Len(scroll.heights)
      [] pc \in Walking -> 6 * (Len(links) + 1 - pos) + AtStep
      [] OTHER -> 0

\* The rank of a session: three numbers.
RankOK == QueriesLeft \in Nat /\ Stage \in Nat /\ Rest \in Nat

\* The first of them that changes gets smaller.
Advance ==
    \/ QueriesLeft' < QueriesLeft
    \/ /\ QueriesLeft' = QueriesLeft
       /\ Stage' < Stage \/ (Stage' = Stage /\ Rest' < Rest)

InSession == pc # "stopped" /\ pc' # "stopped"

\* What Maps, the browser and the workers do, and no step of the collector,
\* leaves the rank as it was.
CollectorAdvances == [][InSession => Advance \/ PanelFills \/ Meanwhile]_vars

\* The rank is made of numbers.
LEMMA RankNat == IInv => RankOK
<1> SUFFICES ASSUME IInv PROVE RankOK
  OBVIOUS
<1> USE DEF IInv
<1>1. QueriesLeft \in Nat
  <2>1. qi \in 1..Len(Queries) + 1 /\ Len(Queries) \in Nat
    BY Constants, LenProperties DEF TypeOK
  <2> QED
    BY <2>1 DEF QueriesLeft
<1>2. Stage \in Nat
  BY DEF Stage
<1>3. CASE pc = "scroll"
  <2>1. Len(scroll.heights) \in Nat /\ Len(scroll.heights) < MaxRounds /\ MaxRounds \in Nat
    BY <1>3, Constants, LenProperties DEF ScrollOK, TypeOK
  <2>2. pc \notin Walking
    BY <1>3 DEF Walking, AtPlace
  <2> QED
    BY <1>1, <1>2, <1>3, <2>1, <2>2 DEF Rest, RankOK
<1>4. CASE pc \in Walking
  <2>1. pos \in 1..Len(links) + 1 /\ Len(links) \in Nat
    BY LenProperties DEF TypeOK
  <2>2. AtStep \in Nat
    BY DEF AtStep
  <2>3. pc # "scroll"
    BY <1>4 DEF Walking, AtPlace
  <2> QED
    BY <1>1, <1>2, <1>4, <2>1, <2>2, <2>3 DEF Rest, RankOK
<1>5. CASE pc # "scroll" /\ pc \notin Walking
  BY <1>1, <1>2, <1>5 DEF Rest, RankOK
<1> QED
  BY <1>3, <1>4, <1>5

\* Every step of the collector lowers the rank.
LEMMA AdvanceStep ==
    ASSUME IInv, IInv', Next, InSession
    PROVE  Advance \/ PanelFills \/ Meanwhile
<1> USE DEF IInv, InSession
<1>0. /\ qi \in 1..Len(Queries) + 1 /\ Len(Queries) \in Nat
      /\ pos \in 1..Len(links) + 1 /\ Len(links) \in Nat
      /\ scroll.heights \in Seq(Nat \cup {-1}) /\ MaxRounds \in Nat
  BY Constants, LenProperties DEF TypeOK
<1>1. ASSUME qi' = qi + 1 PROVE Advance
  <2>1. QueriesLeft' < QueriesLeft
    BY <1>0, <1>1 DEF QueriesLeft
  <2> QED
    BY <2>1 DEF Advance
<1>2. ASSUME qi' = qi, Stage' < Stage PROVE Advance
  BY <1>2 DEF Advance, QueriesLeft
<1>3. ASSUME qi' = qi, Stage' = Stage, Rest' < Rest PROVE Advance
  BY <1>3 DEF Advance, QueriesLeft
<1>4. CASE SkipDoneQuery \/ MarkQuery
  BY <1>4, <1>1 DEF SkipDoneQuery, MarkQuery
<1>5. CASE OpenContext \/ OpenPage \/ Search
  <2>1. /\ qi' = qi
        /\ \/ pc = "next" /\ pc' \in {"page", "mark"}
           \/ pc = "page" /\ pc' \in {"search", "teardown"}
           \/ pc = "search" /\ pc' \in {"scroll", "teardown"}
    BY <1>5, Zenon DEF OpenContext, OpenPage, Search, Raise
  <2>2. Stage' < Stage
    BY <2>1 DEF Stage, Walking, AtPlace
  <2> QED
    BY <1>2, <2>1, <2>2
<1>6. CASE Teardown \/ ScrollRaises \/ ExtractLinks
  <2>1. /\ qi' = qi
        /\ \/ pc = "teardown" /\ pc' = "mark"
           \/ pc = "scroll" /\ pc' = "teardown"
           \/ pc = "links" /\ pc' \in {"teardown", "walk"}
    BY <1>6, Zenon DEF Teardown, ScrollRaises, ExtractLinks, NoLinks, Raise
  <2>2. Stage' < Stage
    BY <2>1 DEF Stage, Walking, AtPlace
  <2> QED
    BY <1>2, <2>1, <2>2
<1>7. CASE ScrollRound
  <2>1. pc = "scroll" /\ pc' \in {"scroll", "links"} /\ qi' = qi
    BY <1>7, Zenon DEF ScrollRound
  <2>2. CASE pc' = "links"
    <3>1. Stage' < Stage
      BY <2>1, <2>2 DEF Stage, Walking, AtPlace
    <3> QED
      BY <1>2, <2>1, <3>1
  <2>3. CASE pc' = "scroll"
    <3>1. \E shown, height :
              scroll' = [shown   |-> shown,
                         heights |-> Append(scroll.heights, height),
                         stalled |-> StalledAfter(height)]
      BY <1>7, <2>3, Zenon DEF ScrollRound
    <3>2. PICK height : scroll'.heights = Append(scroll.heights, height)
      BY <3>1
    <3>3. Len(scroll'.heights) = Len(scroll.heights) + 1 /\ Len(scroll.heights) \in Nat
      BY <1>0, <3>2
    <3>4. Rest' < Rest
      BY <1>0, <2>1, <2>3, <3>3 DEF Rest, Walking, AtPlace
    <3>5. Stage' = Stage
      BY <2>1, <2>3 DEF Stage
    <3> QED
      BY <1>3, <2>1, <3>4, <3>5
  <2> QED
    BY <2>1, <2>2, <2>3
<1>8. CASE Walk
  <2>1. /\ pc = "walk" /\ pc' \in {"teardown", "open"}
        /\ UNCHANGED <<qi, pos, links>>
    BY <1>8, Zenon DEF Walk, search
  <2>2. CASE pc' = "teardown"
    <3>1. Stage' < Stage
      BY <2>1, <2>2 DEF Stage, Walking, AtPlace
    <3> QED
      BY <1>2, <2>1, <3>1
  <2>3. CASE pc' = "open"
    <3>1. Stage' = Stage
      BY <2>1, <2>3 DEF Stage, Walking, AtPlace
    <3>2. AtStep = 6 /\ AtStep' = 5
      BY <2>1, <2>3 DEF AtStep
    <3>3. Rest' < Rest
      BY <1>0, <2>1, <2>3, <3>2 DEF Rest, Walking, AtPlace
    <3> QED
      BY <1>3, <2>1, <3>1, <3>3
  <2> QED
    BY <2>1, <2>2, <2>3
<1>9. CASE ClickToOpen \/ GotoPlace \/ GotoFails \/ ReadName \/ ReadFields \/ Sentinel
  <2>1. /\ UNCHANGED <<qi, pos, links>>
        /\ \/ pc = "open" /\ pc' \in {"name", "yield"}
           \/ pc = "name" /\ pc' = "fields"
           \/ pc = "fields" /\ pc' = "sentinel"
           \/ pc = "sentinel" /\ pc' = "yield"
    BY <1>9, Zenon DEF ClickToOpen, GotoPlace, GotoFails, ReadName, ReadFields, Sentinel, search
  <2>2. Stage' = Stage
    BY <2>1 DEF Stage, Walking, AtPlace
  <2>3. AtStep' < AtStep /\ AtStep \in Nat /\ AtStep' \in Nat
    BY <2>1 DEF AtStep
  <2>4. pc \in Walking /\ pc' \in Walking /\ pc # "scroll" /\ pc' # "scroll"
    BY <2>1 DEF Walking, AtPlace
  <2>5. Rest' < Rest
    BY <1>0, <2>1, <2>3, <2>4 DEF Rest
  <2> QED
    BY <1>3, <2>1, <2>2, <2>5
<1>10. CASE Yield
  <2>1. pc = "yield" /\ pc' = "walk" /\ pos' = pos + 1 /\ UNCHANGED <<qi, links>>
    BY <1>10, Zenon DEF Yield, search
  <2>2. Stage' = Stage
    BY <2>1 DEF Stage, Walking, AtPlace
  <2>3. AtStep = 1 /\ AtStep' = 6
    BY <2>1 DEF AtStep
  <2>4. Rest' < Rest
    BY <1>0, <2>1, <2>3, SMTT(40) DEF Rest, Walking, AtPlace
  <2> QED
    BY <1>3, <2>1, <2>2, <2>4
<1>11. ~Start /\ ~End
  BY DEF Start, End
<1> QED
  BY <1>4, <1>5, <1>6, <1>7, <1>8, <1>9, <1>10, <1>11, Zenon DEF Next

(***************************************************************************)
(* The collector never runs in circles, whatever Maps shows and however     *)
(* often the browser dies: each of its steps lowers a rank of three natural *)
(* numbers, so a query of any feed comes to its done mark or its failure    *)
(* and a session to its end (_scroll_results, _collect_on_page).            *)
(***************************************************************************)
THEOREM SessionsFinite == Spec => []RankOK /\ CollectorAdvances
<1>1. IInv => RankOK
  BY RankNat
<1>2. IInv /\ IInv' /\ [Next]_vars
        => [InSession => Advance \/ PanelFills \/ Meanwhile]_vars
  BY AdvanceStep
<1> QED
  BY <1>1, <1>2, Invariance, PTL DEF Spec, CollectorAdvances
=============================================================================
