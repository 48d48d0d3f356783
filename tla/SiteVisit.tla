------------------------------ MODULE SiteVisit ------------------------------
(* One visit to the website of a lead (Enricher.enrich): the homepage, a      *)
(* browser when the page asks for one, the pages its links and its sitemap    *)
(* name, in order of promise, until the budget, the deadline or the signals   *)
(* found end it.  Several workers visit at once; what they share of the       *)
(* network is in RateLimiter and RenderPool, a fetch here is its last answer. *)
EXTENDS LeadRules

CONSTANTS
    Worker,          \* the enrichment threads
    Homepage,        \* Homepage[site]: the page a website opens with
    Content,         \* Content[page]: its e-mails, its links, its links to pages,
                     \* the people named and the marks of signals on it
    SitemapOf,       \* SitemapOf[site]: the pages its sitemap names
    Host,            \* Host[page]
    Promise,         \* Promise[page]: the index of the first hint in its address
    HomeAnswers,     \* HomeAnswers[site]: the answers its homepage may give
    PageAnswers,     \* the answers any other page may give
    MaxPages, EnableSitemap, EnablePlaywright, OverallTimeout, EarlyStop

VARIABLES
    visit,           \* visit[w]: the visit under way in thread w
    answered         \* ghost: <<site, whether its homepage could not be reached>>

NoVisit == [at |-> "idle", site |-> "none", reason |-> "none",
            raw |-> <<>>, urls |-> <<>>, marks |-> {}, people |-> <<>>,
            extra |-> <<>>]

-----------------------------------------------------------------------------
(* An answer is a response, [exc |-> "none", status, short], or an exception  *)
(* of the client; one that is no HTTPError leaves Fetcher.fetch.              *)
HttpErrors == {"ConnectTimeout", "ReadTimeout", "gaierror", "SSLError", "ConnectError",
               "RemoteProtocolError"}
Escapes(answer) == answer.exc \notin HttpErrors \cup {"none"}
HasHtml(answer) == answer.exc = "none"

Reason(answer) ==
    IF answer.exc # "none" THEN Classify(answer.exc)
    ELSE IF answer.status = 200 /\ answer.short THEN "JS_REQUIRED"
    ELSE StatusReason(answer.status)

(* There is no such name, nobody listens, the TLS handshake fails, or the     *)
(* homepage is not there.  A passing trouble of a resolver or a network, the  *)
(* own one too, looks the same.                                               *)
Unreachable(answer) ==
    \/ answer.exc \in {"gaierror", "ConnectError", "SSLError"}
    \/ answer.exc = "none" /\ answer.status \in {404, 410}

(* What a response holds: the page, or, when it is short or an error page,    *)
(* perhaps nothing of it.                                                     *)
Nothing == [emails |-> <<>>, links |-> <<>>, pages |-> <<>>, marks |-> {},
            people |-> <<>>]
Served(page, answer) ==
    IF ~HasHtml(answer) THEN {Nothing}
    ELSE IF answer.status = 200 /\ ~answer.short THEN {Content[page]}
    ELSE {Content[page], Nothing}

-----------------------------------------------------------------------------
Priorities == 0..11

(* The pages of its own host, each once, by promise and then as they come.    *)
CrawlPriority(links, host) ==
    LET internal == FirstSeen(SelectSeq(links, LAMBDA p : Host[p] = host))
    IN  FlattenSeq([i \in 1..Cardinality(Priorities) |->
                       SelectSeq(internal, LAMBDA p : Promise[p] = i - 1)])

Budgeted(pages) == SubSeq(pages, 1, IF Len(pages) < MaxPages THEN Len(pages) ELSE MaxPages)

Absorb(v, html) ==
    [v EXCEPT !.raw = @ \o FirstSeen(html.emails), !.urls = @ \o SocialUrlsFromHtml(html.links),
              !.marks = @ \cup html.marks, !.people = @ \o html.people]

(* The homepage has been read: is the budget filled, or is the sitemap asked? *)
AfterHome(v, html) ==
    LET extra == Budgeted(CrawlPriority(html.pages, Host[Homepage[v.site]]))
    IN  [Absorb(v, html) EXCEPT
            !.extra = extra,
            !.at = IF EnableSitemap /\ Len(extra) < MaxPages THEN "sitemap" ELSE "pages"]

StartVisit(w, site) ==
    visit' = [visit EXCEPT ![w] = [NoVisit EXCEPT !.at = "home", !.site = site]]

FetchHome(w) ==
    /\ visit[w].at = "home"
    /\ \E answer \in HomeAnswers[visit[w].site] :
       /\ answered' = answered \cup {<<visit[w].site, Unreachable(answer)>>}
       /\ \E html \in Served(Homepage[visit[w].site], answer) :
        LET v == [visit[w] EXCEPT !.reason = Reason(answer)]
        IN  visit' = [visit EXCEPT ![w] =
                IF Escapes(answer) THEN [visit[w] EXCEPT !.at = "raised"]
                ELSE IF v.reason = "JS_REQUIRED" /\ EnablePlaywright
                     THEN [v EXCEPT !.at = "render"]
                ELSE IF ~HasHtml(answer) THEN [v EXCEPT !.at = "done"]
                ELSE AfterHome(v, html)]

(* The pool renders the page or returns nothing, and then the thin page is    *)
(* all there is; the reason stays JS_REQUIRED either way.                     *)
RenderHome(w) ==
    /\ visit[w].at = "render"
    /\ \E html \in {Content[Homepage[visit[w].site]], Nothing} :
           visit' = [visit EXCEPT ![w] = AfterHome(@, html)]
    /\ UNCHANGED answered

FetchSitemap(w) ==
    /\ visit[w].at = "sitemap"
    /\ \E pages \in {Budgeted(SitemapOf[visit[w].site]), <<>>} :
           visit' = [visit EXCEPT ![w].at = "pages",
                                  ![w].extra = Budgeted(FirstSeen(@ \o pages))]
    /\ UNCHANGED answered

(* The signals asked for are those seen so far, before any cleaning.          *)
EnoughFound(v) == EarlyStop /\ v.raw # <<>> /\ v.urls # <<>>

FetchPage(w) ==
    LET v == visit[w]
    IN  /\ v.at = "pages" /\ v.extra # <<>> /\ ~EnoughFound(v)
        /\ \E answer \in PageAnswers : \E html \in Served(Head(v.extra), answer) :
            visit' = [visit EXCEPT ![w] = [Absorb(v, html) EXCEPT !.extra = Tail(@)]]
        /\ UNCHANGED answered

(* With a deadline it may have passed before any of the pages.                *)
StopVisit(w) ==
    LET v == visit[w]
    IN  /\ v.at = "pages"
        /\ v.extra = <<>> \/ EnoughFound(v) \/ OverallTimeout
        /\ visit' = [visit EXCEPT ![w].at = "done"]
        /\ UNCHANGED answered

VisitStep(w) ==
    FetchHome(w) \/ RenderHome(w) \/ FetchSitemap(w) \/ FetchPage(w) \/ StopVisit(w)
=============================================================================
