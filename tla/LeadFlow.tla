------------------------------ MODULE LeadFlow ------------------------------
(* What becomes of a lead between Google Maps and leads.csv                   *)
(* (scraper/pipeline.py): it is normalised, dropped or queued by the          *)
(* producer; its website is visited, an e-mail verified, its reviews scored   *)
(* and a pitch written by one of the enrichment threads; it is filtered again *)
(* and committed, or not, by the committer.                                   *)
(*                                                                            *)
(* Pipeline.tla has the threads, queues and shutdown of this, and the run's   *)
(* end; here the question is what the record says and why it was kept.        *)
EXTENDS SiteVisit, EmailCheck

CONSTANTS
    Listings,          \* the listings of the run, in the order Maps yields them
    Raw, Parsed,       \* Raw[l]: what Maps showed of it; Parsed[l]: its address
    Business,          \* Business[l]: the business it is a listing of
    DefaultCountry, Polygons,
    SiteDomain,        \* SiteDomain[site]
    SocialCols,        \* the social columns, in the order of the export
    LinkOf,            \* LinkOf[s]: the link a text of those columns is
    CustomSignals,
    FilterSets,        \* the filters the run may be configured with
    RequireWebsite, EnrichRequireWebsite, EmailsToggle, SocialToggle,
    MaxInFlight,       \* the size of the work queue
    DecisionMakers,    \* enrichment.decision_makers
    Reviews,           \* Reviews[l]: the reviews Maps showed of it
    LlmActive, MaxCalls,
    OutputColumns,     \* the columns of the export
    Unscorable,        \* the listings whose analysis may raise
    Faults             \* what may fail in a commit

VARIABLES
    campaign,          \* the filters of this run
    todo,              \* the listings Maps has not shown yet
    held,              \* the prepared lead that waits for room in the queue
    workQ, doneQ,      \* the two queues, of items [lead, rec]
    doing,             \* doing[w]: the item in thread w and how far it is
    rows,              \* the rows committed, as [lead, row]
    counts,            \* the counters of the run
    known,             \* the businesses the resolver has
    owner,             \* owner[u]: the lead that claimed profile u
    calls,             \* the LLM calls made
    outside,           \* ghost: the listings dropped by the polygons
    unprinted          \* ghost: the leads counted committed and failed

vars == <<campaign, todo, held, workQ, doneQ, doing, rows, counts, known, owner, calls,
          outside, unprinted, visit, answered, check, mxCache>>
queues == <<todo, held, workQ>>
ledger == <<rows, counts, known, owner, outside, unprinted>>

Lead == Range(Listings)
Custom == {CustomSignals[i].column : i \in DOMAIN CustomSignals}

(* Custom signals may not take the name of a column (pipeline.py:136-140);    *)
(* all columns are exported (141, models.py:17), of which the model needs     *)
(* those named here; Maps shows none of those that enrichment fills.          *)
ASSUME LeadAssumption ==
    /\ Listings \in Seq(Lead)
    /\ IsFiniteSet(Worker) /\ MaxInFlight \in Nat \ {0}
    /\ Custom \cap Columns = {} /\ Platforms \cap PlainColumns = {}
    /\ Platforms \cup {"business_name", "rating", "website", "website_status", "emails",
                       "smtp_status", "smtp_reason"} \subseteq OutputColumns
    /\ "N/A" \notin Unprintable
    /\ \A l \in Lead :
        /\ Reviews[l] \in Seq(Range(Reviews[l]))
        /\ \A r \in Range(Reviews[l]) :
               r = [id |-> r.id, words |-> r.words] /\ r.words \in Seq(Range(r.words))
        /\ DOMAIN Raw[l] \cap EnrichmentColumns = {}
        /\ "website" \in DOMAIN Raw[l] =>
               IsMissing(Raw[l].website) \/ Raw[l].website.s \in DOMAIN HomeAnswers

Free == [lead |-> "none", rec |-> <<>>, at |-> "free"]
Split == SplitFilters(campaign, Custom)

Bump(counter) == [counts EXCEPT ![counter] = @ + 1]
Bump2(one, other) == [counts EXCEPT ![one] = @ + 1, ![other] = @ + 1]

(* A record after some of its columns were assigned.                          *)
Updated(rec, new) ==
    [c \in DOMAIN rec \cup DOMAIN new |-> IF c \in DOMAIN new THEN new[c] ELSE rec[c]]

-----------------------------------------------------------------------------
(* The producer.                                                              *)
OutsidePolygons(rec) ==
    /\ Polygons # {}
    /\ rec.latitude.kind = "num" /\ rec.longitude.kind = "num"
    /\ ~PointInAnyPolygon(rec.latitude.n, rec.longitude.n, Polygons)

(* A lead the polygons drop is counted as collected and as nothing else; one  *)
(* that a gate drops leaves the resolver as it was.                           *)
Collect ==
    /\ todo # <<>> /\ held = <<>>
    /\ todo' = Tail(todo)
    /\ LET l == Head(todo)
           rec == NormalizeListing(Raw[l], Parsed[l], DefaultCountry)
       IN CASE OutsidePolygons(rec) ->
                  /\ counts' = Bump("collected")
                  /\ outside' = outside + 1
                  /\ UNCHANGED <<held, known>>
            [] ~OutsidePolygons(rec) /\ Business[l] \in known ->
                  /\ counts' = Bump2("collected", "deduped")
                  /\ UNCHANGED <<held, known, outside>>
            [] ~OutsidePolygons(rec) /\ Business[l] \notin known ->
                  IF \/ RequireWebsite /\ rec.website \in Blank
                     \/ ~Evaluate(rec, Split.pre)
                  THEN /\ counts' = Bump2("collected", "filtered")
                       /\ UNCHANGED <<held, known, outside>>
                  ELSE /\ counts' = Bump("collected")
                       /\ known' = known \cup {Business[l]}
                       /\ held' = <<[lead |-> l, rec |-> rec]>>
                       /\ UNCHANGED outside
    /\ UNCHANGED <<campaign, workQ, doneQ, doing, rows, owner, calls, unprinted,
                   visit, answered, check, mxCache>>

Enqueue ==
    /\ held # <<>> /\ Len(workQ) < MaxInFlight
    /\ workQ' = workQ \o held
    /\ held' = <<>>
    /\ UNCHANGED <<campaign, todo, doneQ, doing, ledger, calls, visit, answered, check,
                   mxCache>>

-----------------------------------------------------------------------------
(* The enrichment threads.                                                    *)
At(w, at) == doing[w].at = at
Working(w, rec, at) == doing' = [doing EXCEPT ![w].rec = rec, ![w].at = at]

(* The put into the committer's queue never waits.                            *)
Finish(w, rec) ==
    /\ doneQ' = Append(doneQ, [lead |-> doing[w].lead, rec |-> rec])
    /\ doing' = [doing EXCEPT ![w] = Free]

WithStatus(rec, status, reason) ==
    Updated(rec, [website_status |-> Text(status), website_failure_reason |-> Text(reason)])

TakeLead(w) ==
    /\ At(w, "free") /\ workQ # <<>>
    /\ workQ' = Tail(workQ)
    /\ LET item == Head(workQ)
           website == item.rec.website
           Keep(rec, at) == doing' = [doing EXCEPT ![w] =
                                [lead |-> item.lead, rec |-> rec, at |-> at]]
       IN CASE website \in Blank /\ EnrichRequireWebsite ->
                  /\ doneQ' = Append(doneQ, [item EXCEPT !.rec =
                                 WithStatus(item.rec, "SKIPPED_NO_WEBSITE", "N/A")])
                  /\ UNCHANGED <<doing, visit>>
            [] website \in Blank /\ ~EnrichRequireWebsite ->
                  /\ Keep(WithStatus(item.rec, "N/A", "N/A"), "analyze")
                  /\ UNCHANGED <<doneQ, visit>>
            [] website \notin Blank ->
                  /\ Keep(item.rec, "visit")
                  /\ StartVisit(w, website.s)
                  /\ UNCHANGED doneQ
    /\ UNCHANGED <<campaign, todo, held, ledger, calls, answered, check, mxCache>>

Visiting(w) ==
    /\ At(w, "visit") /\ VisitStep(w)
    /\ UNCHANGED <<campaign, queues, doneQ, doing, ledger, calls, check, mxCache>>

(* The profiles Maps gave, each in its own column, before those of the site.  *)
MergeSocial(rec, found) ==
    LET given == SelectSeq(SocialCols, LAMBDA c : Get(rec, c) \notin Blank)
        merged == DetectSocial([i \in DOMAIN given |-> LinkOf[rec[given[i]].s]])
    IN  [c \in Platforms |->
            CASE merged[c] # NoUrl -> Text(merged[c].id)
              [] merged[c] = NoUrl /\ found[c] # NoUrl -> Text(found[c].id)
              [] OTHER -> Get(rec, c)]

BoolTechCols == {"meta_pixel", "ga4", "gtm", "advertising", "booking_system", "chat_widget"}
SignalCols == {"signal_pricing", "signal_financing", "signal_licensed_insured",
               "signal_established", "signal_portfolio", "signal_mobile_service",
               "signal_membership"}
YesNo(outcome, column) ==
    Text(IF column \in DOMAIN outcome /\ outcome[column] THEN "yes" ELSE "no")

(* What Enricher.enrich found, under the toggles; the list of e-mails is told *)
(* by its first.                                                              *)
Enriched(rec, v, emails) ==
    LET status == WithStatus(rec, ResolveWebsiteStatus(v.reason), v.reason)
        mail == IF ~EmailsToggle THEN status
                ELSE Updated(status, [emails |-> IF emails = <<>> THEN NA
                                                 ELSE Text(emails[1].id),
                                      email_count |-> Num(Len(emails))])
        person == IF DecisionMakers THEN ExtractDecisionMaker(v.people) ELSE Nobody
        maker == Updated(mail, [decision_maker_title |-> Text(person.title)])
        social == IF SocialToggle THEN Updated(maker, MergeSocial(rec, DetectSocial(v.urls)))
                  ELSE maker
        outcome == RunSignals(v.marks, CustomSignals)
    IN  Updated(social, [c \in BoolTechCols \cup SignalCols \cup Custom |->
                            YesNo(outcome, c)])

VisitEnds(w) ==
    /\ At(w, "visit") /\ visit[w].at = "done"
    /\ LET v == visit[w]
           emails == CleanEmails(v.raw, SiteDomain[v.site])
           asked == emails # <<>> /\ VerifyAsked
       IN  /\ Working(w, Enriched(doing[w].rec, v, emails),
                      IF asked THEN "verify" ELSE "analyze")
           /\ IF asked THEN StartCheck(w, emails[1]) ELSE UNCHANGED check
    /\ visit' = [visit EXCEPT ![w] = NoVisit]
    /\ UNCHANGED <<campaign, queues, doneQ, ledger, calls, answered, mxCache>>

(* A slip: the lead goes with the exception.                                  *)
VisitRaisesDropping(w) ==
    /\ At(w, "visit") /\ visit[w].at = "raised"
    /\ doing' = [doing EXCEPT ![w] = Free]
    /\ visit' = [visit EXCEPT ![w] = NoVisit]
    /\ UNCHANGED <<campaign, queues, doneQ, ledger, calls, answered, check, mxCache>>
(* The visit raised: the record goes on without what follows.                 *)
VisitRaises(w) ==
    /\ At(w, "visit") /\ visit[w].at = "raised"
    /\ Finish(w, WithStatus(doing[w].rec, "UNKNOWN", "enrich_error"))
    /\ visit' = [visit EXCEPT ![w] = NoVisit]
    /\ UNCHANGED <<campaign, queues, ledger, calls, answered, check, mxCache>>

Verifying(w) ==
    /\ At(w, "verify") /\ CheckStep(w)
    /\ UNCHANGED <<campaign, queues, doneQ, doing, ledger, calls, visit, answered>>

VerifyEnds(w) ==
    /\ At(w, "verify") /\ check[w].at = "done"
    /\ Working(w, Updated(doing[w].rec, [mx_status |-> Text(check[w].mx),
                                         smtp_status |-> Text(check[w].smtp),
                                         smtp_reason |-> Text(check[w].why)]), "analyze")
    /\ check' = [check EXCEPT ![w] = NoCheck]
    /\ UNCHANGED <<campaign, queues, doneQ, ledger, calls, visit, answered, mxCache>>

(* An LLM may replace the pitch while its budget lasts; a call that fails is  *)
(* spent too, and the rule's pitch stays.                                     *)
Generate(llm) ==
    IF LlmActive /\ (MaxCalls = 0 \/ calls < MaxCalls)
    THEN calls' = calls + 1 /\ llm \in BOOLEAN
    ELSE UNCHANGED calls /\ ~llm

(* A lead without reviews would be judged by the one it quotes, but Maps      *)
(* gives it none: nothing is scored and nothing quoted.                       *)
Analyze(w) ==
    /\ At(w, "analyze")
    /\ LET rec == doing[w].rec
           kept == FilterReviews(FirstSeen(Reviews[doing[w].lead]))
           result == AnalyzeReviews(kept, rec.rating, rec.review_count)
           shown == IF result.top_review = Text("")
                    THEN [result EXCEPT !.top_review = rec.top_review] ELSE result
       IN  \E llm \in BOOLEAN :
            /\ Generate(llm)
            /\ Finish(w, Updated(rec, IF llm THEN [shown EXCEPT !.pitch_hook = Text("llm")]
                                      ELSE shown))
    /\ UNCHANGED <<campaign, queues, ledger, visit, answered, check, mxCache>>

(* The analysis raised: what was enriched stays, the status of the website    *)
(* does not.  What fails in the pitch of an LLM is caught there.              *)
AnalyzeRaises(w) ==
    /\ At(w, "analyze") /\ doing[w].lead \in Unscorable
    /\ Finish(w, WithStatus(doing[w].rec, "UNKNOWN", "enrich_error"))
    /\ UNCHANGED <<campaign, queues, ledger, calls, visit, answered, check, mxCache>>

-----------------------------------------------------------------------------
(* The committer.                                                             *)
(* A slip: the profile goes to whoever claims it.                             *)
ClaimedByAnyone(l, rec) == [c \in Platforms |-> Get(rec, c)]
Claimed(l, rec) ==
    [c \in Platforms |->
        LET u == Get(rec, c)
        IN  IF u \notin Blank /\ u.s \in DOMAIN owner /\ owner[u.s] # l THEN NA ELSE u]

Claims(l, rec) ==
    [u \in {rec[c].s : c \in {p \in Platforms : Get(rec, p) \notin Blank}} |-> l]

Row(rec) == [c \in OutputColumns |-> IF c \in DOMAIN rec THEN rec[c] ELSE NA]

(* Append, then the checkpoint, then the counter, then what is printed: a     *)
(* failure at each of them is a failure of the lead.                          *)
Commit ==
    /\ doneQ # <<>>
    /\ doneQ' = Tail(doneQ)
    /\ LET l == Head(doneQ).lead
           rec == Head(doneQ).rec
           mine == IF SocialToggle THEN Updated(rec, Claimed(l, rec)) ELSE rec
           Saved == rows' = rows \cup {[lead |-> l, row |-> Row(mine)]}
       IN CASE ~Evaluate(rec, Split.post) ->
                  /\ counts' = Bump("filtered")
                  /\ known' = known \ {Business[l]}
                  /\ UNCHANGED <<rows, owner, unprinted>>
            [] Evaluate(rec, Split.post) /\ ~PassesQuality(rec) ->
                  /\ counts' = Bump("failed")
                  /\ known' = known \ {Business[l]}
                  /\ UNCHANGED <<rows, owner, unprinted>>
            [] Evaluate(rec, Split.post) /\ PassesQuality(rec) ->
                  /\ owner' = IF SocialToggle THEN Updated(Claims(l, rec), owner) ELSE owner
                  /\ UNCHANGED known
                  /\ \/ /\ Saved
                        /\ counts' = Bump("committed")
                        /\ UNCHANGED unprinted
                     \/ /\ "write" \in Faults
                        /\ counts' = Bump("failed")
                        /\ UNCHANGED <<rows, unprinted>>
                     \/ /\ "print" \in Faults
                        /\ Saved
                        /\ counts' = Bump2("committed", "failed")
                        /\ unprinted' = unprinted + 1
    /\ UNCHANGED <<campaign, queues, doing, calls, outside, visit, answered, check,
                   mxCache>>

-----------------------------------------------------------------------------
Init ==
    /\ campaign \in FilterSets
    /\ todo = Listings /\ held = <<>> /\ workQ = <<>> /\ doneQ = <<>>
    /\ doing = [w \in Worker |-> Free]
    /\ rows = {}
    /\ counts = [c \in {"collected", "deduped", "filtered", "committed", "failed"} |-> 0]
    /\ known = {} /\ owner = <<>> /\ calls = 0
    /\ outside = 0 /\ unprinted = 0
    /\ visit = [w \in Worker |-> NoVisit] /\ answered = {}
    /\ check = [w \in Worker |-> NoCheck]
    /\ mxCache = <<>>

Next ==
    \/ Collect \/ Enqueue \/ Commit
    \/ \E w \in Worker :
        \/ TakeLead(w) \/ Visiting(w) \/ VisitEnds(w) \/ VisitRaises(w)
        \/ Verifying(w) \/ VerifyEnds(w) \/ Analyze(w) \/ AnalyzeRaises(w)

Spec == Init /\ [][Next]_vars

-----------------------------------------------------------------------------
InFlight == Len(held) + Len(workQ) + Len(doneQ) + Cardinality({w \in Worker : ~At(w, "free")})

(* The shapes; scores are percentages, a thread is in a visit or a check only *)
(* when its lead is, and the MX cache holds each domain once and no more than *)
(* it may (analysis/engine.py:153, utils/dns_cache.py:31).                    *)
TypeOK ==
    /\ campaign \in FilterSets
    /\ Len(held) <= 1 /\ Len(workQ) <= MaxInFlight
    /\ \A w \in Worker :
        /\ doing[w].at \in {"free", "visit", "verify", "analyze"}
        /\ At(w, "visit") <=> visit[w] # NoVisit
        /\ At(w, "verify") <=> check[w] # NoCheck
    /\ \A i \in DOMAIN doneQ : doneQ[i].rec.lead_score.n \in 0..100
    /\ Len(mxCache) <= CacheSize
    /\ \A i, j \in DOMAIN mxCache : mxCache[i].domain = mxCache[j].domain => i = j

(* Every listing collected is deduplicated, filtered, committed, failed, on   *)
(* its way, or one the polygons dropped, which no counter counts; a lead      *)
(* whose commit fails after the counter counts twice (pipeline.py:518-532,    *)
(* 605-639, 475-480).  An exception in a thread loses no lead (440-459).      *)
CountersAddUp ==
    counts.collected + unprinted =
        counts.deduped + counts.filtered + counts.committed + counts.failed
        + InFlight + outside

(* No two leads of a run are committed with the same social profile, whatever *)
(* Maps and their websites name (pipeline.py:88-97, 618-629).                 *)
ProfilesOwned ==
    \A r, q \in rows : r.lead # q.lead =>
        \A c, d \in Platforms : r.row[c] \in Blank \/ r.row[c] # q.row[d]

(* A committed row satisfies every filter of the run, those decided before    *)
(* the visit and those after, and the quality gate (pipeline.py:564, 607,     *)
(* 614); of filters on the social columns this does not hold, they are        *)
(* decided before the profiles of others are blanked.                         *)
CommittedPassAll ==
    \A r \in rows : Evaluate(r.row, campaign) /\ PassesQuality(r.row)

(* A row says Verified only of a mailbox that exists in a domain that would   *)
(* refuse another, whichever hosts answered and however they did before; the  *)
(* MX answers are those of the domain (email/verification.py: 151-197),       *)
(* shared through the cache as they may be.                                   *)
VerifiedOnlyIfDeliverable ==
    /\ \A r \in rows :
        r.row.smtp_status = Text("Verified") =>
            Mailbox[r.row.emails.s] \notin {"unknown", "catchall"}
    /\ \A w \in Worker :
        /\ check[w].mx = "PASS" => MailHosts[check[w].domain] # <<>>
        /\ check[w].mx = "FAIL" => MailHosts[check[w].domain] = <<>>

(* A row calls its site dead only if the homepage could not be reached, and   *)
(* live only if it gave any other answer, be it a refusal, a time-out, a      *)
(* failure or a page that asks for a browser ("blocked must never become      *)
(* dead", models.py:103), however the other pages of the site answer and      *)
(* whatever raises on the way.                                                *)
BlockedIsNotDead ==
    \A r \in rows :
        /\ r.row.website_status = Text("DEAD") => <<r.row.website.s, TRUE>> \in answered
        /\ r.row.website_status = Text("LIVE") => <<r.row.website.s, FALSE>> \in answered

(* A run starts with sound rules.  They read no variable: what TLC looks at   *)
(* before the first listing holds of every later one.                         *)
AtStart == todo = Listings

(* Deciding the filters that need no website first keeps no lead that all     *)
(* filters together would drop (filters/engine.py:176-212).                   *)
SplitKeepsLess == AtStart => SplitNeverKeepsMore

(* A point strictly inside a triangle passes the polygon filter, one strictly *)
(* outside does not, whatever is on the ray (maps/geo.py:33-55).              *)
PolygonMatchesHalfPlanes == AtStart => TrianglesMatchHalfPlanes
=============================================================================
