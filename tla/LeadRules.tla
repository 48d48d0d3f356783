------------------------------ MODULE LeadRules ------------------------------
(* The pure rules a lead passes through: normalisation of what Maps showed    *)
(* (maps/transform.py), the polygon filter (maps/geo.py), which e-mails and   *)
(* social profiles of a page are kept (utils/normalize.py, email/extract.py,  *)
(* signals/social.py), which people and signals it shows (signals/detector.py),*)
(* and what a failed visit says of a site (models.py, websites/fetcher.py).   *)
(*                                                                            *)
(* A text is told from another, never read: of an e-mail the model keeps its  *)
(* domain and the marks the rejection rules look for, of a link its host and  *)
(* the shape of its path.                                                     *)
EXTENDS ReviewRules

CONSTANTS
    Platforms,    \* the social platforms with a column of their own
    Disposable, Vendor, Personal,   \* domains of e-mails
    Dialled,      \* Dialled[country][p]: the number of a phone text, or NA
    Place         \* the points of the map that are compared with the reference

ASSUME PlaceAssumption == Place \subseteq Int \X Int

NoUrl == [host |-> "none", redirect |-> FALSE, path |-> "none", id |-> "none"]

-----------------------------------------------------------------------------
(* E-mails: [id, domain, marks].                                              *)
EmailRejectionReason(e, site) ==
    CASE e.marks \cap {"malformed", "slash"} # {}  -> "invalid_syntax"
      [] "asset" \in e.marks                       -> "asset_filename"
      [] e.domain \in Disposable                   -> "disposable_domain"
      [] e.domain \in Vendor                       -> "vendor_or_disposable_domain"
      [] "long" \in e.marks                        -> "too_long"
      [] "glued" \in e.marks                       -> "cta_glued_local_part"
      [] site \notin {"", e.domain} /\ e.domain \notin Personal -> "off_domain"
      [] site \notin {"", e.domain} /\ "agency" \in e.marks -> "agency_freemail_local_part"
      [] OTHER                                     -> "none"

CleanEmails(candidates, site) ==
    SelectSeq(FirstSeen(candidates), LAMBDA e : EmailRejectionReason(e, site) = "none")

-----------------------------------------------------------------------------
(* Links: [host, redirect, path, id], host a platform or "elsewhere", path    *)
(* "profile" when it has the shape of a handle on that platform.              *)
PlatformForUrl(u) ==
    IF u.host \in Platforms /\ ~u.redirect /\ u.path = "profile" THEN u.host ELSE "none"

(* The first profile of each platform.                                        *)
DetectSocial(urls) ==
    [p \in Platforms |->
        LET own == SelectSeq(urls, LAMBDA u : PlatformForUrl(u) = p)
        IN  IF own = <<>> THEN NoUrl ELSE own[1]]

SocialUrlsFromHtml(links) == SelectSeq(links, LAMBDA u : PlatformForUrl(u) # "none")

-----------------------------------------------------------------------------
(* Signals: what a visit brought is a set of marks, each a piece of evidence  *)
(* the patterns of a detector ask for, or a keyword.                          *)
RichSignals ==
    [meta_pixel     |-> {"facebook_script", "fbq"},
     ga4            |-> {"gtag_script", "google_analytics_script", "gtag_config"},
     gtm            |-> {"gtm_script", "gtm_container"},
     analytics      |-> {"google_analytics_script", "hotjar_script", "analytics_init"},
     advertising    |-> {"fbq_init", "ad_tag", "ad_script", "facebook_script"},
     booking_system |-> {"booking_link"},
     chat_widget    |-> {"chat_script"},
     signal_pricing |-> {"pricing", "quote online"},
     signal_financing        |-> {"financing", "payment plan"},
     signal_licensed_insured |-> {"licensed", "insured", "bonded"},
     signal_established      |-> {"family owned", "established in"},
     signal_portfolio        |-> {"portfolio", "projects", "gallery"},
     signal_mobile_service   |-> {"mobile service", "house calls"},
     signal_membership       |-> {"membership", "subscribe"}]

KwSignal(marks, keywords) == keywords \cap marks # {}
KwSignalAll(marks, keywords) == keywords # {} /\ keywords \subseteq marks

(* A custom signal, [column, keywords, all, enabled], may take the column of  *)
(* a built-in one; the later wins.                                            *)
RunSignals(marks, custom) ==
    FoldLeft(LAMBDA outcome, c :
                 IF ~c.enabled THEN outcome
                 ELSE (c.column :> IF c.all THEN KwSignalAll(marks, c.keywords)
                                   ELSE KwSignal(marks, c.keywords)) @@ outcome,
             [name \in DOMAIN RichSignals |-> KwSignal(marks, RichSignals[name])],
             custom)

-----------------------------------------------------------------------------
(* Decision makers.  A match of the pattern is [name, title, cta]: a sequence *)
(* of tokens, a text, and whether a call to action stands before it; a token  *)
(* is [word, marks].  Of "Founder Ann Bell" the title is taken off.           *)
NotAPerson == {"stopword", "not_person", "uncapitalised", "no_letters"}

CleanPersonName(name) ==
    IF name = <<>> \/ "cta" \in name[1].marks THEN <<>>
    ELSE IF "title" \in name[1].marks THEN Tail(name) ELSE name

LooksLikePerson(name) ==
    /\ Len(name) \in 2..4
    /\ \A i, j \in DOMAIN name : name[i].word = name[j].word => i = j
    /\ "title" \notin Last(name).marks
    /\ "heading" \notin name[1].marks
    /\ \A i \in DOMAIN name :
        /\ name[i].marks \cap (NotAPerson \cup {"role"}) = {}
        /\ i < Len(name) => "place" \notin name[i].marks

Nobody == [name |-> <<>>, title |-> "N/A"]
ExtractDecisionMaker(matches) ==
    LET cleaned == [i \in DOMAIN matches |-> [name |-> CleanPersonName(matches[i].name),
                                              title |-> matches[i].title]]
        genuine == {i \in DOMAIN matches : ~matches[i].cta /\ LooksLikePerson(cleaned[i].name)}
    IN  IF genuine = {} THEN Nobody
        ELSE cleaned[CHOOSE i \in genuine : \A j \in genuine : i <= j]

-----------------------------------------------------------------------------
(* What an answer says.  An exception of the client has its own name, a       *)
(* response the status it came with; a short page asks for a browser.         *)
StatusReason(status) ==
    CASE status \in {404, 410}           -> "NOT_FOUND"
      [] status \in {401, 403, 407, 429} -> "HTTP_BLOCKED"
      [] status >= 500                   -> "UNKNOWN"
      [] OTHER                           -> "none"

Classify(exc) ==
    CASE exc \in {"ConnectTimeout", "ReadTimeout"}   -> "TIMEOUT"
      [] exc = "gaierror"                            -> "DNS_FAILURE"
      [] exc = "SSLError"                            -> "TLS_ERROR"
      [] exc = "ConnectError"                        -> "CONNECTION_REFUSED"
      [] OTHER                                       -> "UNKNOWN"

IsDeadSignal(reason) ==
    reason \in {"DNS_FAILURE", "CONNECTION_REFUSED", "NOT_FOUND", "TLS_ERROR"}

(* A slip: whatever is not a page is a dead site.                             *)
ResolveWebsiteStatusAnyFailure(reason) ==
    IF reason # "JS_REQUIRED" THEN "DEAD" ELSE "LIVE"
ResolveWebsiteStatus(reason) == IF IsDeadSignal(reason) THEN "DEAD" ELSE "LIVE"

-----------------------------------------------------------------------------
(* Does the ray from the point cross the edge from p to q?  Points are pairs  *)
(* <<latitude, longitude>>; the division by q[1] - p[1] is multiplied out.    *)
(* A slip: both ends of the edge may touch the ray.                           *)
CrossesAtBothEnds(lat, lon, p, q) ==
    /\ (p[1] >= lat) # (q[1] > lat)
    /\ LET left == (lon - p[2]) * (q[1] - p[1])
           right == (q[2] - p[2]) * (lat - p[1])
       IN  IF q[1] > p[1] THEN left < right ELSE left > right
Crosses(lat, lon, p, q) ==
    /\ (p[1] > lat) # (q[1] > lat)
    /\ LET left == (lon - p[2]) * (q[1] - p[1])
           right == (q[2] - p[2]) * (lat - p[1])
       IN  IF q[1] > p[1] THEN left < right ELSE left > right

PointInPolygon(lat, lon, polygon) ==
    LET n == Len(polygon)
        crossed == {i \in 1..n : Crosses(lat, lon, polygon[i],
                                         polygon[IF i = 1 THEN n ELSE i - 1])}
    IN  n >= 3 /\ Cardinality(crossed) % 2 = 1

PointInAnyPolygon(lat, lon, polygons) ==
    \E polygon \in polygons : PointInPolygon(lat, lon, polygon)

(* The reference: a point is strictly inside a triangle when it lies on the   *)
(* same side of its three edges, and strictly outside when two edges have it  *)
(* on opposite sides.                                                         *)
Side(point, p, q) ==
    (q[1] - p[1]) * (point[2] - p[2]) - (q[2] - p[2]) * (point[1] - p[1])

MatchesHalfPlanes(point, a, b, c) ==
    LET sides == {Side(point, a, b), Side(point, b, c), Side(point, c, a)}
        inside == PointInPolygon(point[1], point[2], <<a, b, c>>)
    IN  /\ ((\A s \in sides : s > 0) \/ (\A s \in sides : s < 0)) => inside
        /\ ((\E s \in sides : s > 0) /\ (\E s \in sides : s < 0)) => ~inside

(* The polygon filter agrees with the half planes of every triangle, a vertex *)
(* or a level edge on the ray included (maps/geo.py:33-55).                   *)
TrianglesMatchHalfPlanes ==
    \A point, a, b, c \in Place : MatchesHalfPlanes(point, a, b, c)

-----------------------------------------------------------------------------
(* Maps listings.  A raw listing is a record of values, "parsed" what the     *)
(* address parser found in its address (None where it found nothing); a       *)
(* country is its code in both.                                               *)
IsMissing(v) == v = None \/ (v.kind = "text" /\ v.s \in {"", "N/A", "na", "none", "null"})

Number(v) == IF v.kind = "text" THEN
                 IF v.s \in DOMAIN Numeral THEN Num(Numeral[v.s]) ELSE None
             ELSE v

(* Ratings in tenths, coordinates in degrees.                                 *)
Bounds == [rating |-> 0..50, latitude |-> -90..90, longitude |-> -180..180,
           review_count |-> Nat]

NormalizeNumber(key, v) ==
    LET parsed == Number(v)
    IN  IF parsed.kind = "num" /\ parsed.n \in Bounds[key] THEN parsed ELSE NA

NormalizeValue(key, v, country) ==
    IF IsMissing(v) THEN NA
    ELSE CASE key \in {"phone", "phone_international"} -> Dialled[country][v]
           [] key \in DOMAIN Bounds                    -> NormalizeNumber(key, v)
           [] OTHER                                    -> v

CountryHint(raw, parsed, default) ==
    IF ~IsMissing(Get(raw, "country")) THEN raw.country.s
    ELSE IF parsed.country # None THEN parsed.country.s ELSE default

AddressColumns == {"city", "state", "postal_code", "country"}
(* What enrichment will fill is in the record from the start, N/A till then.  *)
EnrichmentColumns ==
    {"website_status", "website_failure_reason", "emails", "email_count",
     "decision_maker_title", "mx_status", "smtp_status", "smtp_reason", "sentiment_score",
     "lead_score", "pitch_hook", "top_review"} \cup DOMAIN RichSignals
PlainColumns == DOMAIN Bounds \cup AddressColumns \cup EnrichmentColumns \cup
                {"business_name", "phone", "phone_international", "website", "address",
                 "full_address"}
Columns == PlainColumns \cup Platforms

NormalizeListing(raw, parsed, default) ==
    LET country == CountryHint(raw, parsed, default)
        plain == [key \in Columns |-> NormalizeValue(key, Get(raw, key), country)]
        Filled(key) ==
            CASE key = "address" /\ IsMissing(plain.address) -> plain.full_address
              [] key = "full_address" /\ IsMissing(plain.full_address) -> plain.address
              [] key \in AddressColumns /\ IsMissing(plain[key]) /\ parsed[key] # None ->
                     parsed[key]
              [] key = "phone_international" /\ IsMissing(plain[key]) -> plain.phone
              [] OTHER -> plain[key]
    IN  [key \in Columns |-> Filled(key)]

=============================================================================
