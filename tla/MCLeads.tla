------------------------------- MODULE MCLeads -------------------------------
(* Two threads and five listings: a business with a live website, one whose   *)
(* site is gone and whose Maps profile is the first one's, a second listing   *)
(* of the first, a listing without a name, and one outside the polygon.       *)
EXTENDS LeadFlow, TLC

Listing(name, site, rating, fb, lat) ==
    [business_name |-> name, website |-> site, rating |-> rating, facebook |-> fb,
     latitude |-> lat, longitude |-> Num(1), review_count |-> Text("12"),
     phone |-> Text("5550100"), full_address |-> Text("street, town")]

Plain == <<"live", "gone", "twin", "nameless", "far">>
RawListing == [
    live     |-> Listing(Text("a"), Text("s1"), Num(45), None, Num(1)),
    gone     |-> Listing(Text("b"), Text("s2"), Text("4.2"), Text("fb1"), None),
    twin     |-> Listing(Text("a"), NA, Num(45), None, Num(1)),
    nameless |-> Listing(None, None, Num(99), None, Num(1)),
    far      |-> Listing(Text("c"), None, None, None, Num(7))]
Address == [l \in {Plain[i] : i \in 1..5} |->
    [city |-> Text("town"), state |-> None, postal_code |-> None, country |-> None]]
BusinessOf == [live |-> "a", gone |-> "b", twin |-> "a", nameless |-> "n", far |-> "c"]
Numerals == ("4.2" :> 42) @@ ("12" :> 12)
Numbers == [us |-> (Text("5550100") :> Text("+15550100"))]
Square == {<< <<0, 0>>, <<0, 3>>, <<3, 3>>, <<3, 0>> >>}

Email(id, domain) == [id |-> id, domain |-> domain, marks |-> {}]
Link(host, path, id) == [host |-> host, redirect |-> FALSE, path |-> path, id |-> id]
LinkTexts == [fb1 |-> Link("facebook", "profile", "fb1")]
Home == [s1 |-> "p1", s2 |-> "q1"]
Token(word, marks) == [word |-> word, marks |-> marks]
Staff == <<[name |-> <<Token("our", {"heading"}), Token("crew", {"role"})>>, title |-> "owner",
            cta |-> FALSE],
           [name |-> <<Token("ann", {}), Token("bell", {})>>, title |-> "founder", cta |-> FALSE]>>
Contents == [
    p1 |-> [emails |-> <<Email("v", "vendor"), Email("e1", "s1")>>,
            links |-> <<Link("facebook", "share", "fbx"), Link("facebook", "profile", "fb1")>>,
            pages |-> <<"p2", "x", "p2">>, marks |-> {"fbq", "24h"},
            people |-> Staff],
    p2 |-> [emails |-> <<Email("e2", "mail")>>, links |-> <<>>, pages |-> <<>>, marks |-> {},
            people |-> <<>>],
    q1 |-> [emails |-> <<Email("e3", "s2")>>, links |-> <<>>, pages |-> <<>>, marks |-> {},
            people |-> <<>>],
    q2 |-> [emails |-> <<Email("e4", "s2")>>, links |-> <<>>, pages |-> <<>>, marks |-> {},
            people |-> <<>>]]
Sitemaps == [s1 |-> <<>>, s2 |-> <<"q2">>]
Hosts == [p1 |-> "h1", p2 |-> "h1", q1 |-> "h2", q2 |-> "h2", x |-> "h3"]
Promises == [p1 |-> 11, p2 |-> 0, q1 |-> 11, q2 |-> 1, x |-> 0]

Response(status, short) == [exc |-> "none", status |-> status, short |-> short]
Raised(exc) == [exc |-> exc, status |-> 0, short |-> FALSE]
Homes == [s1 |-> {Response(200, FALSE), Response(200, TRUE), Response(403, FALSE),
                  Raised("InvalidURL"), Raised("gaierror")},
          s2 |-> {Response(404, FALSE)}]
Pages == {Response(200, FALSE), Raised("ReadTimeout")}

HostsOf == [s1 |-> <<"m1">>, s2 |-> <<"m2", "m3">>, mail |-> <<>>]
Mailboxes == [e1 |-> "real", e2 |-> "unknown", e3 |-> "catchall", e4 |-> "unknown"]
Domains == [s1 |-> "s1", s2 |-> "s2"]
Signals24 == <<[column |-> "open_24h", keywords |-> {"24h"}, all |-> TRUE, enabled |-> TRUE]>>
Review(id, words) == [id |-> id, words |-> words]
Praise == Review("r1", <<"great", "the", "pipes", "crew">>)
Blame == Review("r2", <<"rude", "slow", "great", "prices">>)
ReviewsOf == [l \in DOMAIN RawListing |->
    CASE l = "live" -> <<Praise, Blame, Praise>>
      [] l = "gone" -> <<Blame, Review("r3", <<"ok">>)>>
      [] OTHER      -> <<>>]
SocialColumns == <<"facebook">>
Cols == {"business_name", "rating", "website", "website_status", "emails", "smtp_status",
         "smtp_reason", "open_24h", "facebook"}

Cond(field, op, value, negate) ==
    [field |-> field, op |-> op, value |-> value, negate |-> negate]
NoFilters == [g \in Groups |-> {}]
Configured == {
    [NoFilters EXCEPT !.include_all = {Cond("rating_num", ">=", Num(40), FALSE),
                                       Cond("email_found", "=", Text("yes"), FALSE)}],
    [NoFilters EXCEPT !.exclude_any = {Cond("open_24h", "=", Text("yes"), FALSE),
                                       Cond("website_status", "=", Text("DEAD"), FALSE)}]}
LateFields == {"email_found", "emails", "website_status", "facebook"}

(* The threads are alike.                                                     *)
Threads == Permutations(Worker)

-----------------------------------------------------------------------------
(* Filters and records enough to tell the groups and the operators apart.     *)
TrialConds == {Cond("rating", ">=", Num(40), FALSE), Cond("rating", "<", Num(40), TRUE),
               Cond("email_found", "!=", Text("no"), FALSE),
               Cond("website_status", "in", [kind |-> "list", items |-> {Text("DEAD")}], FALSE),
               Cond("open_24h", "contains", Text("yes"), FALSE)}
TrialFilters ==
    LET placed == Groups \X TrialConds
        With(S) == [g \in Groups |-> {p[2] : p \in {q \in S : q[1] = g}}]
    IN  {With({p, q, r}) : p \in placed, q \in placed, r \in placed} \cup {With({})}
TrialRecords ==
    [rating : {NA, Num(35), Num(45)}, website : {NA, Text("s1")}, emails : {NA, Text("e1")},
     website_status : {Text("LIVE"), Text("DEAD")}, open_24h : {Text("yes")}]
Prints == {<<Flag(TRUE), Flag(TRUE)>>}

TrialsOf == [filters : TrialFilters, extra : {{"open_24h"}}, record : TrialRecords]

(* The points of a small map.                                                 *)
Grid == (0..3) \X (0..3)
=============================================================================
