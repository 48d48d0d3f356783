--------------------------- MODULE LeadFlowProofs ---------------------------
(* Proofs about LeadFlow: the counters of a run add up, a social profile is   *)
(* exported for one lead only, a committed row passed every filter, and says  *)
(* no more of a mailbox or a site than was found out.                         *)
EXTENDS LeadFlow, RulesProofs

-----------------------------------------------------------------------------
(* Sequences, by what they hold.                                              *)
LEMMA NoElements == ASeq(<<>>) /\ Len(<<>>) = 0 /\ Range(<<>>) = {}
<1>1. <<>> \in Seq({})
  BY EmptySeq
<1>0. \A s \in Seq({}) : ASeq(s) /\ Range(s) \subseteq {}
  BY SeqOver
<1>2. ASeq(<<>>) /\ Range(<<>>) \subseteq {}
  BY <1>0, <1>1, Zenon
<1>3. Len(<<>>) = 0
  OBVIOUS
<1>4. Range(<<>>) = {}
  BY <1>2, Zenon
<1> QED
  BY <1>2, <1>3, <1>4, Zenon

LEMMA OneSeq ==
  ASSUME NEW x
  PROVE  ASeq(<<x>>) /\ Len(<<x>>) = 1 /\ Range(<<x>>) = {x}
  BY DEF ASeq, Range

LEMMA AppendSeq ==
  ASSUME NEW s, ASeq(s), NEW x
  PROVE  /\ ASeq(Append(s, x)) /\ Len(Append(s, x)) = Len(s) + 1 /\ Len(s) \in Nat
         /\ Range(Append(s, x)) = Range(s) \cup {x}
<1> DEFINE T == Range(s) \cup {x}
           t == Append(s, x)
<1>1. s \in Seq(T) /\ x \in T
  BY DEF ASeq
<1>2. t \in Seq(T) /\ Len(t) = Len(s) + 1 /\ Len(s) \in Nat
  BY <1>1
<1>3. \A i \in 1..Len(s) : t[i] = s[i]
  BY <1>1
<1>4. t[Len(s) + 1] = x
  BY <1>1
<1>5. DOMAIN t = 1..Len(s) + 1 /\ DOMAIN s = 1..Len(s)
  BY <1>1, <1>2
<1>6. T \subseteq Range(t)
  BY <1>2, <1>3, <1>4, <1>5 DEF Range
<1>7. ASeq(t) /\ Range(t) \subseteq T
  BY <1>2, SeqOver
<1> QED
  BY <1>2, <1>6, <1>7

LEMMA TailSeq ==
  ASSUME NEW s, ASeq(s), s # <<>>
  PROVE  /\ ASeq(Tail(s)) /\ Len(s) \in Nat \ {0} /\ Len(Tail(s)) = Len(s) - 1
         /\ Range(Tail(s)) \subseteq Range(s) /\ Head(s) \in Range(s)
<1>1. s \in Seq(Range(s))
  BY DEF ASeq
<1>2. Tail(s) \in Seq(Range(s)) /\ Head(s) \in Range(s)
  BY <1>1
<1>3. Len(s) \in Nat \ {0} /\ Len(Tail(s)) = Len(s) - 1
  BY <1>1
<1> QED
  BY <1>2, <1>3, SeqOver

LEMMA ConcatSeq ==
  ASSUME NEW s, ASeq(s), NEW t, ASeq(t)
  PROVE  /\ ASeq(s \o t) /\ Len(s \o t) = Len(s) + Len(t) /\ Len(s) \in Nat /\ Len(t) \in Nat
         /\ Range(s \o t) \subseteq Range(s) \cup Range(t)
<1> DEFINE T == Range(s) \cup Range(t)
<1>1. s \in Seq(T) /\ t \in Seq(T)
  BY DEF ASeq
<1>2. s \o t \in Seq(T) /\ Len(s \o t) = Len(s) + Len(t) /\ Len(s) \in Nat /\ Len(t) \in Nat
  BY <1>1
<1> QED
  BY <1>2, SeqOver
-----------------------------------------------------------------------------
(* Filters: a condition reads one column.                                     *)
ColumnOf(field) ==
    CASE field = "website"     -> "website"
      [] field = "email_found" -> "emails"
      [] field \in {"meta_pixel", "ga4"} -> field
      [] field = "gtm"         -> "tag_manager"
      [] OTHER -> IF field \in DOMAIN Aliases THEN Aliases[field] ELSE field

LEMMA CompareReads ==
  ASSUME NEW r, NEW q, NEW c, Get(r, ColumnOf(c.field)) = Get(q, ColumnOf(c.field))
  PROVE  Compare(r, c) = Compare(q, c)
<1>1. FieldValue(r, c.field) = FieldValue(q, c.field)
  <2> DEFINE f == c.field
  <2>1. CASE f = "website"
    BY <2>1 DEF ColumnOf, FieldValue
  <2>2. CASE f = "email_found"
    BY <2>2 DEF ColumnOf, FieldValue
  <2>3. CASE f \in {"meta_pixel", "ga4"}
    BY <2>3 DEF ColumnOf, FieldValue
  <2>4. CASE f = "gtm"
    BY <2>4 DEF ColumnOf, FieldValue
  <2>5. CASE f \notin {"website", "email_found", "meta_pixel", "ga4", "gtm"}
    <3> DEFINE k == IF f \in DOMAIN Aliases THEN Aliases[f] ELSE f
    <3>1. ColumnOf(f) = k
      BY <2>5 DEF ColumnOf
    <3>2. \A rec : FieldValue(rec, f) = Get(rec, k)
      BY <2>5 DEF FieldValue
    <3> QED
      BY <3>1, <3>2
  <2> QED
    BY <2>1, <2>2, <2>3, <2>4, <2>5
<1> QED
  BY <1>1 DEF Compare

LEMMA EvaluateReads ==
  ASSUME NEW filters, NEW r, NEW q,
         \A g \in Groups : \A c \in filters[g] : Compare(r, c) = Compare(q, c)
  PROVE  Evaluate(r, filters) = Evaluate(q, filters)
<1>0. /\ "include_all" \in Groups /\ "include_any" \in Groups
      /\ "exclude_all" \in Groups /\ "exclude_any" \in Groups
  BY DEF Groups
<1>1. EvaluateAll(r, filters.include_all) = EvaluateAll(q, filters.include_all)
  BY <1>0 DEF EvaluateAll
<1>2. EvaluateAny(r, filters.include_any) = EvaluateAny(q, filters.include_any)
  BY <1>0 DEF EvaluateAny
<1>3. EvaluateAll(r, filters.exclude_all) = EvaluateAll(q, filters.exclude_all)
  BY <1>0 DEF EvaluateAll
<1>4. EvaluateAny(r, filters.exclude_any) = EvaluateAny(q, filters.exclude_any)
  BY <1>0 DEF EvaluateAny
<1> QED
  BY <1>1, <1>2, <1>3, <1>4 DEF Evaluate

(* What Maps shows, as opposed to what enrichment fills.                      *)
MapsColumns == PlainColumns \ EnrichmentColumns

(* Filters on columns that are settled when they are decided: early ones on   *)
(* what Maps shows, late ones on anything but the social columns, and where a *)
(* column may be absent (a custom signal of a lead without a website) they do *)
(* not tell that from N/A.                                                    *)
Blind(c) ==
    LET k == ColumnOf(c.field)
    IN  Compare([x \in {k} |-> NA], c) = Compare([x \in {} |-> NA], c)
FiltersSettled ==
    \A fs \in FilterSets : \A g \in Groups : \A c \in fs[g] :
        LET k == ColumnOf(c.field)
        IN  /\ k \in OutputColumns
            /\ ~IsLate(c, Custom) => k \in MapsColumns
            /\ IsLate(c, Custom) => k \notin Platforms /\ (k \in Columns \/ Blind(c))

LEMMA ColumnSets ==
  /\ MapsColumns \subseteq Columns /\ Platforms \subseteq Columns
  /\ EnrichmentColumns \subseteq Columns
  /\ MapsColumns \cap Platforms = {} /\ MapsColumns \cap EnrichmentColumns = {}
  /\ Platforms \cap EnrichmentColumns = {} /\ Custom \cap Columns = {}
<1>1. Custom \cap Columns = {} /\ Platforms \cap PlainColumns = {}
  BY LeadAssumption
<1>2. EnrichmentColumns \subseteq PlainColumns
  BY DEF PlainColumns
<1> QED
  BY <1>1, <1>2 DEF Columns, MapsColumns

LEMMA NamedColumns ==
  /\ {"website", "rating", "review_count", "business_name"} \subseteq MapsColumns
  /\ {"website_status", "website_failure_reason", "emails", "email_count",
      "decision_maker_title", "mx_status", "smtp_status", "smtp_reason", "sentiment_score",
      "lead_score", "pitch_hook", "top_review"} \subseteq EnrichmentColumns
  /\ BoolTechCols \cup SignalCols \subseteq EnrichmentColumns
<1>1. DOMAIN Bounds = {"rating", "latitude", "longitude", "review_count"}
  BY DEF Bounds
<1>2. DOMAIN RichSignals = {"meta_pixel", "ga4", "gtm", "analytics", "advertising",
        "booking_system", "chat_widget", "signal_pricing", "signal_financing",
        "signal_licensed_insured", "signal_established", "signal_portfolio",
        "signal_mobile_service", "signal_membership"}
  BY DEF RichSignals
<1>3. BoolTechCols \cup SignalCols \subseteq DOMAIN RichSignals
  BY <1>2 DEF BoolTechCols, SignalCols
<1>4. \A c \in {"website", "rating", "review_count", "business_name"} :
          c \in PlainColumns /\ c \notin EnrichmentColumns
  BY <1>1, <1>2 DEF PlainColumns, EnrichmentColumns
<1> QED
  BY <1>3, <1>4 DEF MapsColumns, EnrichmentColumns
-----------------------------------------------------------------------------
(* Records.                                                                   *)
MailOK(rec) ==
    EmailsToggle /\ rec.smtp_status = Text("Verified") =>
        Mailbox[rec.emails.s] \notin {"unknown", "catchall"}

(* A status is that of an answer among "told".                                *)
StatusOK(told, rec) ==
    /\ rec.website_status = Text("DEAD") => <<rec.website.s, TRUE>> \in told
    /\ rec.website_status = Text("LIVE") => <<rec.website.s, FALSE>> \in told

SiteKnown(rec) == rec.website \in Blank \/ rec.website.s \in DOMAIN HomeAnswers

Rated(rec) == Positive(rec.rating) \in Nat /\ Positive(rec.review_count) \in Nat
ScoreOK(rec) == rec.lead_score.n \in 0..100

(* What a record says at any stage of its way.                                *)
Sound(fs, told, rec) ==
    /\ Columns \subseteq DOMAIN rec
    /\ SiteKnown(rec) /\ StatusOK(told, rec) /\ MailOK(rec) /\ Rated(rec) /\ ScoreOK(rec)
    /\ FiltersSettled => Evaluate(rec, SplitFilters(fs, Custom).pre)

(* Before its e-mail is verified.                                             *)
Unverified(rec) == rec.smtp_status = NA

LEMMA TextsDiffer ==
  /\ \A a, b : Text(a) = Text(b) => a = b
  /\ \A a : Text(a).s = a
  /\ NA.s = "N/A" /\ NA # Text("Verified") /\ NA # Text("DEAD") /\ NA # Text("LIVE")
  BY DEF Text, NA

LEMMA NormalizedColumns ==
  ASSUME NEW raw, NEW parsed, NEW default,
         NEW c \in Columns, c \notin AddressColumns,
         c \notin {"address", "full_address", "phone_international"}
  PROVE  NormalizeListing(raw, parsed, default)[c]
             = NormalizeValue(c, Get(raw, c), CountryHint(raw, parsed, default))
  BY DEF NormalizeListing

LEMMA NormalizedDomain ==
  ASSUME NEW raw, NEW parsed, NEW default
  PROVE  DOMAIN NormalizeListing(raw, parsed, default) = Columns
  BY DEF NormalizeListing

LEMMA NormalizedSound ==
  ASSUME NEW l \in Lead
  PROVE  LET rec == NormalizeListing(Raw[l], Parsed[l], DefaultCountry)
         IN  /\ Columns \subseteq DOMAIN rec /\ Unverified(rec)
             /\ SiteKnown(rec) /\ StatusOK(answered, rec) /\ MailOK(rec) /\ Rated(rec) /\ ScoreOK(rec)
<1> DEFINE rec == NormalizeListing(Raw[l], Parsed[l], DefaultCountry)
           country == CountryHint(Raw[l], Parsed[l], DefaultCountry)
<1>1. \A c \in {"smtp_status", "website_status", "lead_score"} : rec[c] = NA
  <2> SUFFICES ASSUME NEW c \in {"smtp_status", "website_status", "lead_score"} PROVE rec[c] = NA
    OBVIOUS
  <2>1. c \in EnrichmentColumns /\ c \in Columns
    BY NamedColumns, ColumnSets
  <2>2. Get(Raw[l], c) = None
    BY <2>1, LeadAssumption DEF Get
  <2>3. NormalizeValue(c, None, country) = NA
    BY DEF NormalizeValue, IsMissing
  <2>4. rec[c] = NormalizeValue(c, Get(Raw[l], c), country)
    <3>1. c \notin AddressColumns /\ c \notin {"address", "full_address", "phone_international"}
      BY DEF AddressColumns
    <3> QED
      BY <2>1, <3>1, NormalizedColumns
  <2> QED
    BY <2>2, <2>3, <2>4
<1>2. SiteKnown(rec)
  <2> DEFINE v == Get(Raw[l], "website")
  <2>1. rec.website = NormalizeValue("website", v, country)
    <3>1. "website" \in Columns /\ "website" \notin AddressColumns
      BY NamedColumns, ColumnSets DEF AddressColumns
    <3> QED
      BY <3>1, NormalizedColumns
  <2>2. CASE IsMissing(v)
    <3>1. rec.website = NA
      BY <2>1, <2>2 DEF NormalizeValue
    <3> QED
      BY <3>1 DEF SiteKnown, Blank
  <2>3. CASE ~IsMissing(v)
    <3>1. "website" \notin DOMAIN Bounds
      BY DEF Bounds
    <3>2. rec.website = v
      BY <2>1, <2>3, <3>1 DEF NormalizeValue
    <3>3. "website" \in DOMAIN Raw[l] /\ v = Raw[l].website
      BY <2>3 DEF Get, IsMissing
    <3>4. v.s \in DOMAIN HomeAnswers
      BY <2>3, <3>3, LeadAssumption
    <3> QED
      BY <3>2, <3>4 DEF SiteKnown
  <2> QED
    BY <2>2, <2>3
<1>3. Columns \subseteq DOMAIN rec
  BY NormalizedDomain
<1>5. \A c \in {"rating", "review_count"} : Positive(rec[c]) \in Nat
  <2> SUFFICES ASSUME NEW c \in {"rating", "review_count"} PROVE Positive(rec[c]) \in Nat
    OBVIOUS
  <2>1. rec[c] = NormalizeValue(c, Get(Raw[l], c), country)
    <3>1. /\ c \in Columns /\ c \notin AddressColumns
          /\ c \notin {"address", "full_address", "phone_international"}
      BY NamedColumns, ColumnSets DEF AddressColumns
    <3> QED
      BY <3>1, NormalizedColumns
  <2>2. c \in DOMAIN Bounds /\ Bounds[c] \subseteq Nat
    BY DEF Bounds
  <2>3. rec[c] = NA \/ (rec[c].kind = "num" /\ rec[c].n \in Bounds[c])
    <3>1. rec[c] \in {NA, NormalizeNumber(c, Get(Raw[l], c))}
      BY <2>1, <2>2 DEF NormalizeValue
    <3> QED
      BY <3>1 DEF NormalizeNumber
  <2> HIDE DEF rec
  <2> QED
    BY <2>2, <2>3 DEF Positive, NA, Text
<1> HIDE DEF rec
<1>4. Unverified(rec) /\ StatusOK(answered, rec) /\ MailOK(rec) /\ ScoreOK(rec)
  <2>1. NA.n \in 0..100
    BY DEF NA, Text
  <2> QED
    BY <1>1, <2>1, TextsDiffer DEF Unverified, StatusOK, MailOK, ScoreOK
<1> QED
  BY <1>2, <1>3, <1>4, <1>5 DEF rec, Rated

(* A record that says the same of what Maps showed passes the same early      *)
(* filters.                                                                   *)
LEMMA EarlyFiltersKept ==
  ASSUME FiltersSettled, campaign \in FilterSets, NEW rec, NEW new,
         Columns \subseteq DOMAIN rec, Columns \subseteq DOMAIN new,
         \A c \in MapsColumns : new[c] = rec[c],
         Evaluate(rec, Split.pre)
  PROVE  Evaluate(new, Split.pre)
<1>1. \A g \in Groups : \A c \in Split.pre[g] : Compare(rec, c) = Compare(new, c)
  <2> SUFFICES ASSUME NEW g \in Groups, NEW c \in Split.pre[g]
               PROVE  Compare(rec, c) = Compare(new, c)
    OBVIOUS
  <2>1. c \in campaign[g] /\ ~IsLate(c, Custom)
    BY DEF Split, SplitFilters
  <2>2. ColumnOf(c.field) \in MapsColumns
    BY <2>1 DEF FiltersSettled
  <2>3. Get(rec, ColumnOf(c.field)) = Get(new, ColumnOf(c.field))
    BY <2>2, ColumnSets DEF Get
  <2> QED
    BY <2>3, CompareReads
<1> QED
  BY <1>1, EvaluateReads

LEMMA SoundKept ==
  ASSUME campaign \in FilterSets, NEW rec, NEW new, Sound(campaign, answered, rec),
         Columns \subseteq DOMAIN new, \A c \in MapsColumns : new[c] = rec[c],
         StatusOK(answered, new), MailOK(new), ScoreOK(new)
  PROVE  Sound(campaign, answered, new)
<1>1. new.website = rec.website
  BY NamedColumns
<1>2. SiteKnown(new)
  BY <1>1 DEF Sound, SiteKnown
<1>3. FiltersSettled => Evaluate(new, SplitFilters(campaign, Custom).pre)
  BY EarlyFiltersKept DEF Sound, Split
<1>4. Rated(new)
  BY NamedColumns DEF Sound, Rated
<1> QED
  BY <1>2, <1>3, <1>4 DEF Sound

LEMMA UpdatedColumns ==
  ASSUME NEW rec, NEW new
  PROVE  /\ DOMAIN Updated(rec, new) = DOMAIN rec \cup DOMAIN new
         /\ \A c \in DOMAIN new : Updated(rec, new)[c] = new[c]
         /\ \A c \in DOMAIN rec \ DOMAIN new : Updated(rec, new)[c] = rec[c]
  BY DEF Updated
LEMMA WithStatusSound ==
  ASSUME campaign \in FilterSets, NEW rec, Sound(campaign, answered, rec), NEW status, NEW reason,
         status = "DEAD" => <<rec.website.s, TRUE>> \in answered,
         status = "LIVE" => <<rec.website.s, FALSE>> \in answered
  PROVE  LET new == WithStatus(rec, status, reason)
         IN  /\ Sound(campaign, answered, new) /\ DOMAIN new = DOMAIN rec
             /\ \A c \in DOMAIN rec \ {"website_status", "website_failure_reason"} :
                    new[c] = rec[c]
<1> DEFINE put == [website_status |-> Text(status), website_failure_reason |-> Text(reason)]
           new == Updated(rec, put)
<1>0. WithStatus(rec, status, reason) = new
  BY DEF WithStatus
<1>1. /\ DOMAIN put = {"website_status", "website_failure_reason"}
      /\ put.website_status = Text(status)
  OBVIOUS
<1> HIDE DEF put
<1>u. /\ DOMAIN new = DOMAIN rec \cup DOMAIN put
      /\ \A c \in DOMAIN put : new[c] = put[c]
      /\ \A c \in DOMAIN rec \ DOMAIN put : new[c] = rec[c]
  BY UpdatedColumns, Zenon
<1> HIDE DEF new
<1>2. /\ DOMAIN new = DOMAIN rec \cup {"website_status", "website_failure_reason"}
      /\ \A c \in DOMAIN rec \ {"website_status", "website_failure_reason"} : new[c] = rec[c]
      /\ new.website_status = Text(status)
  BY <1>1, <1>u
<1>3. Columns \subseteq DOMAIN rec
  BY DEF Sound
<1>4. {"website_status", "website_failure_reason"} \subseteq DOMAIN rec
  BY <1>3, NamedColumns, ColumnSets
<1>5. DOMAIN new = DOMAIN rec
  BY <1>2, <1>4
<1>6. \A c \in MapsColumns : new[c] = rec[c]
  BY <1>2, <1>3, NamedColumns, ColumnSets
<1>7. StatusOK(answered, new)
  <2>1. new.website = rec.website
    BY <1>6, NamedColumns
  <2> QED
    BY <2>1, <1>2, TextsDiffer DEF StatusOK
<1>8. MailOK(new)
  <2>1. \A c \in {"smtp_status", "smtp_reason", "emails"} : new[c] = rec[c]
    BY <1>2, <1>3, NamedColumns, ColumnSets
  <2> QED
    BY <2>1 DEF MailOK, Sound
<1>10. ScoreOK(new)
  <2>1. new.lead_score = rec.lead_score
    BY <1>2, <1>3, NamedColumns, ColumnSets
  <2> QED
    BY <2>1 DEF ScoreOK, Sound
<1>9. Sound(campaign, answered, new)
  BY <1>3, <1>5, <1>6, <1>7, <1>8, <1>10, SoundKept
<1> QED
  BY <1>0, <1>2, <1>5, <1>9

LEMMA EnrichedSound ==
  ASSUME campaign \in FilterSets, NEW rec, Sound(campaign, answered, rec), Unverified(rec), NEW v, NEW emails,
         <<rec.website.s, IsDeadSignal(v.reason)>> \in answered
  PROVE  LET new == Enriched(rec, v, emails)
         IN  /\ Sound(campaign, answered, new) /\ Unverified(new)
             /\ EmailsToggle /\ emails # <<>> => new.emails = Text(emails[1].id)
<1> DEFINE status == WithStatus(rec, ResolveWebsiteStatus(v.reason), v.reason)
           put == [emails |-> IF emails = <<>> THEN NA ELSE Text(emails[1].id),
                   email_count |-> Num(Len(emails))]
           mail == IF ~EmailsToggle THEN status ELSE Updated(status, put)
           person == IF DecisionMakers THEN ExtractDecisionMaker(v.people) ELSE Nobody
           title == [decision_maker_title |-> Text(person.title)]
           maker == Updated(mail, title)
           profiles == MergeSocial(rec, DetectSocial(v.urls))
           social == IF SocialToggle THEN Updated(maker, profiles) ELSE maker
           outcome == RunSignals(v.marks, CustomSignals)
           signals == [c \in BoolTechCols \cup SignalCols \cup Custom |-> YesNo(outcome, c)]
           new == Updated(social, signals)
<1>0. Enriched(rec, v, emails) = new
  BY DEF Enriched
<1>1. /\ DOMAIN put = {"emails", "email_count"}
      /\ emails # <<>> => put.emails = Text(emails[1].id)
  OBVIOUS
<1>2. DOMAIN title = {"decision_maker_title"}
  OBVIOUS
<1>3. DOMAIN profiles = Platforms
  BY DEF MergeSocial
<1>4. DOMAIN signals = BoolTechCols \cup SignalCols \cup Custom
  OBVIOUS
<1>5. /\ Sound(campaign, answered, status) /\ DOMAIN status = DOMAIN rec
      /\ \A c \in DOMAIN rec \ {"website_status", "website_failure_reason"} :
             status[c] = rec[c]
  <2>1. /\ ResolveWebsiteStatus(v.reason) = "DEAD" => <<rec.website.s, TRUE>> \in answered
        /\ ResolveWebsiteStatus(v.reason) = "LIVE" => <<rec.website.s, FALSE>> \in answered
    <3>1. CASE IsDeadSignal(v.reason)
      BY <3>1 DEF ResolveWebsiteStatus, IsDeadSignal
    <3>2. CASE ~IsDeadSignal(v.reason)
      <4>1. IsDeadSignal(v.reason) = FALSE /\ ResolveWebsiteStatus(v.reason) = "LIVE"
        BY <3>2 DEF ResolveWebsiteStatus, IsDeadSignal
      <4>2. <<rec.website.s, FALSE>> \in answered
        BY <4>1, Zenon
      <4> QED
        BY <4>1, <4>2
    <3> QED
      BY <3>1, <3>2
  <2> QED
    BY <2>1, WithStatusSound
<1> HIDE DEF status, put, title, profiles, signals
<1>6. /\ DOMAIN mail = DOMAIN status \cup (IF EmailsToggle THEN {"emails", "email_count"} ELSE {})
      /\ \A c \in DOMAIN status \ {"emails", "email_count"} : mail[c] = status[c]
      /\ EmailsToggle /\ emails # <<>> => mail.emails = Text(emails[1].id)
  <2>1. CASE ~EmailsToggle
    <3>1. mail = status
      BY <2>1
    <3> QED BY <2>1, <3>1
  <2>2. CASE EmailsToggle
    <3>1. mail = Updated(status, put)
      BY <2>2
    <3> HIDE DEF mail
    <3>2. DOMAIN mail = DOMAIN status \cup DOMAIN put
      BY <3>1, UpdatedColumns, Zenon
    <3>3. \A c \in DOMAIN put : mail[c] = put[c]
      <4>1. \A c \in DOMAIN put : Updated(status, put)[c] = put[c]
        BY UpdatedColumns, ZenonT(40)
      <4> QED BY <3>1, <4>1
    <3>4. \A c \in DOMAIN status \ DOMAIN put : mail[c] = status[c]
      BY <3>1, UpdatedColumns, Zenon
    <3> QED BY <1>1, <2>2, <3>2, <3>3, <3>4
  <2> QED BY <2>1, <2>2
<1> HIDE DEF mail
<1>7. /\ DOMAIN maker = DOMAIN mail \cup {"decision_maker_title"}
      /\ \A c \in DOMAIN mail \ {"decision_maker_title"} : maker[c] = mail[c]
  BY <1>2, UpdatedColumns
<1> HIDE DEF maker
<1>8. /\ DOMAIN maker \subseteq DOMAIN social
      /\ \A c \in DOMAIN maker \ Platforms : social[c] = maker[c]
  <2>1. CASE ~SocialToggle
    <3>1. social = maker
      BY <2>1
    <3> QED BY <3>1
  <2>2. CASE SocialToggle
    <3>1. social = Updated(maker, profiles)
      BY <2>2
    <3> HIDE DEF social
    <3>2. /\ DOMAIN social = DOMAIN maker \cup DOMAIN profiles
          /\ \A c \in DOMAIN maker \ DOMAIN profiles : social[c] = maker[c]
      BY <3>1, UpdatedColumns, Zenon
    <3> QED BY <1>3, <3>2
  <2> QED BY <2>1, <2>2
<1> HIDE DEF social
<1>u. /\ DOMAIN new = DOMAIN social \cup DOMAIN signals
      /\ \A c \in DOMAIN signals : new[c] = signals[c]
      /\ \A c \in DOMAIN social \ DOMAIN signals : new[c] = social[c]
  BY UpdatedColumns, Zenon
<1> HIDE DEF new
<1>9. /\ DOMAIN social \subseteq DOMAIN new
      /\ \A c \in DOMAIN social \ (BoolTechCols \cup SignalCols \cup Custom) :
             new[c] = social[c]
  BY <1>4, <1>u
<1>10. Columns \subseteq DOMAIN status
  BY <1>5 DEF Sound
<1>11. Columns \subseteq DOMAIN new
  BY <1>6, <1>7, <1>8, <1>9, <1>10
<1>12. \A c \in Columns \ (Platforms \cup BoolTechCols \cup SignalCols
                               \cup {"decision_maker_title"}) : new[c] = mail[c]
  BY <1>6, <1>7, <1>8, <1>9, <1>10, ColumnSets
<1>13. \A c \in MapsColumns : new[c] = status[c]
  BY <1>6, <1>10, <1>12, ColumnSets, NamedColumns
<1>14. {"website_status", "smtp_status", "emails", "lead_score"} \cap
           (Platforms \cup BoolTechCols \cup SignalCols \cup {"decision_maker_title"}) = {}
  <2>1. {"website_status", "smtp_status", "emails", "lead_score"} \cap Platforms = {}
    BY ColumnSets, NamedColumns
  <2> QED
    BY <2>1 DEF BoolTechCols, SignalCols
<1>15. {"website_status", "smtp_status", "emails", "lead_score"} \subseteq Columns
  BY ColumnSets, NamedColumns
<1>16. /\ new.website_status = mail.website_status /\ new.smtp_status = mail.smtp_status
       /\ new.emails = mail.emails /\ new.lead_score = mail.lead_score
  BY <1>12, <1>14, <1>15
<1>17. /\ mail.website_status = status.website_status
       /\ mail.smtp_status = status.smtp_status /\ mail.lead_score = status.lead_score
  BY <1>6, <1>10, <1>15
<1>18. Unverified(new)
  BY <1>5, <1>10, <1>15, <1>16, <1>17 DEF Unverified, Sound
<1>19. StatusOK(answered, new)
  BY <1>5, <1>13, <1>16, <1>17, NamedColumns DEF StatusOK, Sound
<1>20. MailOK(new)
  BY <1>18, TextsDiffer DEF MailOK, Unverified
<1>22. ScoreOK(new)
  BY <1>5, <1>16, <1>17 DEF ScoreOK, Sound
<1>21. Sound(campaign, answered, new)
  BY <1>5, <1>11, <1>13, <1>19, <1>20, <1>22, SoundKept
<1> QED
  BY <1>0, <1>6, <1>16, <1>18, <1>21

LEMMA VerifiedSound ==
  ASSUME campaign \in FilterSets, NEW rec, Sound(campaign, answered, rec), NEW id, NEW mx, NEW smtp, NEW why,
         EmailsToggle => rec.emails = Text(id),
         smtp = "Verified" => Mailbox[id] \notin {"unknown", "catchall"}
  PROVE  Sound(campaign, answered, Updated(rec, [mx_status |-> Text(mx), smtp_status |-> Text(smtp),
                             smtp_reason |-> Text(why)]))
<1> DEFINE put == [mx_status |-> Text(mx), smtp_status |-> Text(smtp), smtp_reason |-> Text(why)]
           new == Updated(rec, put)
<1>1. /\ DOMAIN put = {"mx_status", "smtp_status", "smtp_reason"}
      /\ put.smtp_status = Text(smtp) /\ put.smtp_reason = Text(why)
  OBVIOUS
<1> HIDE DEF put
<1>u. /\ DOMAIN new = DOMAIN rec \cup DOMAIN put
      /\ \A c \in DOMAIN put : new[c] = put[c]
      /\ \A c \in DOMAIN rec \ DOMAIN put : new[c] = rec[c]
  BY UpdatedColumns, Zenon
<1> HIDE DEF new
<1>2. /\ DOMAIN rec \subseteq DOMAIN new
      /\ \A c \in DOMAIN rec \ {"mx_status", "smtp_status", "smtp_reason"} : new[c] = rec[c]
      /\ new.smtp_status = Text(smtp) /\ new.smtp_reason = Text(why)
  BY <1>1, <1>u
<1>3. Columns \subseteq DOMAIN rec
  BY DEF Sound
<1>4. \A c \in MapsColumns : new[c] = rec[c]
  BY <1>2, <1>3, NamedColumns, ColumnSets
<1>5. /\ new.website_status = rec.website_status /\ new.emails = rec.emails
      /\ new.lead_score = rec.lead_score
  BY <1>2, <1>3, NamedColumns, ColumnSets
<1>6. StatusOK(answered, new)
  BY <1>4, <1>5, NamedColumns DEF StatusOK, Sound
<1>7. MailOK(new)
  <2> SUFFICES ASSUME EmailsToggle, new.smtp_status = Text("Verified")
               PROVE  Mailbox[new.emails.s] \notin {"unknown", "catchall"}
    BY DEF MailOK
  <2>1. smtp = "Verified"
    BY <1>2, TextsDiffer
  <2>2. new.emails.s = id
    BY <1>5, TextsDiffer
  <2> QED
    BY <2>1, <2>2
<1>9. ScoreOK(new)
  BY <1>5 DEF ScoreOK, Sound
<1>8. Sound(campaign, answered, new)
  BY <1>2, <1>3, <1>4, <1>6, <1>7, <1>9, SoundKept
<1> QED
  BY <1>8 DEF new, put

(* A score is a percentage.                                                   *)
LEMMA ScoreRange ==
  ASSUME NEW n \in Nat, n <= 200000
  PROVE  Rounded(n, 2000) \in Nat /\ Rounded(n, 2000) <= 100
<1> DEFINE whole == n \div 2000
           rest == n % 2000
<1>1. /\ whole \in Nat /\ whole <= 100 /\ rest \in Nat /\ rest < 2000
      /\ whole = 100 => rest = 0
  OBVIOUS
<1>2. Rounded(n, 2000) = IF 2 * rest > 2000 \/ (2 * rest = 2000 /\ whole % 2 = 1)
                         THEN whole + 1 ELSE whole
  BY DEF Rounded
<1> HIDE DEF whole, rest
<1> QED
  BY <1>1, <1>2

LEMMA ScoreBounded ==
  ASSUME NEW rating, NEW count, NEW s \in Int, -1000 <= s, s <= 1000, NEW keywords \in Nat,
         Positive(rating) \in Nat, Positive(count) \in Nat
  PROVE  LeadScore(rating, count, s, keywords) \in 0..100
<1> DEFINE a == AtMost(1600 * Positive(rating), 80000)
           b == AtMost(400 * Positive(count), 40000)
           c == 25 * (s + 1000)
           d == AtMost(6000 * keywords, 30000)
<1>1. a \in Nat /\ a <= 80000
  BY DEF AtMost
<1>2. b \in Nat /\ b <= 40000
  BY DEF AtMost
<1>3. c \in Nat /\ c <= 50000
  OBVIOUS
<1>4. d \in Nat /\ d <= 30000
  BY DEF AtMost
<1>5. LeadScore(rating, count, s, keywords) = Rounded(a + b + c + d, 2000)
  BY DEF LeadScore
<1> HIDE DEF a, b, c, d
<1>6. a + b + c + d \in Nat /\ a + b + c + d <= 200000
  BY <1>1, <1>2, <1>3, <1>4
<1> DEFINE n == a + b + c + d
<1>7. n \in Nat /\ n <= 200000 /\ LeadScore(rating, count, s, keywords) = Rounded(n, 2000)
  BY <1>5, <1>6
<1> HIDE DEF n
<1>8. Rounded(n, 2000) \in Nat /\ Rounded(n, 2000) <= 100
  BY <1>7, ScoreRange
<1> QED
  BY <1>7, <1>8

(* What the analysis is given, and what it makes of it.                       *)
LEMMA ReviewsKnown ==
  ASSUME NEW l \in Lead
  PROVE  LET kept == FilterReviews(FirstSeen(Reviews[l]))
         IN  /\ SentimentScore(kept) \in Int /\ KeywordCount(kept) \in Nat
             /\ -1000 <= SentimentScore(kept) /\ SentimentScore(kept) <= 1000
<1> DEFINE shown == Reviews[l]
           once == FirstSeen(shown)
<1>1. /\ shown \in Seq(Range(shown))
      /\ \A r \in Range(shown) :
             r = [id |-> r.id, words |-> r.words] /\ r.words \in Seq(Range(r.words))
  BY LeadAssumption
<1> HIDE DEF shown
<1>2. once \in Seq(Range(shown))
  BY <1>1, FirstSeenType
<1> HIDE DEF once
<1>3. ReviewSeq(once)
  BY <1>1, <1>2, SeqOver DEF ReviewSeq, ASeq
<1> DEFINE kept == FilterReviews(once)
<1>4. ReviewSeq(kept)
  BY <1>3, FilterReviewsType
<1> HIDE DEF kept
<1> QED
  BY <1>4, SentimentBounds, KeywordCountType DEF kept, once, shown

LEMMA AnalyzedSound ==
  ASSUME campaign \in FilterSets, NEW rec, Sound(campaign, answered, rec), NEW put,
         DOMAIN put = {"sentiment_score", "lead_score", "pitch_hook", "top_review"},
         put.lead_score.n \in 0..100
  PROVE  Sound(campaign, answered, Updated(rec, put))
<1> DEFINE new == Updated(rec, put)
<1>u. /\ DOMAIN new = DOMAIN rec \cup DOMAIN put
      /\ \A c \in DOMAIN put : new[c] = put[c]
      /\ \A c \in DOMAIN rec \ DOMAIN put : new[c] = rec[c]
  BY UpdatedColumns, Zenon
<1> HIDE DEF new
<1>2. /\ DOMAIN rec \subseteq DOMAIN new
      /\ \A c \in DOMAIN rec \ {"sentiment_score", "lead_score", "pitch_hook", "top_review"} :
             new[c] = rec[c]
      /\ new.lead_score = put.lead_score
  BY <1>u
<1>3. Columns \subseteq DOMAIN rec
  BY DEF Sound
<1>4. \A c \in MapsColumns : new[c] = rec[c]
  BY <1>2, <1>3, NamedColumns, ColumnSets
<1>5. /\ new.website_status = rec.website_status /\ new.emails = rec.emails
      /\ new.smtp_status = rec.smtp_status /\ new.smtp_reason = rec.smtp_reason
  BY <1>2, <1>3, NamedColumns, ColumnSets
<1>6. StatusOK(answered, new)
  BY <1>4, <1>5, NamedColumns DEF StatusOK, Sound
<1>7. MailOK(new)
  BY <1>5 DEF MailOK, Sound
<1>9. ScoreOK(new)
  BY <1>2 DEF ScoreOK
<1>8. Sound(campaign, answered, new)
  BY <1>2, <1>3, <1>4, <1>6, <1>7, <1>9, SoundKept
<1> QED
  BY <1>8 DEF new
-----------------------------------------------------------------------------
(* Rows.                                                                      *)
RowOK(fs, told, row) ==
    /\ StatusOK(told, row) /\ MailOK(row) /\ PassesQuality(row)
    /\ FiltersSettled => Evaluate(row, fs)

LEMMA SoundGrows ==
  ASSUME NEW fs, NEW told, NEW more, told \subseteq more
  PROVE  /\ \A rec : Sound(fs, told, rec) => Sound(fs, more, rec)
         /\ \A row : RowOK(fs, told, row) => RowOK(fs, more, row)
  BY DEF Sound, RowOK, StatusOK

Owned(r) ==
    \A c \in Platforms :
        r.row[c] \notin Blank => r.row[c].s \in DOMAIN owner /\ owner[r.row[c].s] = r.lead

(* The record that is committed: perhaps without some of its profiles.        *)
Cleared(l, rec) == IF SocialToggle THEN Updated(rec, Claimed(l, rec)) ELSE rec

ClearedIs(mine, l, rec) ==
    /\ DOMAIN mine = DOMAIN rec
    /\ \A c \in DOMAIN rec \ Platforms : mine[c] = rec[c]
    /\ \A c \in Platforms : mine[c] \in {rec[c], NA}
    /\ SocialToggle => \A c \in Platforms : mine[c] = Claimed(l, rec)[c]

LEMMA ClearedColumns ==
  ASSUME NEW l, NEW rec, Columns \subseteq DOMAIN rec
  PROVE  ClearedIs(Cleared(l, rec), l, rec)
<1> DEFINE put == Claimed(l, rec)
           mine == Updated(rec, put)
<1>1. DOMAIN put = Platforms
  BY DEF Claimed
<1>2. \A c \in Platforms : put[c] \in {rec[c], NA}
  <2> SUFFICES ASSUME NEW c \in Platforms PROVE put[c] \in {rec[c], NA}
    OBVIOUS
  <2>1. Get(rec, c) = rec[c]
    BY ColumnSets DEF Get
  <2> QED
    BY <2>1 DEF Claimed
<1> HIDE DEF put
<1>3. /\ DOMAIN mine = DOMAIN rec \cup DOMAIN put
      /\ \A c \in DOMAIN put : mine[c] = put[c]
      /\ \A c \in DOMAIN rec \ DOMAIN put : mine[c] = rec[c]
  BY UpdatedColumns, Zenon
<1> HIDE DEF mine
<1>4. Platforms \subseteq DOMAIN rec
  BY ColumnSets
<1>5. CASE SocialToggle
  <2>1. Cleared(l, rec) = mine
    BY <1>5 DEF Cleared, mine, put
  <2>2. \A c \in Platforms : mine[c] = put[c]
    BY <1>1, <1>3
  <2>3. DOMAIN mine = DOMAIN rec /\ \A c \in DOMAIN rec \ Platforms : mine[c] = rec[c]
    BY <1>1, <1>3, <1>4
  <2> QED
    BY <1>2, <2>1, <2>2, <2>3 DEF put, ClearedIs
<1>6. CASE ~SocialToggle
  BY <1>6 DEF Cleared, ClearedIs
<1> QED
  BY <1>5, <1>6

LEMMA RowColumns ==
  ASSUME NEW l, NEW rec, Columns \subseteq DOMAIN rec
  PROVE  LET row == Row(Cleared(l, rec))
         IN  /\ DOMAIN row = OutputColumns
             /\ \A c \in OutputColumns \ Platforms :
                    row[c] = IF c \in DOMAIN rec THEN rec[c] ELSE NA
             /\ \A c \in Platforms : row[c] \in {rec[c], NA}
             /\ SocialToggle => \A c \in Platforms : row[c] = Claimed(l, rec)[c]
<1> DEFINE mine == Cleared(l, rec)
           row == Row(mine)
<1>0. ClearedIs(mine, l, rec)
  BY ClearedColumns
<1> HIDE DEF mine
<1>1. /\ DOMAIN mine = DOMAIN rec
      /\ \A c \in DOMAIN rec \ Platforms : mine[c] = rec[c]
      /\ \A c \in Platforms : mine[c] \in {rec[c], NA}
      /\ SocialToggle => \A c \in Platforms : mine[c] = Claimed(l, rec)[c]
  BY <1>0 DEF ClearedIs
<1>2. /\ DOMAIN row = OutputColumns
      /\ \A c \in OutputColumns : row[c] = IF c \in DOMAIN mine THEN mine[c] ELSE NA
  BY DEF Row
<1> HIDE DEF row
<1>3. Platforms \subseteq OutputColumns /\ Platforms \subseteq DOMAIN rec
  BY LeadAssumption, ColumnSets
<1>4. \A c \in OutputColumns \ Platforms : row[c] = IF c \in DOMAIN rec THEN rec[c] ELSE NA
  BY <1>1, <1>2
<1>5. \A c \in Platforms : row[c] = mine[c]
  BY <1>1, <1>2, <1>3
<1> QED
  BY <1>1, <1>2, <1>4, <1>5 DEF row, mine

LEMMA RowCompares ==
  ASSUME FiltersSettled, campaign \in FilterSets, NEW l, NEW rec, Columns \subseteq DOMAIN rec,
         NEW g \in Groups, NEW c \in campaign[g]
  PROVE  Compare(rec, c) = Compare(Row(Cleared(l, rec)), c)
<1> DEFINE row == Row(Cleared(l, rec))
           k == ColumnOf(c.field)
<1>1. /\ DOMAIN row = OutputColumns
      /\ \A x \in OutputColumns \ Platforms : row[x] = IF x \in DOMAIN rec THEN rec[x] ELSE NA
  BY RowColumns, Zenon
<1> HIDE DEF row
<1>2. /\ k \in OutputColumns
      /\ ~IsLate(c, Custom) => k \in MapsColumns
      /\ IsLate(c, Custom) => k \notin Platforms /\ (k \in Columns \/ Blind(c))
  BY DEF FiltersSettled
<1>3. k \in OutputColumns \ Platforms
  BY <1>2, ColumnSets
<1>4. CASE k \in DOMAIN rec
  <2>1. Get(rec, k) = Get(row, k)
    BY <1>1, <1>3, <1>4 DEF Get
  <2> QED
    BY <2>1, CompareReads DEF row
<1>5. CASE k \notin DOMAIN rec
  <2> DEFINE na == [x \in {k} |-> NA]
             no == [x \in {} |-> NA]
  <2>1. Compare(na, c) = Compare(no, c)
    <3>1. k \notin Columns
      BY <1>5
    <3>2. Blind(c)
      BY <1>2, <3>1, ColumnSets
    <3> QED
      BY <3>2 DEF Blind
  <2>2. Get(na, k) = NA /\ Get(row, k) = NA
    BY <1>1, <1>3, <1>5 DEF Get
  <2>3. Get(no, k) = None /\ Get(rec, k) = None
    BY <1>5 DEF Get
  <2>4. Compare(row, c) = Compare(na, c)
    BY <2>2, CompareReads
  <2>5. Compare(rec, c) = Compare(no, c)
    BY <2>3, CompareReads
  <2> QED
    BY <2>1, <2>4, <2>5 DEF row
<1> QED
  BY <1>4, <1>5

LEMMA RowSound ==
  ASSUME campaign \in FilterSets, NEW l, NEW rec, Sound(campaign, answered, rec),
         Evaluate(rec, Split.post), PassesQuality(rec)
  PROVE  RowOK(campaign, answered, Row(Cleared(l, rec)))
<1> DEFINE row == Row(Cleared(l, rec))
<1>0. Columns \subseteq DOMAIN rec
  BY DEF Sound
<1>1. /\ DOMAIN row = OutputColumns
      /\ \A c \in OutputColumns \ Platforms : row[c] = IF c \in DOMAIN rec THEN rec[c] ELSE NA
      /\ \A c \in Platforms : row[c] \in {rec[c], NA}
  BY <1>0, RowColumns, Zenon
<1>2. ASSUME FiltersSettled PROVE Evaluate(row, campaign)
  <2>1. Evaluate(rec, Split.pre)
    BY <1>2 DEF Sound, Split
  <2>2. Evaluate(rec, campaign)
    BY <2>1, TwoPasses DEF SplitAgrees, Split
  <2>3. \A g \in Groups : \A c \in campaign[g] : Compare(rec, c) = Compare(row, c)
    BY <1>0, <1>2, RowCompares
  <2> QED
    BY <2>2, <2>3, EvaluateReads
<1> HIDE DEF row
<1>3. \A c \in {"business_name", "rating", "website", "website_status", "emails",
                "smtp_status", "smtp_reason"} : row[c] = rec[c] /\ c \in DOMAIN rec
  <2>1. {"business_name", "rating", "website", "website_status", "emails",
         "smtp_status", "smtp_reason"} \subseteq Columns \ Platforms
    BY NamedColumns, ColumnSets
  <2>2. {"business_name", "rating", "website", "website_status", "emails",
         "smtp_status", "smtp_reason"} \subseteq OutputColumns
    BY LeadAssumption
  <2> QED
    BY <1>0, <1>1, <2>1, <2>2
<1>4. StatusOK(answered, row) /\ MailOK(row)
  BY <1>3 DEF Sound, StatusOK, MailOK
<1>5. PassesQuality(row)
  <2>1. Get(row, "business_name") = Get(rec, "business_name")
        /\ Get(row, "rating") = Get(rec, "rating")
    <3>1. {"business_name", "rating"} \subseteq OutputColumns
      BY LeadAssumption
    <3> QED
      BY <1>1, <1>3, <3>1 DEF Get
  <2>2. \A key \in DOMAIN row : row[key].s \notin Unprintable
    <3> SUFFICES ASSUME NEW key \in OutputColumns PROVE row[key].s \notin Unprintable
      BY <1>1
    <3>1. \/ key \in DOMAIN rec /\ row[key] = rec[key]
          \/ row[key] = NA
      BY <1>0, <1>1, ColumnSets
    <3>2. NA.s \notin Unprintable
      BY TextsDiffer, LeadAssumption
    <3> QED
      BY <3>1, <3>2 DEF PassesQuality
  <2> QED
    BY <2>1, <2>2 DEF PassesQuality
<1> QED
  BY <1>2, <1>4, <1>5 DEF RowOK, row

(* A profile is exported for the lead that claimed it.                        *)
LEMMA RowOwned ==
  ASSUME SocialToggle, NEW l, NEW rec, Columns \subseteq DOMAIN rec,
         owner' = Updated(Claims(l, rec), owner)
  PROVE  /\ \A u \in DOMAIN owner : u \in DOMAIN owner' /\ owner'[u] = owner[u]
         /\ \A c \in Platforms :
                LET u == Row(Cleared(l, rec))[c]
                IN  u \notin Blank => u.s \in DOMAIN owner' /\ owner'[u.s] = l
<1> DEFINE claims == Claims(l, rec)
           row == Row(Cleared(l, rec))
<1>1. /\ DOMAIN owner' = DOMAIN claims \cup DOMAIN owner
      /\ \A u \in DOMAIN owner : owner'[u] = owner[u]
      /\ \A u \in DOMAIN claims \ DOMAIN owner : owner'[u] = claims[u]
  BY DEF Updated
<1>2. /\ DOMAIN claims = {rec[c].s : c \in {p \in Platforms : Get(rec, p) \notin Blank}}
      /\ \A u \in DOMAIN claims : claims[u] = l
  BY DEF Claims
<1> HIDE DEF claims
<1>3. \A c \in Platforms : row[c] = Claimed(l, rec)[c]
  BY RowColumns, Zenon
<1> HIDE DEF row
<1>4. ASSUME NEW c \in Platforms, row[c] \notin Blank
      PROVE  row[c].s \in DOMAIN owner' /\ owner'[row[c].s] = l
  <2> DEFINE u == rec[c]
  <2>1. Get(rec, c) = u
    BY ColumnSets DEF Get
  <2>2. row[c] = IF u \notin Blank /\ u.s \in DOMAIN owner /\ owner[u.s] # l THEN NA ELSE u
    BY <1>3, <2>1 DEF Claimed
  <2>3. row[c] = u /\ u \notin Blank /\ (u.s \in DOMAIN owner => owner[u.s] = l)
    BY <1>4, <2>2 DEF Blank
  <2>4. u.s \in DOMAIN claims
    BY <1>2, <2>1, <2>3
  <2> QED
    BY <1>1, <1>2, <2>3, <2>4
<1>5. \A c \in Platforms : row[c] \notin Blank => row[c].s \in DOMAIN owner' /\ owner'[row[c].s] = l
  BY <1>4, Zenon
<1>6. \A u \in DOMAIN owner : u \in DOMAIN owner' /\ owner'[u] = owner[u]
  BY <1>1
<1> QED
  BY <1>5, <1>6 DEF row
-----------------------------------------------------------------------------
(* The inductive invariant.                                                   *)
Queued == Range(held) \cup Range(workQ) \cup Range(doneQ)

QueuesOK ==
    /\ ASeq(todo) /\ ASeq(held) /\ ASeq(workQ) /\ ASeq(doneQ)
    /\ Len(held) <= 1 /\ Len(workQ) <= MaxInFlight
    /\ Range(todo) \subseteq Lead
    /\ \A item \in Queued : DOMAIN item = {"lead", "rec"} /\ item.lead \in Lead

VisitStages == {"home", "render", "sitemap", "pages", "done", "raised"}
CheckStages == {"mx", "lookup", "smtp", "connect", "session", "done"}

(* Each thread has a lead or none, and a visit or a check only with it.       *)
HandOK(w) ==
    /\ DOMAIN doing[w] = {"lead", "rec", "at"}
    /\ doing[w].at \in {"free", "visit", "verify", "analyze"}
    /\ ~At(w, "free") => doing[w].lead \in Lead
    /\ DOMAIN visit[w] = DOMAIN NoVisit /\ DOMAIN check[w] = DOMAIN NoCheck
    /\ IF At(w, "visit") THEN visit[w].at \in VisitStages ELSE visit[w] = NoVisit
    /\ IF At(w, "verify") THEN check[w].at \in CheckStages ELSE check[w] = NoCheck
HandsOK ==
    /\ DOMAIN doing = Worker /\ DOMAIN visit = Worker /\ DOMAIN check = Worker
    /\ \A w \in Worker : HandOK(w)

CounterNames == {"collected", "deduped", "filtered", "committed", "failed"}
TallyOK ==
    /\ counts \in [CounterNames -> Nat] /\ outside \in Nat /\ unprinted \in Nat
    /\ CountersAddUp

(* What a visit and a check have found out so far is so.                      *)
VisitSound(w) == At(w, "visit") =>
    /\ doing[w].rec.website \notin Blank /\ visit[w].site = doing[w].rec.website.s
    /\ visit[w].at \notin {"home", "raised"} =>
           <<visit[w].site, IsDeadSignal(visit[w].reason)>> \in answered
CheckTold(c) ==
    /\ c.mx = "PASS" => MailHosts[c.domain] # <<>>
    /\ c.mx = "FAIL" => MailHosts[c.domain] = <<>>
    /\ c.at = "done" /\ c.smtp = "Verified" => Mailbox[c.id] \notin {"unknown", "catchall"}
CheckSound(w) ==
    /\ CheckTold(check[w])
    /\ At(w, "verify") /\ EmailsToggle => doing[w].rec.emails = Text(check[w].id)

HandSound(w) ==
    /\ ~At(w, "free") => Sound(campaign, answered, doing[w].rec)
    /\ At(w, "visit") => Unverified(doing[w].rec)
    /\ VisitSound(w) /\ CheckSound(w)
RecordsOK ==
    /\ \A item \in Queued : Sound(campaign, answered, item.rec)
    /\ \A item \in Range(held) \cup Range(workQ) : Unverified(item.rec)
    /\ \A w \in Worker : HandSound(w)

CacheOK ==
    /\ ASeq(mxCache) /\ Len(mxCache) <= CacheSize
    /\ \A i, j \in DOMAIN mxCache : mxCache[i].domain = mxCache[j].domain => i = j
    /\ \A entry \in Range(mxCache) :
        /\ entry.answer = "PASS" => MailHosts[entry.domain] # <<>>
        /\ entry.answer = "FAIL" => MailHosts[entry.domain] = <<>>

RowsOK ==
    /\ \A r \in rows : RowOK(campaign, answered, r.row)
    /\ SocialToggle => \A r \in rows : Owned(r)

IInv ==
    /\ campaign \in FilterSets
    /\ QueuesOK /\ HandsOK /\ TallyOK /\ RecordsOK /\ CacheOK /\ RowsOK
-----------------------------------------------------------------------------
(* The cache.                                                                 *)
LEMMA RemoveAtSeq ==
  ASSUME NEW s, ASeq(s), NEW i \in 1..Len(s)
  PROVE  LET t == RemoveAt(s, i)
         IN  /\ t \in Seq(Range(s)) /\ Len(t) = Len(s) - 1 /\ Len(s) \in Nat
             /\ \A j \in 1..Len(t) : t[j] = s[IF j < i THEN j ELSE j + 1]
<1> DEFINE a == SubSeq(s, 1, i - 1)
           b == SubSeq(s, i + 1, Len(s))
<1>1. s \in Seq(Range(s)) /\ Len(s) \in Nat
  BY DEF ASeq
<1>2. a \in Seq(Range(s)) /\ Len(a) = i - 1 /\ \A j \in 1..i - 1 : a[j] = s[j]
  BY <1>1
<1>3. b \in Seq(Range(s)) /\ Len(b) = Len(s) - i /\ \A j \in 1..Len(s) - i : b[j] = s[i + j]
  BY <1>1
<1>4. RemoveAt(s, i) = a \o b
  BY DEF RemoveAt
<1> HIDE DEF a, b
<1> DEFINE t == a \o b
<1>5. /\ t \in Seq(Range(s)) /\ Len(t) = Len(a) + Len(b)
      /\ \A j \in 1..Len(a) + Len(b) : t[j] = IF j <= Len(a) THEN a[j] ELSE b[j - Len(a)]
  BY <1>2, <1>3, ConcatProperties
<1> HIDE DEF t
<1>6. Len(t) = Len(s) - 1
  BY <1>1, <1>2, <1>3, <1>5
<1>7. ASSUME NEW j \in 1..Len(t) PROVE t[j] = s[IF j < i THEN j ELSE j + 1]
  <2>1. CASE j < i
    BY <1>1, <1>2, <1>3, <1>5, <1>6, <2>1
  <2>2. CASE ~(j < i)
    <3>1. j - (i - 1) \in 1..Len(s) - i /\ i + (j - (i - 1)) = j + 1
      BY <1>1, <1>6, <2>2
    <3>2. t[j] = b[j - (i - 1)]
      BY <1>1, <1>2, <1>3, <1>5, <1>6, <2>2
    <3> QED
      BY <1>3, <2>2, <3>1, <3>2
  <2> QED
    BY <2>1, <2>2
<1> QED
  BY <1>1, <1>4, <1>5, <1>6, <1>7 DEF t

LEMMA SuffixSeq ==
  ASSUME NEW s, ASeq(s), NEW k \in 0..Len(s)
  PROVE  LET t == SubSeq(s, k + 1, Len(s))
         IN  /\ t \in Seq(Range(s)) /\ Len(t) = Len(s) - k
             /\ \A j \in 1..Len(t) : t[j] = s[k + j]
<1>1. s \in Seq(Range(s)) /\ Len(s) \in Nat
  BY DEF ASeq
<1> QED
  BY <1>1

(* At most one entry for a domain.                                            *)
Distinct(s) == \A i, j \in DOMAIN s : s[i].domain = s[j].domain => i = j

LEMMA WithoutDomain ==
  ASSUME ASeq(mxCache), Distinct(mxCache), NEW domain
  PROVE  LET t == Without(domain)
         IN  /\ ASeq(t) /\ Distinct(t) /\ Range(t) \subseteq Range(mxCache)
             /\ Len(t) \in Nat /\ Len(mxCache) \in Nat /\ Len(t) <= Len(mxCache)
             /\ \A i \in DOMAIN t : t[i].domain # domain
<1> DEFINE s == mxCache
<1>0. Len(s) \in Nat /\ DOMAIN s = 1..Len(s)
  BY DEF ASeq
<1>1. CASE Places(domain) = {}
  BY <1>0, <1>1 DEF Without, Places
<1>2. CASE Places(domain) # {}
  <2>1. PICK i \in Places(domain) : Without(domain) = RemoveAt(s, i)
    BY <1>2 DEF Without
  <2> DEFINE t == RemoveAt(s, i)
  <2>2. i \in 1..Len(s) /\ s[i].domain = domain
    BY <1>0, <2>1 DEF Places
  <2>3. /\ t \in Seq(Range(s)) /\ Len(t) = Len(s) - 1
        /\ \A j \in 1..Len(t) : t[j] = s[IF j < i THEN j ELSE j + 1]
    BY <2>2, RemoveAtSeq
  <2> HIDE DEF t
  <2>4. DOMAIN t = 1..Len(s) - 1
    BY <1>0, <2>2, <2>3
  <2>5. ASSUME NEW j \in DOMAIN t PROVE t[j].domain # domain
    <3> DEFINE J == IF j < i THEN j ELSE j + 1
    <3>1. J \in DOMAIN s /\ J # i
      BY <1>0, <2>2, <2>4
    <3>2. t[j] = s[J]
      BY <1>0, <2>2, <2>3, <2>4
    <3> HIDE DEF J
    <3> QED
      BY <1>0, <2>2, <3>1, <3>2 DEF Distinct
  <2>6. Distinct(t)
    <3> SUFFICES ASSUME NEW j \in DOMAIN t, NEW k \in DOMAIN t, t[j].domain = t[k].domain
                 PROVE  j = k
      BY DEF Distinct
    <3> DEFINE J == IF j < i THEN j ELSE j + 1
               K == IF k < i THEN k ELSE k + 1
    <3>1. J \in DOMAIN s /\ K \in DOMAIN s
      BY <1>0, <2>2, <2>4
    <3>2. t[j] = s[J] /\ t[k] = s[K]
      BY <1>0, <2>2, <2>3, <2>4
    <3>3. J = K
      BY <3>1, <3>2 DEF Distinct
    <3>4. j \in Int /\ k \in Int /\ i \in Int
      BY <1>0, <2>2, <2>4
    <3> QED
      BY <3>3, <3>4
  <2>7. ASeq(t) /\ Range(t) \subseteq Range(s)
    BY <2>3, SeqOver
  <2>8. Len(t) \in Nat /\ Len(t) <= Len(s)
    BY <1>0, <2>2, <2>3
  <2> QED
    BY <1>0, <2>1, <2>5, <2>6, <2>7, <2>8 DEF t
<1> QED
  BY <1>1, <1>2

LEMMA CacheSetKeeps ==
  ASSUME CacheOK, NEW domain, NEW answer, CacheSet(domain, answer),
         answer = "PASS" => MailHosts[domain] # <<>>,
         answer = "FAIL" => MailHosts[domain] = <<>>
  PROVE  CacheOK'
<1> DEFINE t == Without(domain)
           e == [domain |-> domain, answer |-> answer]
           s == Append(t, e)
           excess == IF Len(s) > CacheSize THEN Len(s) - CacheSize ELSE 0
<1>1. /\ ASeq(t) /\ Distinct(t) /\ Range(t) \subseteq Range(mxCache)
      /\ Len(t) \in Nat /\ Len(mxCache) \in Nat /\ Len(t) <= Len(mxCache)
      /\ \A i \in DOMAIN t : t[i].domain # domain
  BY WithoutDomain DEF CacheOK, Distinct
<1>2. mxCache' = SubSeq(s, excess + 1, Len(s))
  BY DEF CacheSet
<1>3. e.domain = domain /\ e.answer = answer
  OBVIOUS
<1> HIDE DEF t, e
<1>4. ASeq(s) /\ Len(s) = Len(t) + 1 /\ Range(s) = Range(t) \cup {e}
  BY <1>1, AppendSeq
<1>5. Distinct(s)
  <2>1. t \in Seq(Range(t)) /\ DOMAIN t = 1..Len(t)
    BY <1>1 DEF ASeq
  <2>2. DOMAIN s = 1..Len(t) + 1 /\ s[Len(t) + 1] = e /\ \A i \in 1..Len(t) : s[i] = t[i]
    <3>1. t \in Seq(Range(t) \cup {e})
      BY <2>1
    <3> QED
      BY <1>1, <3>1
  <2> HIDE DEF s
  <2> SUFFICES ASSUME NEW i \in 1..Len(t) + 1, NEW j \in 1..Len(t) + 1,
                      s[i].domain = s[j].domain
               PROVE  i = j
    BY <2>2 DEF Distinct
  <2>3. CASE i \in 1..Len(t) /\ j \in 1..Len(t)
    BY <1>1, <2>1, <2>2, <2>3 DEF Distinct
  <2>4. CASE i = Len(t) + 1 /\ j \in 1..Len(t)
    BY <1>1, <1>3, <2>1, <2>2, <2>4
  <2>5. CASE j = Len(t) + 1 /\ i \in 1..Len(t)
    BY <1>1, <1>3, <2>1, <2>2, <2>5
  <2> QED
    BY <1>1, <2>3, <2>4, <2>5
<1> HIDE DEF s
<1>6. excess \in 0..Len(s) /\ Len(s) - excess <= CacheSize
  BY <1>1, <1>4, CacheAssumption
<1> HIDE DEF excess
<1>7. /\ mxCache' \in Seq(Range(s)) /\ Len(mxCache') = Len(s) - excess
      /\ \A j \in 1..Len(mxCache') : mxCache'[j] = s[excess + j]
  BY <1>2, <1>4, <1>6, SuffixSeq
<1>8. ASeq(mxCache)' /\ Range(mxCache') \subseteq Range(s)
  <2>1. ASeq(mxCache') /\ Range(mxCache') \subseteq Range(s)
    BY <1>7, SeqOver
  <2> QED
    BY <2>1 DEF ASeq
<1>9. \A i, j \in DOMAIN mxCache' : mxCache'[i].domain = mxCache'[j].domain => i = j
  <2>1. Len(s) \in Nat /\ DOMAIN s = 1..Len(s)
    BY <1>4 DEF ASeq
  <2>2. DOMAIN mxCache' = 1..Len(s) - excess
    BY <1>6, <1>7, <2>1
  <2> SUFFICES ASSUME NEW i \in 1..Len(s) - excess, NEW j \in 1..Len(s) - excess,
                      mxCache'[i].domain = mxCache'[j].domain
               PROVE  i = j
    BY <2>2
  <2>3. excess + i \in DOMAIN s /\ excess + j \in DOMAIN s
    BY <1>6, <2>1
  <2>4. mxCache'[i] = s[excess + i] /\ mxCache'[j] = s[excess + j]
    BY <1>7
  <2>5. excess + i = excess + j
    BY <1>5, <2>3, <2>4 DEF Distinct
  <2> QED
    BY <1>6, <2>1, <2>5
<1>10. \A entry \in Range(mxCache') :
        /\ entry.answer = "PASS" => MailHosts[entry.domain] # <<>>
        /\ entry.answer = "FAIL" => MailHosts[entry.domain] = <<>>
  BY <1>1, <1>3, <1>4, <1>8 DEF CacheOK
<1> QED
  BY <1>6, <1>7, <1>8, <1>9, <1>10 DEF CacheOK, ASeq
-----------------------------------------------------------------------------
(* The threads with a lead.                                                   *)
Busy == {w \in Worker : ~At(w, "free")}

LEMMA BusyFinite == IsFiniteSet(Busy) /\ Cardinality(Busy) \in Nat
<1>1. IsFiniteSet(Busy)
  BY LeadAssumption, FS_Subset DEF Busy
<1> QED
  BY <1>1, FS_CardinalityType

LEMMA BusySteps ==
  ASSUME NEW w \in Worker, \A v \in Worker \ {w} : At(v, "free")' = At(v, "free")
  PROVE  /\ At(w, "free") /\ ~At(w, "free")' => Cardinality(Busy') = Cardinality(Busy) + 1
         /\ ~At(w, "free") /\ At(w, "free")' => Cardinality(Busy') = Cardinality(Busy) - 1
         /\ At(w, "free")' = At(w, "free") => Cardinality(Busy') = Cardinality(Busy)
<1>0. IsFiniteSet(Busy) /\ Cardinality(Busy) \in Nat
  BY BusyFinite
<1>1. ASSUME At(w, "free"), ~At(w, "free")' PROVE Cardinality(Busy') = Cardinality(Busy) + 1
  <2>1. w \notin Busy /\ Busy' = Busy \cup {w}
    BY <1>1 DEF Busy
  <2> QED
    BY <1>0, <2>1, FS_AddElement
<1>2. ASSUME ~At(w, "free"), At(w, "free")' PROVE Cardinality(Busy') = Cardinality(Busy) - 1
  <2>1. w \in Busy /\ Busy' = Busy \ {w}
    BY <1>2 DEF Busy
  <2> QED
    BY <1>0, <2>1, FS_RemoveElement
<1>3. ASSUME At(w, "free")' = At(w, "free") PROVE Cardinality(Busy') = Cardinality(Busy)
  <2>1. Busy' = Busy
    BY <1>3 DEF Busy
  <2> QED
    BY <2>1
<1> QED
  BY <1>1, <1>2, <1>3

LEMMA NoneBusy == (\A w \in Worker : At(w, "free")) => Cardinality(Busy) = 0
<1> SUFFICES ASSUME \A w \in Worker : At(w, "free") PROVE Cardinality(Busy) = 0
  OBVIOUS
<1>1. Busy = {}
  BY DEF Busy
<1> QED
  BY <1>1, FS_EmptySet

LEMMA InFlightIs ==
  InFlight = Len(held) + Len(workQ) + Len(doneQ) + Cardinality(Busy)
  BY DEF InFlight, Busy

LEMMA InitInv == Init => IInv
<1> SUFFICES ASSUME Init PROVE IInv
  OBVIOUS
<1>1. /\ campaign \in FilterSets
      /\ todo = Listings /\ held = <<>> /\ workQ = <<>> /\ doneQ = <<>>
      /\ doing = [w \in Worker |-> Free] /\ rows = {}
      /\ counts = [c \in CounterNames |-> 0] /\ outside = 0 /\ unprinted = 0
      /\ visit = [w \in Worker |-> NoVisit] /\ check = [w \in Worker |-> NoCheck]
      /\ mxCache = <<>>
  BY DEF Init, CounterNames
<1>2. /\ ASeq(held) /\ ASeq(workQ) /\ ASeq(doneQ) /\ ASeq(mxCache)
      /\ Len(held) = 0 /\ Len(workQ) = 0 /\ Len(doneQ) = 0 /\ Len(mxCache) = 0
      /\ Range(held) = {} /\ Range(workQ) = {} /\ Range(doneQ) = {} /\ Range(mxCache) = {}
  BY <1>1, NoElements, Zenon
<1>3. QueuesOK
  <2>1. ASeq(todo) /\ Range(todo) \subseteq Lead
    BY <1>1, LeadAssumption DEF ASeq, Lead
  <2> QED
    BY <1>2, <2>1, LeadAssumption DEF QueuesOK, Queued
<1>4. \A w \in Worker : doing[w] = Free /\ visit[w] = NoVisit /\ check[w] = NoCheck
  BY <1>1
<1>5. /\ DOMAIN Free = {"lead", "rec", "at"} /\ Free.at = "free"
      /\ NoCheck.mx = "Not Checked" /\ NoCheck.at = "idle"
  BY DEF Free, NoCheck
<1>6. HandsOK
  BY <1>1, <1>4, <1>5 DEF HandsOK, HandOK, At
<1>7. TallyOK
  <2>1. Cardinality(Busy) = 0
    BY <1>4, <1>5, NoneBusy DEF At
  <2>2. InFlight = 0
    BY <1>2, <2>1, InFlightIs
  <2> QED
    BY <1>1, <2>2 DEF TallyOK, CountersAddUp, CounterNames
<1>8. RecordsOK
  <2>1. \A w \in Worker : At(w, "free") /\ ~At(w, "visit") /\ ~At(w, "verify")
    BY <1>4, <1>5 DEF At
  <2>2. \A w \in Worker : VisitSound(w) /\ CheckSound(w)
    BY <1>4, <1>5, <2>1 DEF VisitSound, CheckSound, CheckTold
  <2> QED
    BY <1>2, <2>1, <2>2 DEF RecordsOK, HandSound, Queued
<1>9. CacheOK
  <2>1. DOMAIN mxCache = {}
    BY <1>2 DEF ASeq
  <2> QED
    BY <1>2, <2>1, CacheAssumption DEF CacheOK
<1>10. RowsOK
  BY <1>1 DEF RowsOK
<1> QED
  BY <1>1, <1>3, <1>6, <1>7, <1>8, <1>9, <1>10 DEF IInv
-----------------------------------------------------------------------------
(* What the three parties leave alone.                                        *)
LEMMA HandsKept ==
  ASSUME IInv, UNCHANGED <<doing, visit, check>>
  PROVE  HandsOK' /\ Cardinality(Busy') = Cardinality(Busy)
<1>1. doing' = doing /\ visit' = visit /\ check' = check
  OBVIOUS
<1>2. HandsOK'
  BY <1>1 DEF IInv, HandsOK, HandOK, At
<1>3. Busy' = Busy
  BY <1>1 DEF Busy, At
<1> QED
  BY <1>2, <1>3

LEMMA InHandKept ==
  ASSUME IInv, UNCHANGED <<campaign, doing, visit, check>>, answered' = answered,
         \A item \in Queued' : Sound(campaign, answered, item.rec),
         \A item \in Range(held') \cup Range(workQ') : Unverified(item.rec)
  PROVE  RecordsOK'
<1>1. /\ campaign' = campaign /\ doing' = doing /\ visit' = visit /\ check' = check
      /\ answered' = answered
  OBVIOUS
<1>2. \A w \in Worker : HandSound(w)' = HandSound(w)
  BY <1>1 DEF HandSound, At, VisitSound, CheckSound, CheckTold
<1> QED
  BY <1>1, <1>2 DEF IInv, RecordsOK

LEMMA CacheKept ==
  ASSUME IInv, mxCache' = mxCache
  PROVE  CacheOK'
  BY DEF IInv, CacheOK, ASeq

LEMMA RowsKept ==
  ASSUME IInv, campaign' = campaign, rows' = rows, owner' = owner,
         answered \subseteq answered'
  PROVE  RowsOK'
<1>1. \A r \in rows' : RowOK(campaign, answered', r.row)
  BY SoundGrows DEF IInv, RowsOK
<1>2. SocialToggle => \A r \in rows' : Owned(r)'
  BY DEF IInv, RowsOK, Owned
<1> QED
  BY <1>1, <1>2 DEF RowsOK

(* The counters, as what has come in and what is settled.                     *)
HeldN == Len(held)
WorkN == Len(workQ)
DoneN == Len(doneQ)
BusyN == Cardinality(Busy)
Come == counts.collected + unprinted
Settled == counts.deduped + counts.filtered + counts.committed + counts.failed

LEMMA Flow == InFlight = HeldN + WorkN + DoneN + BusyN
  BY InFlightIs DEF HeldN, WorkN, DoneN, BusyN
LEMMA FlowNext == InFlight' = HeldN' + WorkN' + DoneN' + BusyN'
  BY DEF InFlight, Busy, HeldN, WorkN, DoneN, BusyN

LEMMA CounterNats ==
  ASSUME NEW f \in [CounterNames -> Nat]
  PROVE  /\ f.collected \in Nat /\ f.deduped \in Nat /\ f.filtered \in Nat
         /\ f.committed \in Nat /\ f.failed \in Nat
  BY DEF CounterNames

LEMMA Tallied ==
  ASSUME IInv
  PROVE  /\ HeldN \in Nat /\ WorkN \in Nat /\ DoneN \in Nat /\ BusyN \in Nat
         /\ InFlight = HeldN + WorkN + DoneN + BusyN
         /\ counts \in [CounterNames -> Nat] /\ outside \in Nat /\ unprinted \in Nat
         /\ Come \in Nat /\ Settled \in Nat /\ Come = Settled + InFlight + outside
<1>1. Len(held) \in Nat /\ Len(workQ) \in Nat /\ Len(doneQ) \in Nat
  BY DEF IInv, QueuesOK, ASeq
<1>2. HeldN \in Nat /\ WorkN \in Nat /\ DoneN \in Nat /\ BusyN \in Nat
  BY <1>1, BusyFinite DEF HeldN, WorkN, DoneN, BusyN
<1>3. counts \in [CounterNames -> Nat] /\ outside \in Nat /\ unprinted \in Nat
  BY DEF IInv, TallyOK
<1>4. Come \in Nat /\ Settled \in Nat
  BY <1>3, CounterNats DEF Come, Settled
<1>5. Come = Settled + InFlight + outside
  BY Zenon DEF IInv, TallyOK, CountersAddUp, Come, Settled
<1> QED
  BY <1>2, <1>3, <1>4, <1>5, Flow

LEMMA BumpTally ==
  ASSUME IInv, NEW c \in CounterNames, counts' = Bump(c), unprinted' = unprinted
  PROVE  /\ counts' \in [CounterNames -> Nat]
         /\ Come' = IF c = "collected" THEN Come + 1 ELSE Come
         /\ Settled' = IF c = "collected" THEN Settled ELSE Settled + 1
<1>1. counts \in [CounterNames -> Nat] /\ unprinted \in Nat
  BY Tallied
<1> QED
  BY <1>1, CounterNats DEF Bump, CounterNames, Come, Settled

LEMMA Bump2Tally ==
  ASSUME IInv, NEW c \in CounterNames, NEW e \in CounterNames, c # e, e # "collected",
         counts' = Bump2(c, e)
  PROVE  /\ counts' \in [CounterNames -> Nat]
         /\ Come' = (IF c = "collected" THEN counts.collected + 1 ELSE counts.collected)
                       + unprinted'
         /\ Settled' = IF c = "collected" THEN Settled + 1 ELSE Settled + 2
<1>1. counts \in [CounterNames -> Nat] /\ unprinted \in Nat
  BY Tallied
<1> QED
  BY <1>1, CounterNats DEF Bump2, CounterNames, Come, Settled

LEMMA TallyMoved ==
  ASSUME IInv, counts' \in [CounterNames -> Nat], outside' \in Nat, unprinted' \in Nat,
         Come' = Settled' + InFlight' + outside'
  PROVE  TallyOK'
  BY Zenon DEF TallyOK, CountersAddUp, Come, Settled

LEMMA TallyKept ==
  ASSUME IInv, UNCHANGED <<counts, outside, unprinted>>,
         HeldN' + WorkN' + DoneN' + BusyN' = HeldN + WorkN + DoneN + BusyN
  PROVE  TallyOK'
<1>1. counts' = counts /\ outside' = outside /\ unprinted' = unprinted
  OBVIOUS
<1>2. InFlight' = InFlight
  BY Flow, FlowNext
<1> QED
  BY <1>1, <1>2 DEF IInv, TallyOK, CountersAddUp

LEMMA NoneOrOne ==
  ASSUME NEW n \in {0, 1} PROVE n <= 1
  OBVIOUS
LEMMA RoomForOne ==
  ASSUME NEW size \in Nat, NEW n \in Nat, NEW m \in Nat, n < size, m <= 1
  PROVE  n + m <= size /\ 0 <= 1
  OBVIOUS
LEMMA NoMore ==
  ASSUME NEW size \in Nat, NEW n \in Nat, NEW m \in Nat, n <= m, m <= size
  PROVE  n <= size
  OBVIOUS
LEMMA OneLess ==
  ASSUME NEW size \in Nat, NEW n \in Nat \ {0}, n <= size
  PROVE  n - 1 <= size
  OBVIOUS

LEMMA CollectInv ==
  ASSUME IInv, Collect
  PROVE  IInv'
<1> DEFINE l == Head(todo)
           rec == NormalizeListing(Raw[l], Parsed[l], DefaultCountry)
           item == [lead |-> l, rec |-> rec]
<1>1. /\ todo # <<>> /\ held = <<>> /\ todo' = Tail(todo)
      /\ UNCHANGED <<campaign, workQ, doneQ, doing, rows, owner, calls, unprinted,
                     visit, answered, check, mxCache>>
  BY DEF Collect
<1>2. \/ /\ counts' = Bump("collected") /\ outside' = outside + 1 /\ held' = held
      \/ /\ counts' = Bump2("collected", "deduped") \/ counts' = Bump2("collected", "filtered")
         /\ held' = held /\ outside' = outside
      \/ /\ counts' = Bump("collected") /\ held' = <<item>> /\ outside' = outside
         /\ Evaluate(rec, Split.pre)
  BY Zenon DEF Collect
<1>3. l \in Lead /\ ASeq(todo') /\ Range(todo') \subseteq Lead
  <2>1. ASeq(Tail(todo)) /\ Range(Tail(todo)) \subseteq Range(todo) /\ l \in Range(todo)
    BY <1>1, TailSeq DEF IInv, QueuesOK
  <2> QED
    BY <1>1, <2>1 DEF IInv, QueuesOK
<1>4. /\ Columns \subseteq DOMAIN rec /\ Unverified(rec)
      /\ SiteKnown(rec) /\ StatusOK(answered, rec) /\ MailOK(rec) /\ Rated(rec) /\ ScoreOK(rec)
  BY <1>3, NormalizedSound, Zenon
<1> HIDE DEF rec, l
<1>5. DOMAIN item = {"lead", "rec"} /\ item.lead = l /\ item.rec = rec
  OBVIOUS
<1> HIDE DEF item
<1>6. ASeq(<<item>>) /\ Len(<<item>>) = 1 /\ Range(<<item>>) = {item}
  BY OneSeq, Zenon
<1>7. /\ ASeq(held) /\ Len(held) = 0 /\ Range(held) = {}
  BY <1>1, NoElements, Zenon
<1>8. /\ ASeq(held') /\ Len(held') \in {0, 1}
      /\ Range(held') \subseteq {item}
      /\ Range(held') # {} => Sound(campaign, answered, rec)
  <2>1. CASE held' = held
    BY <1>7, <2>1
  <2>2. CASE held' = <<item>> /\ Evaluate(rec, Split.pre)
    <3>1. Sound(campaign, answered, rec)
      BY <1>4, <2>2 DEF Sound, Split
    <3> QED
      BY <1>6, <2>2, <3>1
  <2> QED
    BY <1>2, <2>1, <2>2, Zenon
<1>9. Queued' \subseteq Queued \cup {item} /\ Range(held') \cup Range(workQ') \subseteq {item} \cup Range(workQ)
  BY <1>1, <1>8 DEF Queued
<1>10. QueuesOK'
  <2>1. \A x \in Queued' : DOMAIN x = {"lead", "rec"} /\ x.lead \in Lead
    BY <1>3, <1>5, <1>9 DEF IInv, QueuesOK
  <2>2. Len(workQ') <= MaxInFlight /\ Len(held') <= 1
    <3>1. workQ' = workQ /\ Len(workQ) <= MaxInFlight
      BY <1>1 DEF IInv, QueuesOK
    <3>2. Len(held') <= 1
      BY <1>8, NoneOrOne, Zenon
    <3> QED
      BY <3>1, <3>2, Zenon
  <2>3. ASeq(todo)' /\ ASeq(held)' /\ ASeq(workQ)' /\ ASeq(doneQ)'
    BY <1>1, <1>3, <1>8 DEF IInv, QueuesOK, ASeq
  <2> QED
    BY <1>3, <2>1, <2>2, <2>3 DEF QueuesOK
<1>11. HandsOK' /\ Cardinality(Busy') = Cardinality(Busy)
  BY <1>1, HandsKept
<1>12. TallyOK'
  <2>0. {"collected", "deduped", "filtered", "committed", "failed"} = CounterNames
    BY DEF CounterNames
  <2>1. /\ outside \in Nat /\ InFlight \in Nat /\ unprinted' = unprinted
        /\ unprinted' \in Nat /\ counts.collected \in Nat
        /\ Come \in Nat /\ Settled \in Nat /\ Come = Settled + InFlight + outside
    BY <1>1, Tallied, CounterNats, SMTT(40)
  <2>2. /\ InFlight' = HeldN' + WorkN + DoneN + BusyN /\ HeldN = 0
        /\ InFlight = WorkN + DoneN + BusyN /\ WorkN \in Nat /\ DoneN \in Nat /\ BusyN \in Nat
    <3>1. WorkN' = WorkN /\ DoneN' = DoneN /\ BusyN' = BusyN /\ HeldN = 0
      BY <1>1, <1>7, <1>11 DEF WorkN, DoneN, BusyN, HeldN
    <3> QED
      BY <3>1, FlowNext, Tallied
  <2>3. CASE counts' = Bump("collected") /\ outside' = outside + 1 /\ held' = held
    <3>1. /\ counts' \in [CounterNames -> Nat]
          /\ Come' = Come + 1 /\ Settled' = Settled
      BY <2>0, <2>1, <2>3, BumpTally
    <3>2. InFlight' = InFlight
      BY <2>2, <2>3 DEF HeldN
    <3>3. Come' = Settled' + InFlight' + outside' /\ outside' \in Nat
      BY <2>1, <2>3, <3>1, <3>2
    <3> QED
      BY <2>1, <3>1, <3>3, TallyMoved
  <2>4. CASE counts' = Bump2("collected", "deduped") /\ held' = held /\ outside' = outside
    <3>1. /\ counts' \in [CounterNames -> Nat]
          /\ Come' = Come + 1 /\ Settled' = Settled + 1
      <4>1. /\ counts' \in [CounterNames -> Nat] /\ Settled' = Settled + 1
            /\ Come' = counts.collected + 1 + unprinted'
        BY <2>0, <2>4, Bump2Tally
      <4>2. unprinted \in Nat
        BY Tallied
      <4>3. Come' = Come + 1
        BY <2>1, <4>1, <4>2 DEF Come
      <4> QED
        BY <4>1, <4>3
    <3>2. InFlight' = InFlight
      BY <2>2, <2>4 DEF HeldN
    <3>3. Come' = Settled' + InFlight' + outside' /\ outside' \in Nat
      BY <2>1, <2>4, <3>1, <3>2
    <3> QED
      BY <2>1, <3>1, <3>3, TallyMoved
  <2>5. CASE counts' = Bump2("collected", "filtered") /\ held' = held /\ outside' = outside
    <3>1. /\ counts' \in [CounterNames -> Nat]
          /\ Come' = Come + 1 /\ Settled' = Settled + 1
      <4>1. /\ counts' \in [CounterNames -> Nat] /\ Settled' = Settled + 1
            /\ Come' = counts.collected + 1 + unprinted'
        BY <2>0, <2>5, Bump2Tally
      <4>2. unprinted \in Nat
        BY Tallied
      <4>3. Come' = Come + 1
        BY <2>1, <4>1, <4>2 DEF Come
      <4> QED
        BY <4>1, <4>3
    <3>2. InFlight' = InFlight
      BY <2>2, <2>5 DEF HeldN
    <3>3. Come' = Settled' + InFlight' + outside' /\ outside' \in Nat
      BY <2>1, <2>5, <3>1, <3>2
    <3> QED
      BY <2>1, <3>1, <3>3, TallyMoved
  <2>6. CASE counts' = Bump("collected") /\ held' = <<item>> /\ outside' = outside
    <3>1. /\ counts' \in [CounterNames -> Nat]
          /\ Come' = Come + 1 /\ Settled' = Settled
      BY <2>0, <2>1, <2>6, BumpTally
    <3>2. InFlight' = InFlight + 1
      BY <2>2, <2>6, <1>6 DEF HeldN
    <3>3. Come' = Settled' + InFlight' + outside' /\ outside' \in Nat
      BY <2>1, <2>6, <3>1, <3>2
    <3> QED
      BY <2>1, <3>1, <3>3, TallyMoved
  <2> QED
    BY <1>2, <2>3, <2>4, <2>5, <2>6, Zenon
<1>13. RecordsOK'
  <2>1. \A x \in Queued' : Sound(campaign, answered, x.rec)
    BY <1>1, <1>5, <1>8 DEF IInv, RecordsOK, Queued
  <2>2. \A x \in Range(held') \cup Range(workQ') : Unverified(x.rec)
    BY <1>4, <1>5, <1>9 DEF IInv, RecordsOK
  <2> QED
    BY <1>1, <2>1, <2>2, InHandKept
<1>14. CacheOK' /\ RowsOK'
  BY <1>1, CacheKept, RowsKept
<1> QED
  BY <1>1, <1>10, <1>11, <1>12, <1>13, <1>14 DEF IInv
LEMMA EnqueueInv ==
  ASSUME IInv, Enqueue
  PROVE  IInv'
<1>1. /\ Len(workQ) < MaxInFlight /\ workQ' = workQ \o held /\ held' = <<>>
      /\ campaign' = campaign /\ todo' = todo /\ doneQ' = doneQ
      /\ UNCHANGED <<doing, visit, check>> /\ UNCHANGED <<counts, outside, unprinted>>
      /\ rows' = rows /\ owner' = owner /\ mxCache' = mxCache /\ answered' = answered
  BY DEF Enqueue, ledger
<1>2. ASeq(todo) /\ ASeq(held) /\ ASeq(workQ) /\ ASeq(doneQ) /\ Len(held) <= 1
  BY DEF IInv, QueuesOK
<1>3. ASeq(held') /\ Len(held') = 0 /\ Range(held') = {}
  BY <1>1, NoElements, Zenon
<1>4. /\ ASeq(workQ') /\ Len(workQ') = Len(workQ) + Len(held)
      /\ Len(workQ) \in Nat /\ Len(held) \in Nat
      /\ Range(workQ') \subseteq Range(workQ) \cup Range(held)
  <2>1. /\ ASeq(workQ \o held) /\ Len(workQ \o held) = Len(workQ) + Len(held)
        /\ Len(workQ) \in Nat /\ Len(held) \in Nat
        /\ Range(workQ \o held) \subseteq Range(workQ) \cup Range(held)
    BY <1>2, ConcatSeq, Zenon
  <2> QED
    BY <1>1, <2>1, Zenon
<1>5. Queued' \subseteq Queued
  BY <1>1, <1>3, <1>4 DEF Queued
<1>6. QueuesOK'
  <2>1. \A x \in Queued' : DOMAIN x = {"lead", "rec"} /\ x.lead \in Lead
    BY <1>5 DEF IInv, QueuesOK
  <2>2. Len(workQ') <= MaxInFlight /\ Len(held') <= 1
    BY <1>1, <1>2, <1>3, <1>4, RoomForOne, LeadAssumption, Zenon
  <2>3. ASeq(todo)' /\ ASeq(held)' /\ ASeq(workQ)' /\ ASeq(doneQ)'
    BY <1>1, <1>2, <1>3, <1>4 DEF ASeq
  <2> QED
    BY <1>1, <2>1, <2>2, <2>3 DEF IInv, QueuesOK
<1>7. HandsOK' /\ Cardinality(Busy') = Cardinality(Busy)
  BY <1>1, HandsKept
<1>8. TallyOK'
  <2>1. HeldN' = 0 /\ WorkN' = WorkN + HeldN /\ DoneN' = DoneN /\ BusyN' = BusyN
    BY <1>1, <1>3, <1>4, <1>7, Zenon DEF HeldN, WorkN, DoneN, BusyN
  <2>2. HeldN' + WorkN' + DoneN' + BusyN' = HeldN + WorkN + DoneN + BusyN
    BY <2>1, Tallied
  <2> QED
    BY <1>1, <2>2, TallyKept
<1>9. RecordsOK'
  <2>1. \A x \in Queued' : Sound(campaign, answered, x.rec)
    BY <1>5 DEF IInv, RecordsOK
  <2>2. \A x \in Range(held') \cup Range(workQ') : Unverified(x.rec)
    BY <1>3, <1>4 DEF IInv, RecordsOK
  <2> QED
    BY <1>1, <2>1, <2>2, InHandKept
<1>10. CacheOK' /\ RowsOK'
  BY <1>1, CacheKept, RowsKept
<1> QED
  BY <1>1, <1>6, <1>7, <1>8, <1>9, <1>10 DEF IInv
-----------------------------------------------------------------------------
(* A step of one thread leaves the others as they are.                        *)
Others(w) ==
    /\ DOMAIN doing' = Worker /\ DOMAIN visit' = Worker /\ DOMAIN check' = Worker
    /\ \A x \in Worker \ {w} :
        doing'[x] = doing[x] /\ visit'[x] = visit[x] /\ check'[x] = check[x]

LEMMA PutAt ==
  ASSUME NEW f, NEW w \in DOMAIN f, NEW x
  PROVE  LET g == [f EXCEPT ![w] = x]
         IN  DOMAIN g = DOMAIN f /\ g[w] = x /\ \A y \in DOMAIN f \ {w} : g[y] = f[y]
  OBVIOUS

LEMMA HandsStep ==
  ASSUME IInv, NEW w \in Worker, Others(w), HandOK(w)'
  PROVE  HandsOK'
<1>1. \A x \in Worker \ {w} : HandOK(x)' = HandOK(x)
  BY DEF Others, HandOK, At
<1> QED
  BY <1>1 DEF IInv, HandsOK, Others

LEMMA RecordsStep ==
  ASSUME IInv, NEW w \in Worker, Others(w), HandSound(w)', campaign' = campaign,
         answered \subseteq answered',
         \A item \in Queued' : Sound(campaign, answered, item.rec),
         \A item \in Range(held') \cup Range(workQ') : Unverified(item.rec)
  PROVE  RecordsOK'
<1>1. \A rec : Sound(campaign, answered, rec) => Sound(campaign, answered', rec)
  BY SoundGrows
<1>2. ASSUME NEW x \in Worker \ {w} PROVE HandSound(x)'
  <2>1. doing'[x] = doing[x] /\ visit'[x] = visit[x] /\ check'[x] = check[x]
    BY DEF Others
  <2>2. HandSound(x)
    BY DEF IInv, RecordsOK
  <2>3. VisitSound(x)' /\ CheckSound(x)'
    BY <2>1, <2>2 DEF HandSound, VisitSound, CheckSound, CheckTold, At
  <2> QED
    BY <1>1, <2>1, <2>2, <2>3 DEF HandSound, At
<1> QED
  BY <1>1, <1>2 DEF RecordsOK

LEMMA BusyMoves ==
  ASSUME IInv, NEW w \in Worker, Others(w)
  PROVE  /\ At(w, "free") /\ ~At(w, "free")' => BusyN' = BusyN + 1
         /\ ~At(w, "free") /\ At(w, "free")' => BusyN' = BusyN - 1
         /\ At(w, "free")' = At(w, "free") => BusyN' = BusyN
<1>1. \A v \in Worker \ {w} : At(v, "free")' = At(v, "free")
  BY DEF Others, At
<1> DEFINE b == Cardinality(Busy)
           c == Cardinality(Busy')
<1>2. /\ At(w, "free") /\ ~At(w, "free")' => c = b + 1
      /\ ~At(w, "free") /\ At(w, "free")' => c = b - 1
      /\ At(w, "free")' = At(w, "free") => c = b
  BY <1>1, BusySteps, Zenon
<1>3. b \in Nat /\ BusyN = b /\ BusyN' = c
  BY BusyFinite DEF BusyN
<1> HIDE DEF b, c
<1> QED
  BY <1>2, <1>3

(* A step that touches nothing but the hands of a thread and the cache.       *)
LEMMA ThreadStep ==
  ASSUME IInv, NEW w \in Worker, Others(w), HandOK(w)', HandSound(w)', CacheOK',
         ~At(w, "free"), ~At(w, "free")',
         UNCHANGED <<campaign, queues, doneQ, ledger>>, answered \subseteq answered'
  PROVE  IInv'
<1>1. /\ campaign' = campaign /\ todo' = todo /\ held' = held /\ workQ' = workQ
      /\ doneQ' = doneQ /\ UNCHANGED <<counts, outside, unprinted>>
      /\ rows' = rows /\ owner' = owner
  BY DEF queues, ledger
<1>2. QueuesOK' /\ Queued' = Queued
  BY <1>1 DEF IInv, QueuesOK, ASeq, Queued
<1>3. HandsOK'
  BY HandsStep
<1>4. TallyOK'
  <2>1. HeldN' = HeldN /\ WorkN' = WorkN /\ DoneN' = DoneN
    BY <1>1 DEF HeldN, WorkN, DoneN
  <2>2. BusyN' = BusyN
    <3>1. At(w, "free")' = At(w, "free")
      BY DEF At
    <3> QED
      BY <3>1, BusyMoves
  <2> QED
    BY <1>1, <2>1, <2>2, TallyKept
<1>5. RecordsOK'
  <2>1. \A x \in Queued' : Sound(campaign, answered, x.rec)
    BY <1>2 DEF IInv, RecordsOK
  <2>2. \A x \in Range(held') \cup Range(workQ') : Unverified(x.rec)
    BY <1>1 DEF IInv, RecordsOK
  <2> QED
    BY <1>1, <2>1, <2>2, RecordsStep
<1>6. RowsOK'
  BY <1>1, RowsKept
<1> QED
  BY <1>1, <1>2, <1>3, <1>4, <1>5, <1>6 DEF IInv
-----------------------------------------------------------------------------
(* The visit of a website.                                                    *)
LEMMA InVisit ==
  ASSUME IInv, NEW w \in Worker, At(w, "visit")
  PROVE  /\ DOMAIN doing = Worker /\ DOMAIN visit = Worker /\ DOMAIN check = Worker
         /\ DOMAIN doing[w] = {"lead", "rec", "at"} /\ doing[w].lead \in Lead
         /\ DOMAIN visit[w] = DOMAIN NoVisit /\ visit[w].at \in VisitStages
         /\ check[w] = NoCheck /\ ~At(w, "free") /\ ~At(w, "verify")
         /\ Sound(campaign, answered, doing[w].rec) /\ Unverified(doing[w].rec)
         /\ VisitSound(w) /\ CheckSound(w) /\ CacheOK /\ campaign \in FilterSets
<1>1. HandOK(w) /\ HandSound(w)
  BY DEF IInv, HandsOK, RecordsOK
<1>2. ~At(w, "free") /\ ~At(w, "verify")
  BY DEF At
<1> QED
  BY <1>1, <1>2 DEF IInv, HandsOK, HandOK, HandSound

(* A visit goes on, at the same site, with a reason its homepage has given.   *)
LEMMA VisitGoesOn ==
  ASSUME IInv, NEW w \in Worker, At(w, "visit"), NEW v,
         UNCHANGED <<campaign, queues, doneQ, doing, ledger, calls, check, mxCache>>,
         visit' = [visit EXCEPT ![w] = v],
         DOMAIN v = DOMAIN NoVisit, v.at \in VisitStages, v.site = visit[w].site,
         answered \subseteq answered',
         v.at \notin {"home", "raised"} => <<v.site, IsDeadSignal(v.reason)>> \in answered'
  PROVE  IInv'
<1>1. /\ DOMAIN doing = Worker /\ DOMAIN visit = Worker /\ DOMAIN check = Worker
      /\ DOMAIN doing[w] = {"lead", "rec", "at"} /\ doing[w].lead \in Lead
      /\ check[w] = NoCheck /\ ~At(w, "free") /\ ~At(w, "verify")
      /\ Sound(campaign, answered, doing[w].rec) /\ Unverified(doing[w].rec)
      /\ VisitSound(w) /\ CheckSound(w)
  BY InVisit
<1>2. doing' = doing /\ check' = check /\ mxCache' = mxCache /\ campaign' = campaign
  OBVIOUS
<1>3. /\ DOMAIN visit' = Worker /\ visit'[w] = v
      /\ \A x \in Worker \ {w} : visit'[x] = visit[x]
  BY <1>1, PutAt
<1>4. Others(w)
  BY <1>1, <1>2, <1>3 DEF Others
<1>5. At(w, "visit")' /\ ~At(w, "free")' /\ ~At(w, "verify")'
  BY <1>1, <1>2 DEF At
<1>6. HandOK(w)'
  <2>1. doing'[w].at = "visit"
    BY <1>5 DEF At
  <2> QED
    BY <1>1, <1>2, <1>3, <1>5, <2>1 DEF HandOK
<1>7. HandSound(w)'
  <2>1. VisitSound(w)'
    BY <1>1, <1>2, <1>3 DEF VisitSound
  <2>2. CheckSound(w)'
    BY <1>1, <1>2, <1>5 DEF CheckSound, CheckTold
  <2>3. Sound(campaign, answered', doing[w].rec)
    BY <1>1, SoundGrows
  <2> QED
    BY <1>1, <1>2, <2>1, <2>2, <2>3 DEF HandSound
<1>8. CacheOK'
  BY <1>2, CacheKept
<1> QED
  BY <1>1, <1>4, <1>5, <1>6, <1>7, <1>8, ThreadStep

LEMMA Absorbs ==
  ASSUME NEW v, DOMAIN v = DOMAIN NoVisit, NEW html
  PROVE  LET u == Absorb(v, html)
         IN  DOMAIN u = DOMAIN v /\ u.at = v.at /\ u.site = v.site /\ u.reason = v.reason
  BY DEF Absorb, NoVisit

LEMMA AfterHomes ==
  ASSUME NEW v, DOMAIN v = DOMAIN NoVisit, NEW html
  PROVE  LET u == AfterHome(v, html)
         IN  /\ DOMAIN u = DOMAIN v /\ u.at \in {"sitemap", "pages"}
             /\ u.site = v.site /\ u.reason = v.reason
<1> DEFINE extra == Budgeted(CrawlPriority(html.pages, Host[Homepage[v.site]]))
           absorbed == Absorb(v, html)
           at == IF EnableSitemap /\ Len(extra) < MaxPages THEN "sitemap" ELSE "pages"
<1>1. AfterHome(v, html) = [absorbed EXCEPT !.extra = extra, !.at = at]
  BY DEF AfterHome
<1>2. /\ DOMAIN absorbed = DOMAIN v /\ absorbed.site = v.site
      /\ absorbed.reason = v.reason
  BY Absorbs
<1>3. at \in {"sitemap", "pages"}
  OBVIOUS
<1> HIDE DEF extra, absorbed, at
<1> QED
  BY <1>1, <1>2, <1>3 DEF NoVisit

(* The reason of an answer is one of a dead site exactly if the homepage      *)
(* could not be reached.                                                      *)
LEMMA ReasonTells ==
  ASSUME NEW answer, ~Escapes(answer)
  PROVE  Unreachable(answer) = IsDeadSignal(Reason(answer))
<1>1. answer.exc \in HttpErrors \cup {"none"}
  BY DEF Escapes
<1>2. Unreachable(answer) <=> IsDeadSignal(Reason(answer))
  <2>1. CASE answer.exc # "none"
    <3>1. Reason(answer) = Classify(answer.exc)
      BY <2>1 DEF Reason
    <3>2. Unreachable(answer) <=> answer.exc \in {"gaierror", "ConnectError", "SSLError"}
      BY <2>1 DEF Unreachable
    <3>3. answer.exc \in {"ConnectTimeout", "ReadTimeout", "gaierror", "SSLError",
                          "ConnectError", "RemoteProtocolError"}
      BY <1>1, <2>1 DEF HttpErrors
    <3>4. /\ Classify("ConnectTimeout") = "TIMEOUT" /\ Classify("ReadTimeout") = "TIMEOUT"
          /\ Classify("gaierror") = "DNS_FAILURE" /\ Classify("SSLError") = "TLS_ERROR"
          /\ Classify("ConnectError") = "CONNECTION_REFUSED"
          /\ Classify("RemoteProtocolError") = "UNKNOWN"
      BY DEF Classify
    <3> QED
      BY <3>1, <3>2, <3>3, <3>4 DEF IsDeadSignal
  <2>2. CASE answer.exc = "none"
    <3>1. Unreachable(answer) <=> answer.status \in {404, 410}
      BY <2>2 DEF Unreachable
    <3>2. CASE answer.status \in {404, 410}
      <4>1. StatusReason(answer.status) = "NOT_FOUND"
        BY <3>2 DEF StatusReason
      <4>2. Reason(answer) = "NOT_FOUND"
        BY <2>2, <3>2, <4>1 DEF Reason
      <4> QED
        BY <3>1, <3>2, <4>2 DEF IsDeadSignal
    <3>3. CASE answer.status \notin {404, 410}
      <4>1. StatusReason(answer.status) \in {"HTTP_BLOCKED", "UNKNOWN", "none"}
        BY <3>3 DEF StatusReason
      <4>2. Reason(answer) \in {"HTTP_BLOCKED", "UNKNOWN", "none", "JS_REQUIRED"}
        BY <2>2, <4>1 DEF Reason
      <4> QED
        BY <3>1, <3>3, <4>2 DEF IsDeadSignal
    <3> QED
      BY <3>2, <3>3
  <2> QED
    BY <2>1, <2>2
<1>3. Unreachable(answer) \in BOOLEAN /\ IsDeadSignal(Reason(answer)) \in BOOLEAN
  BY DEF Unreachable, IsDeadSignal
<1> QED
  BY <1>2, <1>3

LEMMA VisitingInv ==
  ASSUME IInv, NEW w \in Worker, Visiting(w)
  PROVE  IInv'
<1>1. /\ At(w, "visit") /\ VisitStep(w)
      /\ UNCHANGED <<campaign, queues, doneQ, doing, ledger, calls, check, mxCache>>
  BY DEF Visiting
<1> DEFINE v == visit[w]
<1>2. /\ DOMAIN v = DOMAIN NoVisit /\ v.at \in VisitStages /\ v.site \in DOMAIN HomeAnswers
      /\ v.at \notin {"home", "raised"} => <<v.site, IsDeadSignal(v.reason)>> \in answered
  BY <1>1, InVisit DEF VisitSound, Sound, SiteKnown
<1>3. {"at", "site", "reason", "extra"} \subseteq DOMAIN v
  BY <1>2 DEF NoVisit
<1> HIDE DEF v
<1>4. ASSUME NEW u, visit' = [visit EXCEPT ![w] = u], DOMAIN u = DOMAIN v,
             u.at \in VisitStages, u.site = v.site, u.reason = v.reason,
             v.at \notin {"home", "raised"}, answered' = answered
      PROVE  IInv'
  BY <1>1, <1>2, <1>4, VisitGoesOn DEF v
<1>5. CASE FetchHome(w)
  <2>1. PICK answer \in HomeAnswers[v.site] :
          /\ answered' = answered \cup {<<v.site, Unreachable(answer)>>}
          /\ \E html \in Served(Homepage[v.site], answer) :
            LET r == [v EXCEPT !.reason = Reason(answer)]
            IN  visit' = [visit EXCEPT ![w] =
                    IF Escapes(answer) THEN [v EXCEPT !.at = "raised"]
                    ELSE IF r.reason = "JS_REQUIRED" /\ EnablePlaywright
                         THEN [r EXCEPT !.at = "render"]
                    ELSE IF ~HasHtml(answer) THEN [r EXCEPT !.at = "done"]
                    ELSE AfterHome(r, html)]
    BY <1>5 DEF FetchHome, v
  <2> DEFINE r == [v EXCEPT !.reason = Reason(answer)]
  <2>2. PICK html \in Served(Homepage[v.site], answer) :
            visit' = [visit EXCEPT ![w] =
                    IF Escapes(answer) THEN [v EXCEPT !.at = "raised"]
                    ELSE IF r.reason = "JS_REQUIRED" /\ EnablePlaywright
                         THEN [r EXCEPT !.at = "render"]
                    ELSE IF ~HasHtml(answer) THEN [r EXCEPT !.at = "done"]
                    ELSE AfterHome(r, html)]
    BY <2>1
  <2>3. /\ DOMAIN r = DOMAIN v /\ r.site = v.site /\ r.reason = Reason(answer)
    BY <1>2, <1>3
  <2> HIDE DEF r
  <2>4. ASSUME NEW u, visit' = [visit EXCEPT ![w] = u], DOMAIN u = DOMAIN v,
               u.at \in VisitStages, u.site = v.site,
               u.at = "raised" \/ (~Escapes(answer) /\ u.reason = Reason(answer))
        PROVE  IInv'
    <3>1. answered \subseteq answered' /\ <<v.site, Unreachable(answer)>> \in answered'
      BY <2>1
    <3>2. ~Escapes(answer) => Unreachable(answer) = IsDeadSignal(Reason(answer))
      BY ReasonTells
    <3> QED
      BY <1>1, <1>2, <2>4, <3>1, <3>2, VisitGoesOn DEF v
  <2>5. CASE Escapes(answer)
    <3> DEFINE u == [v EXCEPT !.at = "raised"]
    <3>1. visit' = [visit EXCEPT ![w] = u]
      BY <2>2, <2>5
    <3>2. DOMAIN u = DOMAIN v /\ u.at \in VisitStages /\ u.site = v.site /\ u.at = "raised"
      BY <1>3 DEF VisitStages
    <3> HIDE DEF u
    <3> QED
      BY <2>4, <3>1, <3>2
  <2>6. CASE ~Escapes(answer) /\ r.reason = "JS_REQUIRED" /\ EnablePlaywright
    <3> DEFINE u == [r EXCEPT !.at = "render"]
    <3>1. visit' = [visit EXCEPT ![w] = u]
      BY <2>2, <2>6
    <3>2. DOMAIN u = DOMAIN v /\ u.at \in VisitStages /\ u.site = v.site /\ u.reason = r.reason
      BY <1>3, <2>3 DEF VisitStages
    <3> HIDE DEF u
    <3> QED
      BY <2>6, <2>3, <2>4, <3>1, <3>2
  <2>7. CASE /\ ~Escapes(answer) /\ ~(r.reason = "JS_REQUIRED" /\ EnablePlaywright)
             /\ ~HasHtml(answer)
    <3> DEFINE u == [r EXCEPT !.at = "done"]
    <3>1. visit' = [visit EXCEPT ![w] = u]
      BY <2>2, <2>7
    <3>2. DOMAIN u = DOMAIN v /\ u.at \in VisitStages /\ u.site = v.site /\ u.reason = r.reason
      BY <1>3, <2>3 DEF VisitStages
    <3> HIDE DEF u
    <3> QED
      BY <2>7, <2>3, <2>4, <3>1, <3>2
  <2>8. CASE /\ ~Escapes(answer) /\ ~(r.reason = "JS_REQUIRED" /\ EnablePlaywright)
             /\ HasHtml(answer)
    <3> DEFINE u == AfterHome(r, html)
    <3>1. visit' = [visit EXCEPT ![w] = u]
      BY <2>2, <2>8
    <3>2. DOMAIN u = DOMAIN v /\ u.at \in VisitStages /\ u.site = v.site /\ u.reason = r.reason
      BY <1>2, <2>3, AfterHomes DEF VisitStages
    <3> HIDE DEF u
    <3> QED
      BY <2>8, <2>3, <2>4, <3>1, <3>2
  <2> QED
    BY <2>5, <2>6, <2>7, <2>8
<1>6. CASE RenderHome(w)
  <2>1. PICK html : visit' = [visit EXCEPT ![w] = AfterHome(@, html)]
    BY <1>6 DEF RenderHome
  <2>a. v.at \notin {"home", "raised"} /\ answered' = answered
    BY <1>6 DEF RenderHome, v
  <2> DEFINE u == AfterHome(v, html)
  <2>2. visit' = [visit EXCEPT ![w] = u]
    BY <2>1 DEF v
  <2>3. DOMAIN u = DOMAIN v /\ u.at \in VisitStages /\ u.site = v.site /\ u.reason = v.reason
    BY <1>2, AfterHomes DEF VisitStages
  <2> HIDE DEF u
  <2> QED
    BY <1>4, <2>a, <2>2, <2>3
<1>7. CASE FetchSitemap(w)
  <2>1. PICK pages : visit' = [visit EXCEPT ![w].at = "pages",
                                            ![w].extra = Budgeted(FirstSeen(@ \o pages))]
    BY <1>7 DEF FetchSitemap
  <2>a. v.at \notin {"home", "raised"} /\ answered' = answered
    BY <1>7 DEF FetchSitemap, v
  <2> DEFINE u == [v EXCEPT !.at = "pages", !.extra = Budgeted(FirstSeen(@ \o pages))]
  <2>2. visit' = [visit EXCEPT ![w] = u]
    BY <1>1, <1>3, <2>1, InVisit DEF v
  <2>3. DOMAIN u = DOMAIN v /\ u.at \in VisitStages /\ u.site = v.site /\ u.reason = v.reason
    BY <1>3 DEF VisitStages
  <2> HIDE DEF u
  <2> QED
    BY <1>4, <2>a, <2>2, <2>3
<1>8. CASE FetchPage(w)
  <2>1. PICK html : visit' = [visit EXCEPT ![w] = [Absorb(v, html) EXCEPT !.extra = Tail(@)]]
    BY <1>8 DEF FetchPage, v
  <2>a. v.at \notin {"home", "raised"} /\ answered' = answered
    BY <1>8 DEF FetchPage, v
  <2> DEFINE a == Absorb(v, html)
             u == [a EXCEPT !.extra = Tail(@)]
  <2>2. DOMAIN a = DOMAIN v /\ a.at = v.at /\ a.site = v.site /\ a.reason = v.reason
    BY <1>2, Absorbs
  <2> HIDE DEF a
  <2>3. DOMAIN u = DOMAIN v /\ u.at \in VisitStages /\ u.site = v.site /\ u.reason = v.reason
    BY <1>2, <1>3, <2>2
  <2>4. visit' = [visit EXCEPT ![w] = u]
    BY <2>1 DEF a
  <2> HIDE DEF u
  <2> QED
    BY <1>4, <2>a, <2>3, <2>4
<1>9. CASE StopVisit(w)
  <2>1. visit' = [visit EXCEPT ![w].at = "done"]
    BY <1>9 DEF StopVisit
  <2>a. v.at \notin {"home", "raised"} /\ answered' = answered
    BY <1>9 DEF StopVisit, v
  <2> DEFINE u == [v EXCEPT !.at = "done"]
  <2>2. visit' = [visit EXCEPT ![w] = u]
    BY <2>1 DEF v
  <2>3. DOMAIN u = DOMAIN v /\ u.at \in VisitStages /\ u.site = v.site /\ u.reason = v.reason
    BY <1>3 DEF VisitStages
  <2> HIDE DEF u
  <2> QED
    BY <1>4, <2>a, <2>2, <2>3
<1> QED
  BY <1>1, <1>5, <1>6, <1>7, <1>8, <1>9 DEF VisitStep
LEMMA VisitEndsInv ==
  ASSUME IInv, NEW w \in Worker, VisitEnds(w)
  PROVE  IInv'
<1> DEFINE v == visit[w]
           emails == CleanEmails(v.raw, SiteDomain[v.site])
           asked == emails # <<>> /\ VerifyAsked
           at == IF asked THEN "verify" ELSE "analyze"
           rec == doing[w].rec
           new == Enriched(rec, v, emails)
           c == [NoCheck EXCEPT !.at = "mx", !.id = emails[1].id, !.domain = emails[1].domain]
           d == [doing[w] EXCEPT !.rec = new, !.at = at]
<1>1. /\ At(w, "visit") /\ Working(w, new, at)
      /\ IF asked THEN StartCheck(w, emails[1]) ELSE UNCHANGED check
      /\ visit' = [visit EXCEPT ![w] = NoVisit]
      /\ UNCHANGED <<campaign, queues, doneQ, ledger, calls, answered, mxCache>>
  BY DEF VisitEnds
<1>2. /\ DOMAIN doing = Worker /\ DOMAIN visit = Worker /\ DOMAIN check = Worker
      /\ DOMAIN doing[w] = {"lead", "rec", "at"} /\ doing[w].lead \in Lead
      /\ check[w] = NoCheck /\ ~At(w, "free") /\ CheckSound(w)
      /\ Sound(campaign, answered, rec) /\ Unverified(rec) /\ VisitSound(w) /\ campaign \in FilterSets
  BY <1>1, InVisit
<1>3. /\ Sound(campaign, answered, new) /\ Unverified(new)
      /\ EmailsToggle /\ emails # <<>> => new.emails = Text(emails[1].id)
  <2>1. <<rec.website.s, IsDeadSignal(v.reason)>> \in answered
    BY <1>1, <1>2 DEF VisitSound, VisitEnds
  <2> HIDE DEF v, emails, rec
  <2> QED
    BY <1>2, <2>1, EnrichedSound, Zenon
<1>4. DOMAIN d = {"lead", "rec", "at"} /\ d.lead = doing[w].lead /\ d.rec = new /\ d.at = at
  BY <1>2
<1>5. doing' = [doing EXCEPT ![w] = d]
  BY <1>1, <1>2 DEF Working
<1>6. /\ DOMAIN c = DOMAIN NoCheck /\ c.at = "mx" /\ c.mx = "Not Checked"
      /\ c.id = emails[1].id
  BY DEF NoCheck
<1>7. asked => check' = [check EXCEPT ![w] = c]
  BY <1>1 DEF StartCheck
<1>8. at \in {"verify", "analyze"} /\ (at = "verify" <=> asked)
  OBVIOUS
<1>9. asked => emails # <<>>
  OBVIOUS
<1>10. ~asked => check' = check
  BY <1>1
<1> HIDE DEF v, emails, asked, at, rec, new, c, d
<1>11. /\ DOMAIN doing' = Worker /\ doing'[w] = d
       /\ \A x \in Worker \ {w} : doing'[x] = doing[x]
  BY <1>2, <1>5, PutAt
<1>12. /\ DOMAIN visit' = Worker /\ visit'[w] = NoVisit
       /\ \A x \in Worker \ {w} : visit'[x] = visit[x]
  BY <1>1, <1>2, PutAt
<1>13. /\ DOMAIN check' = Worker /\ \A x \in Worker \ {w} : check'[x] = check[x]
       /\ check'[w] = IF asked THEN c ELSE NoCheck
  BY <1>2, <1>7, <1>10, PutAt
<1>14. Others(w)
  BY <1>11, <1>12, <1>13 DEF Others
<1>15. ~At(w, "free")' /\ ~At(w, "visit")' /\ (At(w, "verify")' <=> asked)
  BY <1>4, <1>8, <1>11 DEF At
<1>16. HandOK(w)'
  BY <1>2, <1>4, <1>6, <1>8, <1>11, <1>12, <1>13, <1>15 DEF HandOK, CheckStages
<1>17. HandSound(w)'
  <2>1. CheckSound(w)'
    <3>1. NoCheck.mx = "Not Checked" /\ NoCheck.at = "idle"
      BY DEF NoCheck
    <3>2. check'[w].mx = "Not Checked" /\ check'[w].at # "done"
      BY <1>6, <1>13, <3>1
    <3>3. At(w, "verify")' /\ EmailsToggle => doing'[w].rec.emails = Text(check'[w].id)
      BY <1>3, <1>4, <1>6, <1>9, <1>11, <1>13, <1>15
    <3> QED
      BY <3>2, <3>3 DEF CheckSound, CheckTold
  <2>2. VisitSound(w)'
    BY <1>15 DEF VisitSound
  <2>3. campaign' = campaign /\ answered' = answered
    BY <1>1
  <2> QED
    BY <1>3, <1>4, <1>11, <1>15, <2>1, <2>2, <2>3 DEF HandSound
<1>18. CacheOK'
  BY <1>1, CacheKept
<1> QED
  BY <1>1, <1>2, <1>14, <1>15, <1>16, <1>17, <1>18, ThreadStep

(* A thread that is done puts its record in the queue of the committer.       *)
LEMMA HandOff ==
  ASSUME IInv, NEW w \in Worker, ~At(w, "free"), NEW rec, Sound(campaign, answered, rec), Finish(w, rec),
         DOMAIN visit' = Worker, visit'[w] = NoVisit,
         \A x \in Worker \ {w} : visit'[x] = visit[x],
         check' = check, check[w] = NoCheck, mxCache' = mxCache, answered' = answered,
         UNCHANGED <<campaign, queues, ledger>>
  PROVE  IInv'
<1> DEFINE item == [lead |-> doing[w].lead, rec |-> rec]
<1>1. /\ campaign' = campaign /\ todo' = todo /\ held' = held /\ workQ' = workQ
      /\ UNCHANGED <<counts, outside, unprinted>> /\ rows' = rows /\ owner' = owner
      /\ doneQ' = Append(doneQ, item) /\ doing' = [doing EXCEPT ![w] = Free]
  BY DEF queues, ledger, Finish
<1>2. DOMAIN item = {"lead", "rec"} /\ item.lead = doing[w].lead /\ item.rec = rec
  OBVIOUS
<1> HIDE DEF item
<1>3. /\ DOMAIN doing = Worker /\ DOMAIN check = Worker /\ doing[w].lead \in Lead
  BY DEF IInv, HandsOK, HandOK
<1>4. /\ ASeq(doneQ') /\ Len(doneQ') = Len(doneQ) + 1
      /\ Range(doneQ') = Range(doneQ) \cup {item}
  <2>1. ASeq(doneQ)
    BY DEF IInv, QueuesOK
  <2>2. /\ ASeq(Append(doneQ, item)) /\ Len(Append(doneQ, item)) = Len(doneQ) + 1
        /\ Range(Append(doneQ, item)) = Range(doneQ) \cup {item}
    BY <2>1, AppendSeq, Zenon
  <2> QED
    BY <1>1, <2>2, Zenon
<1>5. Queued' = Queued \cup {item}
  BY <1>1, <1>4 DEF Queued
<1>6. QueuesOK'
  <2>1. \A x \in Queued' : DOMAIN x = {"lead", "rec"} /\ x.lead \in Lead
    BY <1>2, <1>3, <1>5 DEF IInv, QueuesOK
  <2>2. ASeq(todo)' /\ ASeq(held)' /\ ASeq(workQ)' /\ ASeq(doneQ)'
    BY <1>1, <1>4 DEF IInv, QueuesOK, ASeq
  <2> QED
    BY <1>1, <2>1, <2>2 DEF IInv, QueuesOK
<1>7. /\ DOMAIN doing' = Worker /\ doing'[w] = Free
      /\ \A x \in Worker \ {w} : doing'[x] = doing[x]
  BY <1>1, <1>3, PutAt
<1>8. Others(w)
  BY <1>3, <1>7 DEF Others
<1>9. DOMAIN Free = {"lead", "rec", "at"} /\ Free.at = "free"
  BY DEF Free
<1>10. At(w, "free")' /\ ~At(w, "visit")' /\ ~At(w, "verify")'
  BY <1>7, <1>9 DEF At
<1>11. HandsOK'
  <2>1. HandOK(w)'
    BY <1>7, <1>9, <1>10 DEF HandOK
  <2> QED
    BY <1>8, <2>1, HandsStep
<1>12. TallyOK'
  <2>1. HeldN' = HeldN /\ WorkN' = WorkN /\ DoneN' = DoneN + 1
    BY <1>1, <1>4, Zenon DEF HeldN, WorkN, DoneN
  <2>2. BusyN' = BusyN - 1
    BY <1>8, <1>10, BusyMoves
  <2>3. HeldN' + WorkN' + DoneN' + BusyN' = HeldN + WorkN + DoneN + BusyN
    BY <2>1, <2>2, Tallied
  <2> QED
    BY <1>1, <2>3, TallyKept
<1>13. RecordsOK'
  <2>1. \A x \in Queued' : Sound(campaign, answered, x.rec)
    BY <1>2, <1>5 DEF IInv, RecordsOK
  <2>2. \A x \in Range(held') \cup Range(workQ') : Unverified(x.rec)
    BY <1>1 DEF IInv, RecordsOK
  <2>3. HandSound(w)'
    <3>1. NoCheck.mx = "Not Checked" /\ NoCheck.at = "idle"
      BY DEF NoCheck
    <3> QED
      BY <1>10, <3>1 DEF HandSound, VisitSound, CheckSound, CheckTold
  <2> QED
    BY <1>1, <1>8, <2>1, <2>2, <2>3, RecordsStep
<1>14. CacheOK' /\ RowsOK'
  BY <1>1, CacheKept, RowsKept
<1> QED
  BY <1>1, <1>6, <1>11, <1>12, <1>13, <1>14 DEF IInv

LEMMA VisitRaisesInv ==
  ASSUME IInv, NEW w \in Worker, VisitRaises(w)
  PROVE  IInv'
<1> DEFINE new == WithStatus(doing[w].rec, "UNKNOWN", "enrich_error")
<1>1. /\ At(w, "visit") /\ Finish(w, new)
      /\ visit' = [visit EXCEPT ![w] = NoVisit]
      /\ check' = check /\ mxCache' = mxCache /\ answered' = answered
      /\ UNCHANGED <<campaign, queues, ledger>>
  BY DEF VisitRaises
<1>2. /\ DOMAIN visit = Worker /\ check[w] = NoCheck /\ ~At(w, "free")
      /\ Sound(campaign, answered, doing[w].rec) /\ campaign \in FilterSets
  BY <1>1, InVisit
<1>3. Sound(campaign, answered, new)
  <2>1. "UNKNOWN" # "DEAD" /\ "UNKNOWN" # "LIVE"
    OBVIOUS
  <2> QED
    BY <1>2, <2>1, WithStatusSound, Zenon
<1> HIDE DEF new
<1>4. /\ DOMAIN visit' = Worker /\ visit'[w] = NoVisit
      /\ \A x \in Worker \ {w} : visit'[x] = visit[x]
  BY <1>1, <1>2, PutAt
<1> QED
  BY <1>1, <1>2, <1>3, <1>4, HandOff
LEMMA TakeLeadInv ==
  ASSUME IInv, NEW w \in Worker, TakeLead(w)
  PROVE  IInv'
<1> DEFINE item == Head(workQ)
           website == item.rec.website
           skipped == [item EXCEPT !.rec = WithStatus(item.rec, "SKIPPED_NO_WEBSITE", "N/A")]
           plain == [lead |-> item.lead, rec |-> WithStatus(item.rec, "N/A", "N/A"),
                     at |-> "analyze"]
           taken == [lead |-> item.lead, rec |-> item.rec, at |-> "visit"]
           v == [NoVisit EXCEPT !.at = "home", !.site = website.s]
<1>1. /\ At(w, "free") /\ workQ # <<>> /\ workQ' = Tail(workQ)
      /\ UNCHANGED <<campaign, todo, held, ledger, calls, answered, check, mxCache>>
  BY DEF TakeLead
<1>2. \/ doneQ' = Append(doneQ, skipped) /\ doing' = doing /\ visit' = visit
      \/ doing' = [doing EXCEPT ![w] = plain] /\ doneQ' = doneQ /\ visit' = visit
      \/ /\ website \notin Blank /\ doing' = [doing EXCEPT ![w] = taken]
         /\ visit' = [visit EXCEPT ![w] = v] /\ doneQ' = doneQ
  BY Zenon DEF TakeLead, StartVisit
<1>3. /\ campaign' = campaign /\ todo' = todo /\ held' = held /\ check' = check
      /\ mxCache' = mxCache /\ rows' = rows /\ owner' = owner /\ answered' = answered
      /\ UNCHANGED <<counts, outside, unprinted>>
  BY <1>1 DEF ledger
<1>4. /\ ASeq(workQ') /\ Len(workQ) \in Nat \ {0} /\ Len(workQ') = Len(workQ) - 1
      /\ Range(workQ') \subseteq Range(workQ) /\ item \in Range(workQ)
  <2>1. ASeq(workQ)
    BY DEF IInv, QueuesOK
  <2>2. /\ ASeq(Tail(workQ)) /\ Len(workQ) \in Nat \ {0} /\ Len(Tail(workQ)) = Len(workQ) - 1
        /\ Range(Tail(workQ)) \subseteq Range(workQ) /\ item \in Range(workQ)
    BY <1>1, <2>1, TailSeq, Zenon
  <2> QED
    BY <1>1, <2>2, Zenon
<1>5. /\ DOMAIN item = {"lead", "rec"} /\ item.lead \in Lead
      /\ Sound(campaign, answered, item.rec) /\ Unverified(item.rec) /\ campaign \in FilterSets
  BY <1>4 DEF IInv, QueuesOK, RecordsOK, Queued
<1>6. /\ Sound(campaign, answered, WithStatus(item.rec, "SKIPPED_NO_WEBSITE", "N/A"))
      /\ Sound(campaign, answered, WithStatus(item.rec, "N/A", "N/A"))
  <2>1. {"SKIPPED_NO_WEBSITE", "N/A"} \cap {"DEAD", "LIVE"} = {}
    OBVIOUS
  <2> HIDE DEF item
  <2> QED
    BY <1>5, <2>1, WithStatusSound, Zenon
<1>7. /\ DOMAIN skipped = {"lead", "rec"} /\ skipped.lead = item.lead
      /\ Sound(campaign, answered, skipped.rec)
  BY <1>5, <1>6
<1>8. /\ DOMAIN plain = {"lead", "rec", "at"} /\ plain.lead = item.lead /\ plain.at = "analyze"
      /\ Sound(campaign, answered, plain.rec)
  BY <1>6
<1>9. /\ DOMAIN taken = {"lead", "rec", "at"} /\ taken.lead = item.lead /\ taken.at = "visit"
      /\ taken.rec = item.rec
  OBVIOUS
<1>10. DOMAIN v = DOMAIN NoVisit /\ v.at = "home" /\ v.site = website.s
  BY DEF NoVisit
<1>w. website = item.rec.website
  OBVIOUS
<1> HIDE DEF item, website, skipped, plain, taken, v
<1>11. /\ DOMAIN doing = Worker /\ DOMAIN visit = Worker /\ DOMAIN check = Worker
       /\ HandOK(w) /\ visit[w] = NoVisit /\ check[w] = NoCheck /\ HandSound(w)
       /\ doing[w].at = "free"
  BY <1>1 DEF IInv, HandsOK, HandOK, RecordsOK, At
<1>12. NoCheck.mx = "Not Checked" /\ NoCheck.at = "idle"
  BY DEF NoCheck
<1>13. \A x \in Range(held') \cup Range(workQ') : Unverified(x.rec)
  BY <1>3, <1>4 DEF IInv, RecordsOK
<1>14. ASeq(todo) /\ ASeq(held) /\ ASeq(doneQ)
  BY DEF IInv, QueuesOK
<1>15. Len(workQ') <= MaxInFlight
  <2>1. Len(workQ) <= MaxInFlight /\ MaxInFlight \in Nat
    BY LeadAssumption DEF IInv, QueuesOK
  <2> QED
    BY <1>4, <2>1, OneLess, Zenon
<1>16. CacheOK' /\ RowsOK'
  BY <1>3, CacheKept, RowsKept
<1>17. HeldN' = HeldN /\ WorkN' = WorkN - 1
  BY <1>3, <1>4, Zenon DEF HeldN, WorkN
<1>18. CASE doneQ' = Append(doneQ, skipped) /\ doing' = doing /\ visit' = visit
  <2>1. /\ ASeq(doneQ') /\ Len(doneQ') = Len(doneQ) + 1
        /\ Range(doneQ') = Range(doneQ) \cup {skipped}
    <3>1. /\ ASeq(Append(doneQ, skipped)) /\ Len(Append(doneQ, skipped)) = Len(doneQ) + 1
          /\ Range(Append(doneQ, skipped)) = Range(doneQ) \cup {skipped}
      BY <1>14, AppendSeq, Zenon
    <3> QED
      BY <1>18, <3>1, Zenon
  <2>2. Queued' \subseteq Queued \cup {skipped}
    BY <1>3, <1>4, <2>1 DEF Queued
  <2>3. QueuesOK'
    <3>1. \A x \in Queued' : DOMAIN x = {"lead", "rec"} /\ x.lead \in Lead
      BY <1>5, <1>7, <2>2 DEF IInv, QueuesOK
    <3>2. ASeq(todo)' /\ ASeq(held)' /\ ASeq(workQ)' /\ ASeq(doneQ)'
      BY <1>3, <1>4, <1>14, <2>1 DEF ASeq
    <3> QED
      BY <1>3, <1>15, <3>1, <3>2 DEF IInv, QueuesOK
  <2>4. HandsOK' /\ Cardinality(Busy') = Cardinality(Busy)
    BY <1>3, <1>18, HandsKept
  <2>5. TallyOK'
    <3>1. DoneN' = DoneN + 1 /\ BusyN' = BusyN
      BY <2>1, <2>4, Zenon DEF DoneN, BusyN
    <3>2. HeldN' + WorkN' + DoneN' + BusyN' = HeldN + WorkN + DoneN + BusyN
      BY <1>17, <3>1, Tallied
    <3> QED
      BY <1>3, <3>2, TallyKept
  <2>6. RecordsOK'
    <3>1. \A x \in Queued' : Sound(campaign, answered, x.rec)
      BY <1>7, <2>2 DEF IInv, RecordsOK
    <3> QED
      BY <1>3, <1>13, <1>18, <3>1, InHandKept
  <2> QED
    BY <1>3, <1>16, <2>3, <2>4, <2>5, <2>6 DEF IInv
<1>19. ASSUME doneQ' = doneQ, Others(w), ~At(w, "free")', HandOK(w)', HandSound(w)'
       PROVE  IInv'
  <2>1. Queued' \subseteq Queued
    BY <1>3, <1>4, <1>19 DEF Queued
  <2>2. QueuesOK'
    <3>1. \A x \in Queued' : DOMAIN x = {"lead", "rec"} /\ x.lead \in Lead
      BY <2>1 DEF IInv, QueuesOK
    <3>2. ASeq(todo)' /\ ASeq(held)' /\ ASeq(workQ)' /\ ASeq(doneQ)'
      BY <1>3, <1>4, <1>14, <1>19 DEF ASeq
    <3> QED
      BY <1>3, <1>15, <3>1, <3>2 DEF IInv, QueuesOK
  <2>3. HandsOK'
    BY <1>19, HandsStep
  <2>4. TallyOK'
    <3>1. DoneN' = DoneN /\ BusyN' = BusyN + 1
      BY <1>1, <1>19, BusyMoves DEF DoneN
    <3>2. HeldN' + WorkN' + DoneN' + BusyN' = HeldN + WorkN + DoneN + BusyN
      BY <1>17, <3>1, Tallied
    <3> QED
      BY <1>3, <3>2, TallyKept
  <2>5. RecordsOK'
    <3>1. \A x \in Queued' : Sound(campaign, answered, x.rec)
      BY <2>1 DEF IInv, RecordsOK
    <3> QED
      BY <1>3, <1>13, <1>19, <3>1, RecordsStep
  <2> QED
    BY <1>3, <1>16, <2>2, <2>3, <2>4, <2>5 DEF IInv
<1>20. CASE doing' = [doing EXCEPT ![w] = plain] /\ doneQ' = doneQ /\ visit' = visit
  <2>1. /\ DOMAIN doing' = Worker /\ doing'[w] = plain
        /\ \A x \in Worker \ {w} : doing'[x] = doing[x]
    BY <1>11, <1>20, PutAt
  <2>2. Others(w)
    BY <1>3, <1>11, <1>20, <2>1 DEF Others
  <2>3. ~At(w, "free")' /\ ~At(w, "visit")' /\ ~At(w, "verify")'
    BY <1>8, <2>1 DEF At
  <2>4. HandOK(w)'
    BY <1>3, <1>5, <1>8, <1>11, <1>20, <2>1, <2>3 DEF HandOK
  <2>5. HandSound(w)'
    BY <1>3, <1>8, <1>11, <1>12, <2>1, <2>3 DEF HandSound, VisitSound, CheckSound, CheckTold
  <2> QED
    BY <1>19, <1>20, <2>2, <2>3, <2>4, <2>5
<1>21. CASE /\ website \notin Blank /\ doing' = [doing EXCEPT ![w] = taken]
            /\ visit' = [visit EXCEPT ![w] = v] /\ doneQ' = doneQ
  <2>1. /\ DOMAIN doing' = Worker /\ doing'[w] = taken
        /\ \A x \in Worker \ {w} : doing'[x] = doing[x]
    BY <1>11, <1>21, PutAt
  <2>2. /\ DOMAIN visit' = Worker /\ visit'[w] = v
        /\ \A x \in Worker \ {w} : visit'[x] = visit[x]
    BY <1>11, <1>21, PutAt
  <2>3. Others(w)
    BY <1>3, <1>11, <2>1, <2>2 DEF Others
  <2>4. ~At(w, "free")' /\ At(w, "visit")' /\ ~At(w, "verify")'
    BY <1>9, <2>1 DEF At
  <2>5. HandOK(w)'
    BY <1>3, <1>5, <1>9, <1>10, <1>11, <2>1, <2>2, <2>4 DEF HandOK, VisitStages
  <2>6. HandSound(w)'
    <3>1. VisitSound(w)'
      BY <1>9, <1>10, <1>21, <1>w, <2>1, <2>2 DEF VisitSound
    <3>2. CheckSound(w)'
      BY <1>3, <1>11, <1>12, <2>4 DEF CheckSound, CheckTold
    <3> QED
      BY <1>3, <1>5, <1>9, <2>1, <3>1, <3>2 DEF HandSound
  <2> QED
    BY <1>19, <1>21, <2>3, <2>4, <2>5, <2>6
<1> QED
  BY <1>2, <1>18, <1>20, <1>21, Zenon

LEMMA InAnalysis ==
  ASSUME IInv, NEW w \in Worker, At(w, "analyze")
  PROVE  /\ DOMAIN visit = Worker /\ visit[w] = NoVisit /\ check[w] = NoCheck
         /\ ~At(w, "free") /\ Sound(campaign, answered, doing[w].rec)
         /\ campaign \in FilterSets
<1>1. HandOK(w) /\ HandSound(w) /\ DOMAIN visit = Worker /\ campaign \in FilterSets
  BY DEF IInv, HandsOK, RecordsOK
<1>2. ~At(w, "free") /\ ~At(w, "visit") /\ ~At(w, "verify")
  BY DEF At
<1> QED
  BY <1>1, <1>2 DEF HandOK, HandSound

LEMMA AnalyzeRaisesInv ==
  ASSUME IInv, NEW w \in Worker, AnalyzeRaises(w)
  PROVE  IInv'
<1> DEFINE new == WithStatus(doing[w].rec, "UNKNOWN", "enrich_error")
<1>1. /\ At(w, "analyze") /\ Finish(w, new) /\ visit' = visit /\ check' = check
      /\ mxCache' = mxCache /\ answered' = answered /\ UNCHANGED <<campaign, queues, ledger>>
  BY DEF AnalyzeRaises
<1>2. /\ DOMAIN visit = Worker /\ visit[w] = NoVisit /\ check[w] = NoCheck /\ ~At(w, "free")
      /\ Sound(campaign, answered, doing[w].rec) /\ campaign \in FilterSets
  BY <1>1, InAnalysis
<1>3. Sound(campaign, answered, new)
  <2>1. "UNKNOWN" # "DEAD" /\ "UNKNOWN" # "LIVE"
    OBVIOUS
  <2> QED
    BY <1>2, <2>1, WithStatusSound, Zenon
<1> HIDE DEF new
<1> QED
  BY <1>1, <1>2, <1>3, HandOff

LEMMA AnalyzeInv ==
  ASSUME IInv, NEW w \in Worker, Analyze(w)
  PROVE  IInv'
<1> DEFINE rec == doing[w].rec
           kept == FilterReviews(FirstSeen(Reviews[doing[w].lead]))
           result == AnalyzeReviews(kept, rec.rating, rec.review_count)
           shown == IF result.top_review = Text("")
                    THEN [result EXCEPT !.top_review = rec.top_review] ELSE result
<1>1. /\ At(w, "analyze") /\ visit' = visit /\ check' = check /\ mxCache' = mxCache
      /\ answered' = answered /\ UNCHANGED <<campaign, queues, ledger>>
  BY DEF Analyze
<1>2. PICK put \in {shown, [shown EXCEPT !.pitch_hook = Text("llm")]} :
          Finish(w, Updated(rec, put))
  BY DEF Analyze
<1>3. /\ DOMAIN result = {"sentiment_score", "lead_score", "pitch_hook", "top_review"}
      /\ result.lead_score.n
           = LeadScore(rec.rating, rec.review_count, SentimentScore(kept), KeywordCount(kept))
  BY DEF AnalyzeReviews, Num
<1>8. /\ SentimentScore(kept) \in Int /\ KeywordCount(kept) \in Nat
      /\ -1000 <= SentimentScore(kept) /\ SentimentScore(kept) <= 1000
  <2>1. doing[w].lead \in Lead
    BY <1>1 DEF IInv, HandsOK, HandOK, At
  <2> QED
    BY <2>1, ReviewsKnown, ZenonT(40)
<1> HIDE DEF result, kept
<1>4. DOMAIN shown = DOMAIN result /\ shown.lead_score = result.lead_score
  BY <1>3
<1> HIDE DEF shown
<1>5. /\ DOMAIN put = {"sentiment_score", "lead_score", "pitch_hook", "top_review"}
      /\ put.lead_score = result.lead_score
  BY <1>2, <1>3, <1>4
<1>6. /\ DOMAIN visit = Worker /\ visit[w] = NoVisit /\ check[w] = NoCheck /\ ~At(w, "free")
      /\ Sound(campaign, answered, rec) /\ campaign \in FilterSets
  BY <1>1, InAnalysis
<1>7. Sound(campaign, answered, Updated(rec, put))
  <2>1. put.lead_score.n \in 0..100
    BY <1>3, <1>5, <1>6, <1>8, ScoreBounded DEF Sound, Rated
  <2> QED
    BY <1>5, <1>6, <2>1, AnalyzedSound
<1> HIDE DEF rec
<1> QED
  BY <1>1, <1>2, <1>6, <1>7, HandOff
-----------------------------------------------------------------------------
(* The verification of an e-mail.                                             *)
LEMMA InCheck ==
  ASSUME IInv, NEW w \in Worker, At(w, "verify")
  PROVE  /\ DOMAIN doing = Worker /\ DOMAIN visit = Worker /\ DOMAIN check = Worker
         /\ DOMAIN doing[w] = {"lead", "rec", "at"} /\ doing[w].lead \in Lead
         /\ DOMAIN check[w] = DOMAIN NoCheck /\ check[w].at \in CheckStages
         /\ visit[w] = NoVisit /\ ~At(w, "free") /\ ~At(w, "visit")
         /\ Sound(campaign, answered, doing[w].rec)
         /\ CheckTold(check[w]) /\ (EmailsToggle => doing[w].rec.emails = Text(check[w].id))
         /\ CacheOK /\ campaign \in FilterSets
<1>1. HandOK(w) /\ HandSound(w)
  BY DEF IInv, HandsOK, RecordsOK
<1>2. ~At(w, "free") /\ ~At(w, "visit")
  BY DEF At
<1> QED
  BY <1>1, <1>2 DEF IInv, HandsOK, HandOK, HandSound, CheckSound

LEMMA CheckGoesOn ==
  ASSUME IInv, NEW w \in Worker, At(w, "verify"), NEW c,
         UNCHANGED <<campaign, queues, doneQ, doing, ledger, calls, visit, answered>>,
         check' = [check EXCEPT ![w] = c], DOMAIN c = DOMAIN NoCheck, c.at \in CheckStages,
         c.id = check[w].id, CheckTold(c), CacheOK'
  PROVE  IInv'
<1>1. /\ DOMAIN doing = Worker /\ DOMAIN visit = Worker /\ DOMAIN check = Worker
      /\ DOMAIN doing[w] = {"lead", "rec", "at"} /\ doing[w].lead \in Lead
      /\ visit[w] = NoVisit /\ ~At(w, "free") /\ ~At(w, "visit")
      /\ Sound(campaign, answered, doing[w].rec)
      /\ (EmailsToggle => doing[w].rec.emails = Text(check[w].id))
  BY InCheck
<1>2. /\ doing' = doing /\ visit' = visit /\ campaign' = campaign
      /\ answered' = answered
  OBVIOUS
<1>3. /\ DOMAIN check' = Worker /\ check'[w] = c
      /\ \A x \in Worker \ {w} : check'[x] = check[x]
  BY <1>1, PutAt
<1>4. Others(w)
  BY <1>1, <1>2, <1>3 DEF Others
<1>5. At(w, "verify")' /\ ~At(w, "free")' /\ ~At(w, "visit")' /\ doing'[w].at = "verify"
  BY <1>1, <1>2 DEF At
<1>6. HandOK(w)'
  BY <1>1, <1>2, <1>3, <1>5 DEF HandOK
<1>7. HandSound(w)'
  <2>1. CheckSound(w)'
    <3>1. CheckTold(check'[w])
      BY <1>3
    <3>2. CheckTold(check[w])'
      BY <3>1 DEF CheckTold
    <3> QED
      BY <1>1, <1>2, <1>3, <3>2 DEF CheckSound
  <2>2. VisitSound(w)'
    BY <1>5 DEF VisitSound
  <2> QED
    BY <1>1, <1>2, <1>5, <2>1, <2>2 DEF HandSound
<1> QED
  BY <1>1, <1>2, <1>4, <1>5, <1>6, <1>7, ThreadStep

LEMMA CacheShrinks ==
  ASSUME CacheOK, NEW domain, mxCache' = Without(domain)
  PROVE  CacheOK'
<1> DEFINE t == Without(domain)
<1>1. /\ ASeq(t) /\ Distinct(t) /\ Range(t) \subseteq Range(mxCache)
      /\ Len(t) \in Nat /\ Len(mxCache) \in Nat /\ Len(t) <= Len(mxCache)
  BY WithoutDomain DEF CacheOK, Distinct
<1>2. mxCache' = t
  OBVIOUS
<1> HIDE DEF t
<1>3. ASeq(mxCache)'
  BY <1>1, <1>2 DEF ASeq
<1>4. Len(mxCache') <= CacheSize
  <2>1. Len(mxCache) <= CacheSize /\ CacheSize \in Nat
    BY CacheAssumption DEF CacheOK
  <2>2. Len(mxCache') \in Nat /\ Len(mxCache') <= Len(mxCache)
    BY <1>1, <1>2, Zenon
  <2> QED
    BY <1>1, <2>1, <2>2, NoMore, Zenon
<1>5. \A i, j \in DOMAIN mxCache' : mxCache'[i].domain = mxCache'[j].domain => i = j
  BY <1>1, <1>2 DEF Distinct
<1>6. Range(mxCache') \subseteq Range(mxCache)
  BY <1>1, <1>2
<1> QED
  BY <1>3, <1>4, <1>5, <1>6 DEF CacheOK

(* What a dialogue says of the mailbox is so.                                 *)
LEMMA DialogueTells ==
  ASSUME NEW id, NEW d \in Dialogues(id)
  PROVE  SmtpTransaction(d) = "Verified" => Mailbox[id] \notin {"unknown", "catchall"}
<1>1. /\ d.rcpt = 250 => Mailbox[id] # "unknown"
      /\ d.probe = 550 => Mailbox[id] # "catchall"
  BY DEF Dialogues
<1>2. SmtpTransaction(d) = "Verified" => d.rcpt = 250 /\ CatchAllProbe(d.probe) = "Verified"
  BY DEF SmtpTransaction
<1>3. CatchAllProbe(d.probe) = "Verified" => d.probe = 550
  BY DEF CatchAllProbe
<1> QED
  BY <1>1, <1>2, <1>3

LEMMA VerifyingInv ==
  ASSUME IInv, NEW w \in Worker, Verifying(w)
  PROVE  IInv'
<1>1. /\ At(w, "verify") /\ CheckStep(w)
      /\ UNCHANGED <<campaign, queues, doneQ, doing, ledger, calls, visit, answered>>
  BY DEF Verifying
<1> DEFINE c == check[w]
<1>2. /\ DOMAIN c = DOMAIN NoCheck /\ c.at \in CheckStages /\ CheckTold(c) /\ CacheOK
  BY <1>1, InCheck
<1>3. DOMAIN c = {"at", "id", "domain", "mx", "smtp", "why", "host", "attempt"}
  BY <1>2 DEF NoCheck
<1> HIDE DEF c
<1>4. ASSUME NEW u, check' = [check EXCEPT ![w] = u], DOMAIN u = DOMAIN c,
             u.at \in CheckStages, u.id = c.id, CheckTold(u), CacheOK'
      PROVE  IInv'
  BY <1>1, <1>2, <1>4, CheckGoesOn DEF c
<1>5. UNCHANGED mxCache => CacheOK'
  BY CacheKept
<1>6. CASE MxCached(w)
  <2>1. PICK answer \in CachedAnswers(c.domain) :
            /\ check' = [check EXCEPT ![w].at = "smtp", ![w].mx = answer]
            /\ CacheSet(c.domain, answer)
    BY <1>6 DEF MxCached, c
  <2>2. PICK i \in DOMAIN mxCache : mxCache[i].domain = c.domain /\ mxCache[i].answer = answer
    BY <2>1 DEF CachedAnswers, Places
  <2>3. mxCache[i] \in Range(mxCache)
    BY DEF Range
  <2>4. /\ answer = "PASS" => MailHosts[c.domain] # <<>>
        /\ answer = "FAIL" => MailHosts[c.domain] = <<>>
    BY <1>2, <2>2, <2>3 DEF CacheOK
  <2> DEFINE u == [c EXCEPT !.at = "smtp", !.mx = answer]
  <2>5. /\ DOMAIN u = DOMAIN c /\ u.at = "smtp" /\ u.mx = answer /\ u.id = c.id
        /\ u.domain = c.domain
    BY <1>3
  <2>6. check' = [check EXCEPT ![w] = u]
    BY <1>1, <1>3, <2>1, InCheck DEF c
  <2> HIDE DEF u
  <2>7. CacheOK'
    BY <1>2, <2>1, <2>4, CacheSetKeeps
  <2>8. CheckTold(u)
    BY <2>4, <2>5 DEF CheckTold
  <2>9. u.at \in CheckStages
    BY <2>5 DEF CheckStages
  <2> QED
    BY <1>4, <2>5, <2>6, <2>7, <2>8, <2>9
<1>7. CASE MxMiss(w)
  <2> DEFINE u == IF MxEnabled THEN [c EXCEPT !.at = "lookup"]
                  ELSE [c EXCEPT !.at = "smtp", !.mx = "NOT_CHECKED"]
  <2>1. /\ check' = [check EXCEPT ![w] = u]
        /\ mxCache' = IF MxEnabled THEN Without(c.domain) ELSE mxCache
    BY <1>7 DEF MxMiss, c
  <2>2. /\ DOMAIN u = DOMAIN c /\ u.at \in {"lookup", "smtp"} /\ u.id = c.id
        /\ u.domain = c.domain /\ u.mx \in {c.mx, "NOT_CHECKED"}
    BY <1>3
  <2> HIDE DEF u
  <2>3. CacheOK'
    BY <1>2, <1>5, <2>1, CacheShrinks
  <2>4. CheckTold(u) /\ u.at \in CheckStages
    BY <1>2, <2>2 DEF CheckTold, CheckStages
  <2> QED
    BY <1>4, <2>1, <2>2, <2>3, <2>4
<1>8. CASE MxLookup(w)
  <2>1. PICK answer \in {IF MailHosts[c.domain] = <<>> THEN "FAIL" ELSE "PASS",
                         "INCONCLUSIVE"} :
            /\ check' = [check EXCEPT ![w].at = "smtp", ![w].mx = answer]
            /\ CacheSet(c.domain, answer)
    BY <1>8 DEF MxLookup, c
  <2>4. /\ answer = "PASS" => MailHosts[c.domain] # <<>>
        /\ answer = "FAIL" => MailHosts[c.domain] = <<>>
    OBVIOUS
  <2> DEFINE u == [c EXCEPT !.at = "smtp", !.mx = answer]
  <2>5. /\ DOMAIN u = DOMAIN c /\ u.at = "smtp" /\ u.mx = answer /\ u.id = c.id
        /\ u.domain = c.domain
    BY <1>3
  <2>6. check' = [check EXCEPT ![w] = u]
    BY <1>1, <1>3, <2>1, InCheck DEF c
  <2> HIDE DEF u
  <2>7. CacheOK'
    BY <1>2, <2>1, <2>4, CacheSetKeeps
  <2>8. CheckTold(u)
    BY <2>4, <2>5 DEF CheckTold
  <2>9. u.at \in CheckStages
    BY <2>5 DEF CheckStages
  <2> QED
    BY <1>4, <2>5, <2>6, <2>7, <2>8, <2>9
<1>9. CASE SmtpStart(w)
  <2>1. PICK hosts : check' = [check EXCEPT ![w] =
                IF ~SmtpVerify THEN Ended(c, "Not Checked", "smtp_disabled")
                ELSE IF c.mx # "PASS" THEN Ended(c, "Invalid", "mx")
                ELSE IF hosts = <<>> THEN Ended(c, "Invalid", "no_mx_hosts")
                ELSE [c EXCEPT !.at = "connect", !.smtp = "Inconclusive"]]
    BY <1>9 DEF SmtpStart, c
  <2> DEFINE u == IF ~SmtpVerify THEN Ended(c, "Not Checked", "smtp_disabled")
                  ELSE IF c.mx # "PASS" THEN Ended(c, "Invalid", "mx")
                  ELSE IF hosts = <<>> THEN Ended(c, "Invalid", "no_mx_hosts")
                  ELSE [c EXCEPT !.at = "connect", !.smtp = "Inconclusive"]
  <2>2. /\ DOMAIN u = DOMAIN c /\ u.at \in {"done", "connect"} /\ u.id = c.id
        /\ u.domain = c.domain /\ u.mx = c.mx
        /\ u.smtp \in {"Not Checked", "Invalid", "Inconclusive"}
        /\ u.at = "done" => u.why \in {"smtp_disabled", "mx", "no_mx_hosts"}
    BY <1>3 DEF Ended
  <2>3. check' = [check EXCEPT ![w] = u] /\ CacheOK'
    BY <1>5, <1>9, <2>1 DEF SmtpStart
  <2> HIDE DEF u
  <2>4. CheckTold(u) /\ u.at \in CheckStages
    BY <1>2, <2>2 DEF CheckTold, CheckStages
  <2> QED
    BY <1>4, <2>2, <2>3, <2>4
<1>10. CASE Connect(w)
  <2> DEFINE u == [c EXCEPT !.at = "session"]
  <2>1. check' = [check EXCEPT ![w] = u] /\ CacheOK'
    BY <1>5, <1>10 DEF Connect, c
  <2>2. /\ DOMAIN u = DOMAIN c /\ u.at = "session" /\ u.id = c.id
        /\ u.domain = c.domain /\ u.mx = c.mx
    BY <1>3
  <2> HIDE DEF u
  <2>4. CheckTold(u) /\ u.at \in CheckStages
    BY <1>2, <2>2 DEF CheckTold, CheckStages
  <2> QED
    BY <1>4, <2>1, <2>2, <2>4
<1>11. CASE Transact(w)
  <2> DEFINE After(status) ==
            IF status \in {"Verified", "Invalid"} THEN Ended(c, status, "rcpt")
            ELSE IF c.host < Len(MailHosts[c.domain])
                 THEN [c EXCEPT !.at = "connect", !.host = @ + 1]
            ELSE IF c.attempt < SmtpRetries
                 THEN [c EXCEPT !.at = "connect", !.host = 1, !.attempt = @ + 1]
            ELSE Ended(c, status, "last")
  <2>1. PICK d \in Dialogues(c.id) : check' = [check EXCEPT ![w] = After(SmtpTransaction(d))]
    BY <1>11 DEF Transact, c
  <2> DEFINE status == SmtpTransaction(d)
  <2>2. status = "Verified" => Mailbox[c.id] \notin {"unknown", "catchall"}
    BY DialogueTells
  <2> HIDE DEF status
  <2> DEFINE u == After(status)
  <2>3. check' = [check EXCEPT ![w] = u]
    BY <2>1 DEF status
  <2>4. /\ DOMAIN u = DOMAIN c /\ u.at \in {"done", "connect"} /\ u.id = c.id
        /\ u.domain = c.domain /\ u.mx = c.mx
        /\ u.at = "done" => u.smtp = status
    BY <1>3 DEF Ended
  <2> HIDE DEF u
  <2>5. CheckTold(u) /\ u.at \in CheckStages
    BY <1>2, <2>2, <2>4 DEF CheckTold, CheckStages
  <2>6. CacheOK'
    BY <1>5, <1>11 DEF Transact
  <2> QED
    BY <1>4, <2>3, <2>4, <2>5, <2>6
<1> QED
  BY <1>1, <1>6, <1>7, <1>8, <1>9, <1>10, <1>11 DEF CheckStep

LEMMA VerifyEndsInv ==
  ASSUME IInv, NEW w \in Worker, VerifyEnds(w)
  PROVE  IInv'
<1> DEFINE c == check[w]
           rec == doing[w].rec
           new == Updated(rec, [mx_status |-> Text(c.mx), smtp_status |-> Text(c.smtp),
                                smtp_reason |-> Text(c.why)])
           d == [doing[w] EXCEPT !.rec = new, !.at = "analyze"]
<1>1. /\ At(w, "verify") /\ c.at = "done" /\ Working(w, new, "analyze")
      /\ check' = [check EXCEPT ![w] = NoCheck] /\ visit' = visit /\ mxCache' = mxCache
      /\ answered' = answered /\ UNCHANGED <<campaign, queues, doneQ, ledger>>
  BY DEF VerifyEnds
<1>2. /\ DOMAIN doing = Worker /\ DOMAIN visit = Worker /\ DOMAIN check = Worker
      /\ DOMAIN doing[w] = {"lead", "rec", "at"} /\ doing[w].lead \in Lead
      /\ visit[w] = NoVisit /\ ~At(w, "free") /\ Sound(campaign, answered, rec)
      /\ CheckTold(c) /\ (EmailsToggle => rec.emails = Text(c.id))
      /\ campaign \in FilterSets
  BY <1>1, InCheck
<1>3. doing' = [doing EXCEPT ![w] = d]
  BY <1>1, <1>2 DEF Working
<1>4. DOMAIN d = {"lead", "rec", "at"} /\ d.lead = doing[w].lead /\ d.rec = new
      /\ d.at = "analyze"
  BY <1>2
<1>5. Sound(campaign, answered, new)
  <2>1. c.smtp = "Verified" => Mailbox[c.id] \notin {"unknown", "catchall"}
    BY <1>1, <1>2 DEF CheckTold
  <2> HIDE DEF c, rec
  <2> QED
    BY <1>2, <2>1, VerifiedSound, Zenon
<1> HIDE DEF c, rec, new, d
<1>6. /\ DOMAIN doing' = Worker /\ doing'[w] = d
      /\ \A x \in Worker \ {w} : doing'[x] = doing[x]
  BY <1>2, <1>3, PutAt
<1>7. /\ DOMAIN check' = Worker /\ check'[w] = NoCheck
      /\ \A x \in Worker \ {w} : check'[x] = check[x]
  BY <1>1, <1>2, PutAt
<1>8. Others(w)
  BY <1>1, <1>2, <1>6, <1>7 DEF Others
<1>9. ~At(w, "free")' /\ ~At(w, "visit")' /\ ~At(w, "verify")'
  BY <1>4, <1>6 DEF At
<1>10. HandOK(w)'
  BY <1>1, <1>2, <1>4, <1>6, <1>7, <1>9 DEF HandOK
<1>11. HandSound(w)'
  <2>1. NoCheck.mx = "Not Checked" /\ NoCheck.at = "idle"
    BY DEF NoCheck
  <2>2. CheckSound(w)' /\ VisitSound(w)'
    BY <1>7, <1>9, <2>1 DEF CheckSound, CheckTold, VisitSound
  <2>3. campaign' = campaign /\ answered' = answered
    BY <1>1
  <2> QED
    BY <1>4, <1>5, <1>6, <1>9, <2>2, <2>3 DEF HandSound
<1>12. CacheOK'
  BY <1>1, CacheKept
<1> QED
  BY <1>1, <1>2, <1>8, <1>9, <1>10, <1>11, <1>12, ThreadStep
-----------------------------------------------------------------------------
(* The committer.                                                             *)
LEMMA CommitInv ==
  ASSUME IInv, Commit
  PROVE  IInv'
<1> DEFINE item == Head(doneQ)
           l == item.lead
           rec == item.rec
           r == [lead |-> l, row |-> Row(Cleared(l, rec))]
           Claiming == owner' = IF SocialToggle THEN Updated(Claims(l, rec), owner) ELSE owner
<1>1. /\ doneQ # <<>> /\ doneQ' = Tail(doneQ)
      /\ UNCHANGED <<campaign, queues, doing, calls, outside, visit, answered, check, mxCache>>
  BY DEF Commit
<1>2. /\ campaign' = campaign /\ todo' = todo /\ held' = held /\ workQ' = workQ
      /\ outside' = outside /\ mxCache' = mxCache /\ UNCHANGED <<doing, visit, check>>
      /\ answered' = answered
  BY <1>1 DEF queues
<1>3. \/ /\ counts' = Bump("filtered") \/ counts' = Bump("failed")
         /\ rows' = rows /\ owner' = owner /\ unprinted' = unprinted
      \/ /\ Evaluate(rec, Split.post) /\ PassesQuality(rec) /\ Claiming
         /\ \/ /\ rows' = rows \cup {r} /\ counts' = Bump("committed")
               /\ unprinted' = unprinted
            \/ /\ rows' = rows /\ counts' = Bump("failed") /\ unprinted' = unprinted
            \/ /\ rows' = rows \cup {r} /\ counts' = Bump2("committed", "failed")
               /\ unprinted' = unprinted + 1
  BY Zenon DEF Commit, Cleared
<1>4. /\ ASeq(doneQ') /\ Len(doneQ) \in Nat \ {0} /\ Len(doneQ') = Len(doneQ) - 1
      /\ Range(doneQ') \subseteq Range(doneQ) /\ item \in Range(doneQ)
  <2>1. ASeq(doneQ)
    BY DEF IInv, QueuesOK
  <2>2. /\ ASeq(Tail(doneQ)) /\ Len(doneQ) \in Nat \ {0} /\ Len(Tail(doneQ)) = Len(doneQ) - 1
        /\ Range(Tail(doneQ)) \subseteq Range(doneQ) /\ item \in Range(doneQ)
    BY <1>1, <2>1, TailSeq, Zenon
  <2> QED
    BY <1>1, <2>2, Zenon
<1>5. Sound(campaign, answered, rec) /\ Columns \subseteq DOMAIN rec /\ campaign \in FilterSets
  BY <1>4 DEF IInv, RecordsOK, Queued, Sound
<1>6. Queued' \subseteq Queued
  BY <1>2, <1>4 DEF Queued
<1>7. r.lead = l /\ r.row = Row(Cleared(l, rec))
  OBVIOUS
<1> HIDE DEF item, l, rec, r
<1>8. QueuesOK'
  <2>1. \A x \in Queued' : DOMAIN x = {"lead", "rec"} /\ x.lead \in Lead
    BY <1>6 DEF IInv, QueuesOK
  <2>2. ASeq(todo)' /\ ASeq(held)' /\ ASeq(workQ)' /\ ASeq(doneQ)'
    BY <1>2, <1>4 DEF IInv, QueuesOK, ASeq
  <2> QED
    BY <1>2, <2>1, <2>2 DEF IInv, QueuesOK
<1>9. HandsOK' /\ Cardinality(Busy') = Cardinality(Busy)
  BY <1>2, HandsKept
<1>10. TallyOK'
  <2>0. /\ "filtered" \in CounterNames /\ "committed" \in CounterNames
        /\ "failed" \in CounterNames
    BY DEF CounterNames
  <2>1. /\ outside \in Nat /\ outside' = outside /\ InFlight \in Nat /\ unprinted \in Nat
        /\ counts.collected \in Nat
        /\ Come \in Nat /\ Settled \in Nat /\ Come = Settled + InFlight + outside
    BY <1>2, Tallied, CounterNats
  <2>2. InFlight' = InFlight - 1
    <3>1. HeldN' = HeldN /\ WorkN' = WorkN /\ DoneN' = DoneN - 1 /\ BusyN' = BusyN
      BY <1>2, <1>4, <1>9, Zenon DEF WorkN, DoneN, BusyN, HeldN
    <3> QED
      BY <3>1, FlowNext, Tallied
  <2>3. ASSUME NEW c \in {"filtered", "failed", "committed"}, counts' = Bump(c),
               unprinted' = unprinted
        PROVE  TallyOK'
    <3>1. counts' \in [CounterNames -> Nat] /\ Come' = Come /\ Settled' = Settled + 1
      BY <2>0, <2>3, BumpTally
    <3>2. Come' = Settled' + InFlight' + outside'
      BY <2>1, <2>2, <3>1
    <3> QED
      BY <2>1, <2>3, <3>1, <3>2, TallyMoved
  <2>4. CASE counts' = Bump2("committed", "failed") /\ unprinted' = unprinted + 1
    <3>1. /\ counts' \in [CounterNames -> Nat] /\ Come' = counts.collected + unprinted'
          /\ Settled' = Settled + 2
      BY <2>0, <2>4, Bump2Tally
    <3>2. Come' = Come + 1
      BY <2>1, <2>4, <3>1 DEF Come
    <3>3. Come' = Settled' + InFlight' + outside'
      BY <2>1, <2>2, <3>1, <3>2
    <3> QED
      BY <2>1, <2>4, <3>1, <3>3, TallyMoved
  <2> QED
    BY <1>3, <2>3, <2>4
<1>11. RecordsOK'
  <2>1. \A x \in Queued' : Sound(campaign, answered, x.rec)
    BY <1>6 DEF IInv, RecordsOK
  <2>2. \A x \in Range(held') \cup Range(workQ') : Unverified(x.rec)
    BY <1>2 DEF IInv, RecordsOK
  <2> QED
    BY <1>2, <2>1, <2>2, InHandKept
<1>12. CacheOK'
  BY <1>2, CacheKept
<1>13. CASE rows' = rows /\ owner' = owner
  <2>1. RowsOK'
    BY <1>2, <1>13, RowsKept
  <2> QED
    BY <1>2, <1>5, <1>8, <1>9, <1>10, <1>11, <1>12, <2>1 DEF IInv
<1>14. CASE /\ Evaluate(rec, Split.post) /\ PassesQuality(rec) /\ Claiming
            /\ rows' \subseteq rows \cup {r}
  <2>1. RowOK(campaign, answered, r.row)
    BY <1>5, <1>7, <1>14, RowSound
  <2>2. \A x \in rows' : RowOK(campaign, answered, x.row)
    BY <1>14, <2>1 DEF IInv, RowsOK
  <2>3. ASSUME SocialToggle, NEW x \in rows' PROVE Owned(x)'
    <3>1. /\ \A u \in DOMAIN owner : u \in DOMAIN owner' /\ owner'[u] = owner[u]
          /\ \A c \in Platforms :
                r.row[c] \notin Blank => r.row[c].s \in DOMAIN owner' /\ owner'[r.row[c].s] = l
      <4>1. owner' = Updated(Claims(l, rec), owner)
        BY <1>14, <2>3
      <4> QED
        BY <1>5, <1>7, <2>3, <4>1, RowOwned
    <3>2. CASE x \in rows
      <4>1. Owned(x)
        BY <2>3, <3>2 DEF IInv, RowsOK
      <4> QED
        BY <3>1, <4>1 DEF Owned
    <3>3. CASE x = r
      BY <1>7, <3>1, <3>3 DEF Owned
    <3> QED
      BY <1>14, <3>2, <3>3
  <2>4. RowsOK'
    BY <1>2, <2>2, <2>3 DEF RowsOK
  <2> QED
    BY <1>2, <1>5, <1>8, <1>9, <1>10, <1>11, <1>12, <2>4 DEF IInv
<1> QED
  BY <1>3, <1>13, <1>14

-----------------------------------------------------------------------------
LEMMA NextInv == IInv /\ [Next]_vars => IInv'
<1> SUFFICES ASSUME IInv, [Next]_vars PROVE IInv'
  OBVIOUS
<1>1. CASE Collect
  BY <1>1, CollectInv
<1>2. CASE Enqueue
  BY <1>2, EnqueueInv
<1>3. CASE Commit
  BY <1>3, CommitInv
<1>4. ASSUME NEW w \in Worker,
             \/ TakeLead(w) \/ Visiting(w) \/ VisitEnds(w) \/ VisitRaises(w)
             \/ Verifying(w) \/ VerifyEnds(w) \/ Analyze(w) \/ AnalyzeRaises(w)
      PROVE  IInv'
  BY <1>4, TakeLeadInv, VisitingInv, VisitEndsInv, VisitRaisesInv, VerifyingInv,
     VerifyEndsInv, AnalyzeInv, AnalyzeRaisesInv
<1>5. CASE UNCHANGED vars
  <2>1. /\ campaign' = campaign /\ todo' = todo /\ held' = held /\ workQ' = workQ
        /\ doneQ' = doneQ /\ UNCHANGED <<doing, visit, check>> /\ rows' = rows
        /\ owner' = owner /\ UNCHANGED <<counts, outside, unprinted>> /\ mxCache' = mxCache
        /\ answered' = answered
    BY <1>5 DEF vars
  <2>2. QueuesOK' /\ Queued' = Queued
    BY <2>1 DEF IInv, QueuesOK, ASeq, Queued
  <2>3. HandsOK' /\ Cardinality(Busy') = Cardinality(Busy)
    BY <2>1, HandsKept
  <2>4. TallyOK'
    <3>1. HeldN' = HeldN /\ WorkN' = WorkN /\ DoneN' = DoneN /\ BusyN' = BusyN
      BY <2>1, <2>3, Zenon DEF HeldN, WorkN, DoneN, BusyN
    <3> QED
      BY <2>1, <3>1, TallyKept
  <2>5. RecordsOK'
    <3>1. \A x \in Queued' : Sound(campaign, answered, x.rec)
      BY <2>2 DEF IInv, RecordsOK
    <3>2. \A x \in Range(held') \cup Range(workQ') : Unverified(x.rec)
      BY <2>1 DEF IInv, RecordsOK
    <3> QED
      BY <2>1, <3>1, <3>2, InHandKept
  <2>6. CacheOK' /\ RowsOK'
    BY <2>1, CacheKept, RowsKept
  <2> QED
    BY <2>1, <2>2, <2>3, <2>4, <2>5, <2>6 DEF IInv
<1> QED
  BY <1>1, <1>2, <1>3, <1>4, <1>5 DEF Next

(* The invariant holds of every state of a run.                               *)
THEOREM Invariance == Spec => []IInv
  BY InitInv, NextInv, PTL DEF Spec

(* The counters of a run add up (pipeline.py:475-480, 518-532, 605-639).      *)
THEOREM CountersExact == Spec => []CountersAddUp
<1>1. IInv => CountersAddUp
  BY DEF IInv, TallyOK
<1> QED
  BY <1>1, Invariance, PTL

(* With the social columns on, a profile is exported for one lead only        *)
(* (pipeline.py:88-97, 618-629).                                              *)
THEOREM ProfilesKept == ASSUME SocialToggle PROVE Spec => []ProfilesOwned
<1>1. IInv => ProfilesOwned
  <2> SUFFICES ASSUME IInv, NEW r \in rows, NEW q \in rows, r.lead # q.lead,
                      NEW c \in Platforms, NEW d \in Platforms, r.row[c] \notin Blank
               PROVE  r.row[c] # q.row[d]
    BY DEF ProfilesOwned
  <2>1. Owned(r) /\ Owned(q)
    BY DEF IInv, RowsOK
  <2> QED
    BY <2>1 DEF Owned
<1> QED
  BY <1>1, Invariance, PTL

(* Where the filters are on columns that are settled when they are decided, a *)
(* committed row satisfies all of them, and the quality gate                  *)
(* (pipeline.py:564, 607, 614).                                               *)
THEOREM CommittedPass == ASSUME FiltersSettled PROVE Spec => []CommittedPassAll
<1>1. IInv => CommittedPassAll
  BY DEF IInv, RowsOK, RowOK, CommittedPassAll
<1> QED
  BY <1>1, Invariance, PTL

(* With e-mails exported, a row says Verified only of a mailbox that exists   *)
(* in a domain that refuses another (email/verification.py:151-197).          *)
THEOREM VerifiedTruthful == ASSUME EmailsToggle PROVE Spec => []VerifiedOnlyIfDeliverable
<1>1. IInv => VerifiedOnlyIfDeliverable
  <2> SUFFICES ASSUME IInv PROVE VerifiedOnlyIfDeliverable
    OBVIOUS
  <2>1. \A r \in rows : MailOK(r.row)
    BY DEF IInv, RowsOK, RowOK
  <2>2. \A w \in Worker : CheckTold(check[w])
    BY DEF IInv, RecordsOK, HandSound, CheckSound
  <2> QED
    BY <2>1, <2>2 DEF MailOK, CheckTold, VerifiedOnlyIfDeliverable
<1> QED
  BY <1>1, Invariance, PTL

(* A site is exported as dead only if its homepage could not be reached when  *)
(* it was asked, and as live only if it gave another answer (models.py:103).  *)
THEOREM StatusOfHomepage == Spec => []BlockedIsNotDead
<1>1. IInv => BlockedIsNotDead
  BY DEF IInv, RowsOK, RowOK, StatusOK, BlockedIsNotDead
<1> QED
  BY <1>1, Invariance, PTL

(* The rules of a run are sound at its start: the split of the filters and    *)
(* the polygons (filters/engine.py:176-212, maps/geo.py:33-55).               *)
THEOREM SoundRules == Spec => [](SplitKeepsLess /\ PolygonMatchesHalfPlanes)
<1>1. SplitKeepsLess /\ PolygonMatchesHalfPlanes
  BY SplitIsSound, TriangleSound DEF SplitKeepsLess, PolygonMatchesHalfPlanes
<1> QED
  BY <1>1, PTL

(* The shapes, and that the score of a lead is a percentage whatever was said *)
(* of it (analysis/engine.py:153, utils/dns_cache.py:31).                     *)
THEOREM TypeCorrect == Spec => []TypeOK
<1>1. IInv => TypeOK
  <2> SUFFICES ASSUME IInv PROVE TypeOK
    OBVIOUS
  <2>1. NoVisit.at = "idle" /\ NoCheck.at = "idle"
    BY DEF NoVisit, NoCheck
  <2>2. ASSUME NEW w \in Worker
        PROVE  /\ doing[w].at \in {"free", "visit", "verify", "analyze"}
               /\ At(w, "visit") <=> visit[w] # NoVisit
               /\ At(w, "verify") <=> check[w] # NoCheck
    BY <2>1 DEF IInv, HandsOK, HandOK, VisitStages, CheckStages
  <2>3. ASSUME NEW i \in DOMAIN doneQ PROVE doneQ[i].rec.lead_score.n \in 0..100
    <3>1. doneQ[i] \in Queued
      BY DEF Queued, Range
    <3> QED
      BY <3>1 DEF IInv, RecordsOK, Sound, ScoreOK
  <2> QED
    BY <2>2, <2>3 DEF IInv, QueuesOK, CacheOK, TypeOK
<1> QED
  BY <1>1, Invariance, PTL
=============================================================================
