----------------------------- MODULE ReviewRules -----------------------------
(* What the reviews of a business say of it (maps/reviews.py,                 *)
(* analysis/engine.py): sentiment, topics, the review to quote, the score and *)
(* the mood of the pitch.                                                     *)
(*                                                                            *)
(* A review is [id, words], its length the number of its words.               *)
EXTENDS Filters, SequencesExt

CONSTANTS
    PositiveWords, NegativeWords,   \* the lexicon
    NoiseWords,                     \* stop words, interface noise and junk tokens
    MinLen, MaxLen, TopN

ASSUME ReviewAssumption == MinLen \in Nat /\ MaxLen \in Nat /\ TopN \in Nat

FirstSeen(seq) ==
    FoldLeft(LAMBDA kept, x : IF Contains(kept, x) THEN kept ELSE Append(kept, x), <<>>, seq)

(* Duplicates go before the length is looked at; 0 is no limit.               *)
FilterReviews(reviews) ==
    LET Cut(r) == IF MaxLen > 0 /\ Len(r.words) > MaxLen
                  THEN [r EXCEPT !.words = SubSeq(@, 1, MaxLen)] ELSE r
    IN  FoldLeft(LAMBDA kept, r : IF Len(r.words) >= MinLen THEN Append(kept, Cut(r)) ELSE kept,
                 <<>>, FirstSeen(reviews))

CountIn(review, lexicon) == Cardinality({i \in DOMAIN review.words : review.words[i] \in lexicon})
Scored(review) == CountIn(review, PositiveWords \cup NegativeWords)

(* n / d to the nearest integer, half to even.                                *)
Rounded(n, d) ==
    LET whole == n \div d
        rest == 2 * (n % d)
    IN  IF rest > d \/ (rest = d /\ whole % 2 = 1) THEN whole + 1 ELSE whole

(* The mean over the reviews with a word of the lexicon, in thousandths; the  *)
(* fractions are brought to the common denominator.  A word in both lists is  *)
(* a positive one.                                                            *)
SentimentScore(reviews) ==
    LET told == {i \in DOMAIN reviews : Scored(reviews[i]) > 0}
        common == FoldSet(LAMBDA i, d : d * Scored(reviews[i]), 1, told)
        Of(r) == (CountIn(r, PositiveWords) - CountIn(r, NegativeWords \ PositiveWords))
                     * (common \div Scored(r))
    IN  IF told = {} THEN 0
        ELSE Rounded(1000 * FoldSet(LAMBDA i, sum : sum + Of(reviews[i]), 0, told),
                     common * Cardinality(told))

(* The topics, and how many of them are kept; which, no property asks.        *)
ReviewKeywords(reviews) ==
    UNION {ToSet(reviews[i].words) : i \in DOMAIN reviews}
        \ (PositiveWords \cup NegativeWords \cup NoiseWords)
KeywordCount(reviews) ==
    LET topics == Cardinality(ReviewKeywords(reviews)) IN IF topics < TopN THEN topics ELSE TopN

TopReview(reviews) ==
    LET Rank(i) == <<SentimentScore(<<reviews[i]>>), Len(reviews[i].words)>>
        Above(i, j) == \/ Rank(i)[1] > Rank(j)[1]
                       \/ Rank(i)[1] = Rank(j)[1] /\ Rank(i)[2] > Rank(j)[2]
                       \/ Rank(i) = Rank(j) /\ i <= j
        best == CHOOSE i \in DOMAIN reviews : \A j \in DOMAIN reviews : Above(i, j)
    IN  IF reviews = <<>> THEN Text("") ELSE Text(reviews[best].id)

-----------------------------------------------------------------------------
(* The score from 0 to 100, in units of 1/2000; rating in tenths.             *)
AtMost(n, cap) == IF n > cap THEN cap ELSE n
Positive(v) == IF v.kind = "num" /\ v.n > 0 THEN v.n ELSE 0

LeadScore(rating, reviewCount, sentiment, keywords) ==
    Rounded(AtMost(1600 * Positive(rating), 80000) + AtMost(400 * Positive(reviewCount), 40000)
            + 25 * (sentiment + 1000) + AtMost(6000 * keywords, 30000), 2000)

PitchHook(sentiment) ==
    CASE sentiment > 300  -> Text("praise")
      [] sentiment < -300 -> Text("complaint")
      [] OTHER            -> Text("neutral")

AnalyzeReviews(reviews, rating, reviewCount) ==
    LET sentiment == SentimentScore(reviews)
    IN  [sentiment_score |-> Num(sentiment),
         lead_score |-> Num(LeadScore(rating, reviewCount, sentiment, KeywordCount(reviews))),
         pitch_hook |-> PitchHook(sentiment),
         top_review |-> TopReview(reviews)]
=============================================================================
