--------------------------------- MODULE Scraping ---------------------------------
(***************************************************************************)
(* get_posts and get_posts_extended (trending.py), which collect what the  *)
(* scraper yields until it ends, fails or has yielded enough, and the two  *)
(* rankings of accounts made from it: identify_candidate_accounts          *)
(* (recommender.py) and select_candidates (candidate.py).  Text is a       *)
(* sequence of words; scores are whole numbers of tenths.                  *)
(***************************************************************************)
EXTENDS Integers, Sequences, FiniteSets, SequencesExt, FiniteSetsExt

CONSTANTS
    Tweets,  \* what the scraper may yield
    Limit,
    TopN,    \* accounts to return
    TopWords \* the common words that count as keywords

ASSUME ScrapingAssumption ==
    /\ TopN \in Nat
    /\ \A t \in Tweets :
          /\ t.content \in Seq(STRING) /\ t.followers \in Nat
          /\ t.media \in Seq([alt : Seq(STRING), url : BOOLEAN])

VARIABLES
    stream,   \* what the scraper has yielded
    posts,    \* get_posts: what was made of it
    extended, \* get_posts_extended on the same stream
    scraping  \* the loop is running

scrapingVars == <<stream, posts, extended, scraping>>

ScrapingInit ==
    /\ stream = <<>>
    /\ posts = <<>>
    /\ extended = <<>>
    /\ scraping = TRUE

NoQuote == <<>>

\* A fault in the media list keeps the items in front of it; one in the quoted
\* tweet, in its author or in what follows, gives up the quotation.
PostOf(tweet, read, fault) ==
    [user |-> tweet.user, content |-> tweet.content,
     alts |-> [i \in 1 .. read |-> tweet.media[i].alt],
     quoted |-> IF fault = "none" THEN tweet.quoted ELSE NoQuote]

\* The url of a quotation is made of its author, before its text and media are
\* read.
ExtendedOf(tweet, read, fault) ==
    [user |-> tweet.user, content |-> tweet.content, followers |-> tweet.followers,
     hasMedia |-> \E i \in 1 .. read : tweet.media[i].url,
     hasQuote |-> tweet.quoted # NoQuote /\ fault # "author"]

WithinLimit == Len(stream) < Limit

Yield(tweet, read, fault) ==
    /\ scraping
    /\ WithinLimit
    /\ stream' = Append(stream, tweet)
    /\ posts' = Append(posts, PostOf(tweet, read, fault))
    /\ extended' = Append(extended, ExtendedOf(tweet, read, fault))
    /\ UNCHANGED scraping

\* The scraper is exhausted, raises, yields a tweet without author or date, or
\* one more than enough: what has been collected is returned.
EndScrape ==
    /\ scraping
    /\ scraping' = FALSE
    /\ UNCHANGED <<stream, posts, extended>>

ScrapingNext ==
    \/ \E tweet \in Tweets :
          \E read \in 0 .. Len(tweet.media), fault \in {"none", "author", "content"} :
             Yield(tweet, read, fault)
    \/ EndScrape

ScrapingSpec == ScrapingInit /\ [][ScrapingNext]_scrapingVars

-----------------------------------------------------------------------------
(* The scores.                                                             *)

Words(text) == {text[i] : i \in DOMAIN text}

\* FOOTBALL_KEYWORDS: one word of each kind.  _count_keyword_hits maps accented
\* letters of the text to plain ones, but not those of the keywords.
FootballKeywords == {"gol", "accented"}
Plain(word) == IF word = "accented" THEN "unaccented" ELSE word
Hits(text) == FootballKeywords \cap {Plain(w) : w \in Words(text)}
KeywordHits(text) == Cardinality(Hits(text))

\* score_post; hits count double in each alternative text
FootballScore(post) ==
    10 * KeywordHits(post.content) + 5 * KeywordHits(post.quoted)
    + 20 * Cardinality({h \in (DOMAIN post.alts) \X FootballKeywords :
                           h[2] \in Hits(post.alts[h[1]])})

\* Contents of a sample, one after another; words of up to two letters are left out.
AllWords(sample) == FlattenSeq([i \in DOMAIN sample |-> sample[i].content])

Occurrences(word, text) == {i \in DOMAIN text : text[i] = word}

\* _extract_keywords_from_posts: the most common words, those that come first
\* before others of their number.
CommonWords(sample) ==
    LET text == AllWords(sample)
        ahead(v, w) ==
            LET m == Occurrences(v, text)
                n == Occurrences(w, text)
            IN \/ Cardinality(m) > Cardinality(n)
               \/ Cardinality(m) = Cardinality(n) /\ Min(m) < Min(n)
    IN {w \in ToSet(text) : Cardinality({v \in ToSet(text) : ahead(v, w)}) < TopWords}

\* _score_post, with ten times the logarithm of the followers
CandidateScore(post, keywords) ==
    post.followers + (IF post.hasMedia THEN 10 ELSE 0) + (IF post.hasQuote THEN 5 ELSE 0)
    + 3 * Cardinality(keywords \cap ToSet(post.content))

-----------------------------------------------------------------------------
(* The rankings.                                                           *)

\* The account of an item gets its score; a new one comes after the others.
Credit(accounts, item) ==
    LET own(n) == accounts[n].user = item.user
    IN IF \E n \in DOMAIN accounts : own(n)
       THEN [n \in DOMAIN accounts |->
                IF own(n) THEN [accounts[n] EXCEPT !.total = @ + item.score, !.posts = @ + 1]
                ELSE accounts[n]]
       ELSE Append(accounts, [user |-> item.user, total |-> item.score, posts |-> 1])

Collect(scored) ==
    LET after[n \in 0 .. Len(scored)] ==
            IF n = 0 THEN <<>> ELSE Credit(after[n - 1], scored[n])
    IN after[Len(scored)]

\* Mutant: the totals are compared, so whoever posts most wins.
MoreInAll(a, b) == a.total > b.total

HigherAverage(a, b) == a.total * b.posts > b.total * a.posts

\* list.sort is stable: an account goes behind those that are not below it.
Place(ranked, account) ==
    LET below(n) == n = Len(ranked) + 1 \/ HigherAverage(account, ranked[n])
    IN InsertAt(ranked, Min({n \in 1 .. Len(ranked) + 1 : below(n)}), account)

Sorted(accounts) ==
    LET placed[n \in 0 .. Len(accounts)] ==
            IF n = 0 THEN <<>> ELSE Place(placed[n - 1], accounts[n])
    IN placed[Len(accounts)]

Ranking(scored) ==
    LET ranked == Sorted(Collect(scored))
    IN [n \in 1 .. Min({TopN, Len(ranked)}) |-> ranked[n].user]

FootballScores ==
    [i \in DOMAIN posts |-> [user |-> posts[i].user, score |-> FootballScore(posts[i])]]

IdentifyCandidateAccounts == Ranking(FootballScores)

CandidateScores(query) ==
    LET keywords == {query} \cup CommonWords(extended)
    IN [i \in DOMAIN extended |->
           [user |-> extended[i].user, score |-> CandidateScore(extended[i], keywords)]]

SelectCandidates(query) == Ranking(CandidateScores(query))

-----------------------------------------------------------------------------

ItemsOf(scored, u) == {i \in DOMAIN scored : scored[i].user = u}

TotalOf(scored, u) ==
    LET total[n \in 0 .. Len(scored)] ==
            IF n = 0 THEN 0
            ELSE total[n - 1] + (IF scored[n].user = u THEN scored[n].score ELSE 0)
    IN total[Len(scored)]

\* u's average is above v's, or they are equal and u comes first in the sample.
RankedBefore(scored, u, v) ==
    LET left == TotalOf(scored, u) * Cardinality(ItemsOf(scored, v))
        right == TotalOf(scored, v) * Cardinality(ItemsOf(scored, u))
    IN \/ left > right
       \/ left = right /\ Min(ItemsOf(scored, u)) < Min(ItemsOf(scored, v))

IsRanking(list, scored) ==
    LET users == {scored[i].user : i \in DOMAIN scored}
    IN /\ Len(list) = Min({TopN, Cardinality(users)})
       /\ ToSet(list) \subseteq users
       /\ \A i, j \in DOMAIN list : i < j => RankedBefore(scored, list[i], list[j])
       /\ \A i \in DOMAIN list, u \in users \ ToSet(list) : RankedBefore(scored, list[i], u)

\* Both rankings hold the accounts of the best average over their own posts, the
\* best first and equal ones as they came, whatever the scrape has lost.
RankingsAreRight ==
    ~scraping =>
        /\ IsRanking(IdentifyCandidateAccounts, FootballScores)
        /\ \A query \in FootballKeywords :
               IsRanking(SelectCandidates(query), CandidateScores(query))

=============================================================================
