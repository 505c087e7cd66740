------------------------------- MODULE MCFiles -------------------------------
(* Instances for TLC of the media store, the board file and what is         *)
(* computed from media and posts: clusters of hashes, the plan of a clip,   *)
(* evidence, rankings of accounts.  They share no state, so a behaviour     *)
(* moves one of them.                                                       *)
EXTENDS MCMediaStore, Board, Clusters, VideoPlan, MediaEvidence, Scraping

CONSTANTS Session1, Session2

VARIABLE part

MCSessions == {Session1, Session2}

Symmetry == Permutations(MCSessions) \cup Permutations(Contents \ {Empty, Large})

\* Rows of one pixel pair and more: six hashes, the nearest one bit apart.
MCPictures == {p \in [1 .. 2 -> [1 .. 3 -> 0 .. 1]] : p[2][2] = 0 /\ p[2][3] = 0}

MCDurations == (-1 .. 30) \cup {NoDuration}

MCClipPolicies ==
    [maxVideo : {20}, maxAudio : {12, 25}, maxFrames : {-1, 0, 2, 3}, minGap : {1, 3, 6}]

Says(terms) == [present |-> TRUE, terms |-> terms]

Medium(kind, alt, ocr, recognised) ==
    [kind |-> kind, alt |-> alt, ocr |-> ocr, stored |-> recognised # NoText,
     recognised |-> recognised]

MCItems == {
    Medium("image", NoText, NoText, NoText),
    Medium("image", Says({"gol"}), NoText, Says({})),
    Medium("audio", Says({}), NoText, Says({"gol"})),
    Medium("gif", NoText, Says({"mac"}), Says({"gol"})),
    Medium("video", Says({}), NoText, Says({"mac"}))}

Tweet(user, content, followers, media, quoted) ==
    [user |-> user, content |-> content, followers |-> followers, media |-> media,
     quoted |-> quoted]

Picture(alt, url) == [alt |-> alt, url |-> url]

MCTweets == {
    Tweet("a", <<"gol">>, 0, <<>>, NoQuote),
    Tweet("a", <<"x", "accented">>, 0,
          <<Picture(<<"gol">>, FALSE), Picture(<<"x">>, TRUE)>>, NoQuote),
    Tweet("b", <<"x">>, 10, <<>>, <<"gol">>),
    Tweet("b", <<"accented">>, 10, <<Picture(<<"gol">>, TRUE)>>, NoQuote),
    Tweet("c", <<"x", "gol">>, 5, <<>>, NoQuote)}

filesVars == <<boardVars, clustersVars, plan, evidenceVars, scrapingVars>>

FilesInit ==
    /\ part \in {"store", "board", "clusters", "plan", "evidence", "scraping"}
    /\ Init /\ BoardInit /\ PlanInit /\ ScrapingInit
    /\ ClustersInit /\ (part # "clusters" => hashes = <<>>)
    /\ EvidenceInit /\ (part # "evidence" => runOcr /\ post.text = NoText /\ post.quote = NoText)

FilesNext ==
    \/ /\ part = "store" /\ Next
       /\ UNCHANGED <<part, filesVars>>
    \/ /\ part = "board" /\ BoardNext
       /\ UNCHANGED <<part, vars, clustersVars, plan, evidenceVars, scrapingVars>>
    \/ /\ part = "clusters" /\ ClustersNext
       /\ UNCHANGED <<part, vars, boardVars, plan, evidenceVars, scrapingVars>>
    \/ /\ part = "plan" /\ PlanNext
       /\ UNCHANGED <<part, vars, boardVars, clustersVars, evidenceVars, scrapingVars>>
    \/ /\ part = "evidence" /\ EvidenceNext
       /\ UNCHANGED <<part, vars, boardVars, clustersVars, plan, scrapingVars>>
    \/ /\ part = "scraping" /\ ScrapingNext
       /\ UNCHANGED <<part, vars, boardVars, clustersVars, plan, evidenceVars>>

FilesSpec == FilesInit /\ [][FilesNext]_<<part, vars, filesVars>>

=============================================================================
