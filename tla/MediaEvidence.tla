------------------------------ MODULE MediaEvidence ------------------------------
(***************************************************************************)
(* What a post's text, quotation and media say about its topic:            *)
(* build_multimodal_evidence (xnative/media/multimodal_evidence.py), for a *)
(* post whose media are captured one after another.  Confidences are       *)
(* hundredths; a text is the set of terms found in it.                     *)
(***************************************************************************)
EXTENDS Integers, Sequences

CONSTANTS
    Terms,    \* words of FOOTBALL_TERMS that occur
    Items,    \* media a post may have
    MaxItems  \* bound: media of a post

VARIABLES
    post,   \* its text, its quotation and its media
    runOcr

evidenceVars == <<post, runOcr>>

\* A text may be empty, and one that is not may name no term.
NoText == [present |-> FALSE, terms |-> {}]
Texts == {NoText} \cup [present : {TRUE}, terms : SUBSET Terms]

EvidenceInit ==
    /\ post \in [text : Texts, quote : Texts, media : {<<>>}]
    /\ runOcr \in BOOLEAN

AttachMedia(item) ==
    /\ Len(post.media) < MaxItems
    /\ post' = [post EXCEPT !.media = Append(@, item)]
    /\ UNCHANGED runOcr

EvidenceNext == \E item \in Items : AttachMedia(item)

EvidenceSpec == EvidenceInit /\ [][EvidenceNext]_evidenceVars

-----------------------------------------------------------------------------
(* The evidence.                                                           *)

\* _collect_media_text: a text that was supplied stands for the recognised one.
OcrText(item) ==
    IF item.ocr.present THEN item.ocr
    ELSE IF runOcr /\ item.stored /\ item.kind \in {"image", "video", "gif"}
    THEN item.recognised ELSE NoText

AltTexts(media) == {t \in {media[i].alt : i \in DOMAIN media} : t.present}
OcrTexts(media) == {t \in {OcrText(media[i]) : i \in DOMAIN media} : t.present}

\* Mutant: a recognised text takes the place of the alternative texts.
OcrOrAltTexts(media) == IF OcrTexts(media) = {} THEN AltTexts(media) ELSE OcrTexts(media)

VisualTexts(media) == AltTexts(media) \cup OcrTexts(media)

VisualTerms(media) == UNION {t.terms : t \in VisualTexts(media)}

OfText(text, named, unnamed) ==
    IF text.terms # {} THEN named ELSE IF text.present THEN unnamed ELSE 0

VisualConfidence(media) ==
    IF VisualTerms(media) # {} THEN 80
    ELSE IF VisualTexts(media) # {} THEN 45 ELSE IF media # <<>> THEN 20 ELSE 0

AudioVideo(media) == {i \in DOMAIN media : media[i].kind \in {"video", "gif", "audio"}}

Relationship(p) ==
    LET said == p.text.terms \cup p.quote.terms # {}
        shown == VisualTerms(p.media) # {}
    IN CASE said /\ shown -> [name |-> "supports", confidence |-> 75]
         [] ~said /\ shown -> [name |-> "visual_supplies_context", confidence |-> 65]
         [] said /\ ~shown /\ p.media # <<>> ->
                [name |-> "media_unclear_not_penalized", confidence |-> 45]
         [] said /\ p.media = <<>> -> [name |-> "text_only_context", confidence |-> 55]
         [] OTHER -> [name |-> "insufficient_topic_evidence", confidence |-> 20]

BuildMultimodalEvidence(p) ==
    [topics |-> p.text.terms \cup p.quote.terms \cup VisualTerms(p.media),
     text |-> OfText(p.text, 85, 45),
     quote |-> OfText(p.quote, 75, 35),
     visual |-> VisualConfidence(p.media),
     audioVideo |-> IF AudioVideo(p.media) # {} THEN 40 ELSE 0,
     relationship |-> Relationship(p)]

-----------------------------------------------------------------------------

\* One more medium never takes away a topic, nor confidence in a modality, nor
\* the support of the text by what is seen; confidence in the relationship falls
\* only from a text that stands alone to one whose media are unclear.
MediaOnlyAdds ==
    [][post'.media # post.media =>
         LET before == BuildMultimodalEvidence(post)
             after == BuildMultimodalEvidence(post')
         IN /\ before.topics \subseteq after.topics
            /\ before.visual <= after.visual /\ before.audioVideo <= after.audioVideo
            /\ before.relationship.name = "supports" => after.relationship = before.relationship
            /\ after.relationship.confidence < before.relationship.confidence =>
                   /\ before.relationship.name = "text_only_context"
                   /\ after.relationship.name = "media_unclear_not_penalized"]_evidenceVars

=============================================================================
