----------------------------- MODULE Files_proofs -----------------------------
(***************************************************************************)
(* Proofs about what is kept in files and computed from media: the project *)
(* board, for any sessions, numbers of tasks and faults; the evidence of a *)
(* post, for any media; the frames of a clip, for any durations and        *)
(* policies; the clusters of hashes, for any hashes and threshold; and the *)
(* rankings of accounts, for any tweets and wherever the scrape ends.      *)
(***************************************************************************)
EXTENDS Board, Clusters, MediaEvidence, Scraping, VideoPlan, FiniteSetTheorems,
        SequenceTheorems, WellFoundedInduction, TLAPS

\* A set of numbers has a least one.
LEMMA LeastNumber ==
    ASSUME NEW S \in SUBSET Nat, S # {}
    PROVE  \E n \in S : \A m \in S : n <= m
  <1> DEFINE Less == {p \in Nat \X Nat : p[1] < p[2]}
  <1>1. IsWellFoundedOn(Less, Nat)
    BY NatLessThanWellFounded DEF OpToRel
  <1> HIDE DEF Less
  <1>2. PICK n \in S : \A m \in S : <<m, n>> \notin Less
    BY <1>1, WFMin
  <1>3. \A m \in S : ~(m < n)
    BY <1>2 DEF Less
  <1> QED
    BY <1>2, <1>3

-----------------------------------------------------------------------------
(* The board.                                                              *)

Task == [id : Nat \ {0}, title : Nat, status : Statuses]

Sheets == {s \in SUBSET Task : UniqueIds(s)}

Copies ==
    [phase : {"away", "open", "saving"}, tasks : Sheets, based : Sheets \cup {Unreadable},
     removed : SUBSET Nat]

\* No id is greater than the number of tasks that were added.
WithinAdded(tasks, n) == \A t \in tasks : t.id <= n

\* What a session holds is what it has begun with but for the titles it has
\* removed, or it began with an unreadable file.
Accounted(copy) ==
    \/ copy.based = Unreadable
    \/ TitlesOf(copy.based) \subseteq TitlesOf(copy.tasks) \cup copy.removed

\* The inductive invariant.
BoardInv ==
    /\ added \in 0 .. MaxTasks
    /\ file = Unreadable \/ (file \in Sheets /\ WithinAdded(file, added))
    /\ last \in Sheets
    /\ session \in [Sessions -> Copies]
    /\ \A s \in Sessions :
        /\ WithinAdded(session[s].tasks, added)
        /\ Accounted(session[s])

\* The next id is above every id in use and at most one above the tasks added.
LEMMA NextIdFacts ==
    ASSUME NEW tasks \in Sheets, NEW n \in Nat, n < MaxTasks, WithinAdded(tasks, n)
    PROVE  /\ NextId(tasks) \in 1 .. n + 1
           /\ \A t \in tasks : t.id < NextId(tasks)
  <1> DEFINE Above == {m \in 1 .. n + 1 : \A t \in tasks : t.id < m}
  <1>1. Above \in SUBSET Nat /\ n + 1 \in Above
    BY DEF WithinAdded, Sheets, Task
  <1>2. PICK m \in Above : \A k \in Above : m <= k
    BY <1>1, LeastNumber
  <1>3. m = 1 \/ \E t \in tasks : t.id = m - 1
    <2> SUFFICES ASSUME m # 1, \A t \in tasks : t.id # m - 1 PROVE FALSE
      OBVIOUS
    <2>1. \A t \in tasks : t.id \in Nat /\ t.id < m
      BY <1>2 DEF Sheets, Task
    <2>2. m - 1 \in Above
      BY <1>2, <2>1
    <2> QED
      BY <1>2, <2>2
  <1>4. m \in 1 .. MaxTasks + 1
    BY <1>2, BoardAssumption
  <1>5. \A k \in 1 .. MaxTasks + 1 :
           (\A t \in tasks : t.id < k) /\ (k = 1 \/ \E t \in tasks : t.id = k - 1) => k = m
    <2> SUFFICES ASSUME NEW k \in 1 .. MaxTasks + 1, \A t \in tasks : t.id < k,
                        k = 1 \/ \E t \in tasks : t.id = k - 1
                 PROVE  k = m
      OBVIOUS
    <2>1. \A t \in tasks : t.id < m /\ t.id \in Nat
      BY <1>2 DEF Sheets, Task
    <2> QED
      BY <1>2, <1>3, <2>1, BoardAssumption
  <1>6. NextId(tasks) = m
    BY <1>2, <1>3, <1>4, <1>5 DEF NextId
  <1> QED
    BY <1>2, <1>6

\* One session changes its list and begins to save it.
LEMMA ChangeStep ==
    ASSUME BoardInv, NEW s \in Sessions, NEW tasks \in Sheets, NEW removed \in SUBSET Nat,
           Change(s, tasks, removed),
           added' \in 0 .. MaxTasks, added <= added',
           WithinAdded(tasks, added'),
           TitlesOf(session[s].tasks) \cup session[s].removed \subseteq TitlesOf(tasks) \cup removed
    PROVE  BoardInv'
  <1>1. session[s] \in Copies
    BY DEF BoardInv
  <1>2. PICK copy : /\ session' = [session EXCEPT ![s] = copy]
                    /\ copy \in Copies /\ copy.tasks = tasks
                    /\ copy.removed = removed /\ copy.based = session[s].based
    <2> DEFINE copy == [session[s] EXCEPT !.phase = "saving", !.tasks = tasks, !.removed = removed]
    <2>1. session' = [session EXCEPT ![s] = copy]
      BY <1>1 DEF Change, BoardInv, Copies
    <2>2. /\ copy \in Copies /\ copy.tasks = tasks
          /\ copy.removed = removed /\ copy.based = session[s].based
      BY <1>1 DEF Copies
    <2> QED
      BY <2>1, <2>2
  <1>3. Accounted(copy)
    BY <1>2 DEF BoardInv, Accounted
  <1>4. \A r \in Sessions : WithinAdded(session[r].tasks, added')
    BY BoardAssumption DEF BoardInv, WithinAdded, Copies, Sheets, Task
  <1>5. \A r \in Sessions : session'[r] = IF r = s THEN copy ELSE session[r]
    BY <1>2 DEF BoardInv
  <1>6. \A r \in Sessions : WithinAdded(session'[r].tasks, added') /\ Accounted(session'[r])
    BY <1>2, <1>3, <1>4, <1>5 DEF BoardInv
  <1>7. session' \in [Sessions -> Copies]
    BY <1>2 DEF BoardInv
  <1> QED
    BY <1>6, <1>7 DEF BoardInv, Change

\* add_task
LEMMA AddTaskStep ==
    ASSUME BoardInv, NEW s \in Sessions, NEW status \in Statuses, AddTask(s, status)
    PROVE  BoardInv'
  <1> DEFINE old == session[s].tasks
             new == [id |-> NextId(old), title |-> added + 1, status |-> status]
  <1>1. old \in Sheets /\ WithinAdded(old, added) /\ added \in Nat /\ added < MaxTasks
    BY DEF AddTask, BoardInv, Copies
  <1>2. NextId(old) \in 1 .. added + 1 /\ \A t \in old : t.id < NextId(old)
    BY <1>1, NextIdFacts
  <1>3. new \in Task /\ new.id = NextId(old)
    BY <1>1, <1>2 DEF Task
  <1> HIDE DEF new
  <1>4. old \cup {new} \in Sheets
    <2>1. old \cup {new} \in SUBSET Task
      BY <1>1, <1>3 DEF Sheets
    <2>2. UniqueIds(old \cup {new})
      BY <1>1, <1>2, <1>3 DEF Sheets, UniqueIds, Task
    <2> QED
      BY <2>1, <2>2 DEF Sheets
  <1>5. added' = added + 1 /\ Change(s, old \cup {new}, session[s].removed)
    BY DEF AddTask, new
  <1>6. WithinAdded(old \cup {new}, added')
    BY <1>1, <1>2, <1>3, <1>5 DEF WithinAdded, Sheets, Task
  <1>7. session[s].removed \in SUBSET Nat
    BY DEF BoardInv, Copies
  <1>8. TitlesOf(old) \subseteq TitlesOf(old \cup {new})
    BY DEF TitlesOf
  <1>9. added' \in 0 .. MaxTasks /\ added <= added'
    BY <1>1, <1>5, BoardAssumption
  <1> QED
    BY <1>4, <1>5, <1>6, <1>7, <1>8, <1>9, ChangeStep

\* update_task
LEMMA UpdateTaskStep ==
    ASSUME BoardInv, NEW s \in Sessions, NEW task \in session[s].tasks,
           NEW status \in Statuses, UpdateTask(s, task, status)
    PROVE  BoardInv'
  <1> DEFINE old == session[s].tasks
             new == [task EXCEPT !.status = status]
             tasks == (old \ {task}) \cup {new}
  <1>1. /\ old \in Sheets /\ WithinAdded(old, added) /\ added \in 0 .. MaxTasks
        /\ session[s].removed \in SUBSET Nat
    BY DEF BoardInv, Copies
  <1>2. task \in Task /\ new \in Task /\ new.id = task.id /\ new.title = task.title
    BY <1>1 DEF Sheets, Task
  <1>3. added' = added /\ Change(s, tasks, session[s].removed)
    BY DEF UpdateTask
  <1> HIDE DEF new
  <1>4. tasks \in Sheets
    <2>1. tasks \in SUBSET Task
      BY <1>1, <1>2 DEF Sheets
    <2>2. UniqueIds(tasks)
      BY <1>1, <1>2 DEF Sheets, UniqueIds
    <2> QED
      BY <2>1, <2>2 DEF Sheets
  <1>5. WithinAdded(tasks, added')
    BY <1>1, <1>2, <1>3 DEF WithinAdded
  <1>6. TitlesOf(old) \subseteq TitlesOf(tasks)
    BY <1>2 DEF TitlesOf
  <1> HIDE DEF tasks
  <1> QED
    BY <1>1, <1>3, <1>4, <1>5, <1>6, ChangeStep

\* remove_task
LEMMA RemoveTaskStep ==
    ASSUME BoardInv, NEW s \in Sessions, NEW task \in session[s].tasks, RemoveTask(s, task)
    PROVE  BoardInv'
  <1> DEFINE old == session[s].tasks
             tasks == old \ {task}
             removed == session[s].removed \cup {task.title}
  <1>1. /\ old \in Sheets /\ WithinAdded(old, added) /\ added \in 0 .. MaxTasks
        /\ session[s].removed \in SUBSET Nat
    BY DEF BoardInv, Copies
  <1>2. added' = added /\ Change(s, tasks, removed)
    BY DEF RemoveTask
  <1>3. tasks \in Sheets /\ removed \in SUBSET Nat
    BY <1>1 DEF Sheets, UniqueIds, Task
  <1>4. WithinAdded(tasks, added')
    BY <1>1, <1>2 DEF WithinAdded
  <1>5. TitlesOf(old) \cup session[s].removed \subseteq TitlesOf(tasks) \cup removed
    BY DEF TitlesOf
  <1> HIDE DEF tasks, removed
  <1> QED
    BY <1>1, <1>2, <1>3, <1>4, <1>5, ChangeStep

\* A session opens the board, its save succeeds or fails, or it ends.
LEMMA SessionSteps ==
    ASSUME BoardInv, NEW s \in Sessions, Open(s) \/ Save(s) \/ SaveFails(s) \/ Leave(s)
    PROVE  BoardInv'
  <1>1. /\ session[s] \in Copies /\ WithinAdded(session[s].tasks, added)
        /\ Accounted(session[s]) /\ session[s].tasks \in Sheets /\ {} \in Sheets
    BY DEF BoardInv, Copies, Sheets, UniqueIds
  <1>2. ASSUME NEW copy \in Copies, session' = [session EXCEPT ![s] = copy],
               WithinAdded(copy.tasks, added), Accounted(copy),
               UNCHANGED added, last' \in Sheets,
               file' = Unreadable \/ (file' \in Sheets /\ WithinAdded(file', added))
        PROVE  BoardInv'
    <2>1. session' \in [Sessions -> Copies]
      BY <1>2 DEF BoardInv
    <2>2. \A r \in Sessions : session'[r] = IF r = s THEN copy ELSE session[r]
      BY <1>2 DEF BoardInv
    <2>3. \A r \in Sessions : WithinAdded(session'[r].tasks, added) /\ Accounted(session'[r])
      BY <1>2, <2>2 DEF BoardInv
    <2> QED
      BY <1>2, <2>1, <2>3 DEF BoardInv
  <1>3. CASE Open(s)
    <2> DEFINE tasks == IF file = Unreadable THEN {} ELSE file
               copy == [phase |-> "open", based |-> file, removed |-> {}, tasks |-> tasks]
    <2>1. tasks \in Sheets /\ WithinAdded(tasks, added) /\ file \in Sheets \cup {Unreadable}
      BY <1>1 DEF BoardInv, WithinAdded
    <2>2. copy \in Copies /\ copy.tasks = tasks
      BY <2>1 DEF Copies
    <2>3. Accounted(copy)
      BY DEF Accounted
    <2>4. session' = [session EXCEPT ![s] = copy] /\ UNCHANGED <<file, added, last>>
      BY <1>3 DEF Open
    <2> HIDE DEF copy
    <2> QED
      BY <1>2, <2>1, <2>2, <2>3, <2>4 DEF BoardInv
  <1>4. CASE Save(s)
    <2> DEFINE copy == [session[s] EXCEPT !.phase = "open", !.based = session[s].tasks,
                                          !.removed = {}]
    <2>1. session' = [session EXCEPT ![s] = copy]
      BY <1>1, <1>4 DEF Save, BoardInv, Copies
    <2>2. /\ copy \in Copies /\ copy.tasks = session[s].tasks
          /\ copy.based = session[s].tasks
      BY <1>1 DEF Copies
    <2> HIDE DEF copy
    <2>3. Accounted(copy)
      BY <2>2 DEF Accounted
    <2>4. /\ UNCHANGED added /\ last' = session[s].tasks
          /\ file' = session[s].tasks \/ file' = Unreadable
      BY <1>4 DEF Save
    <2> QED
      BY <1>1, <1>2, <2>1, <2>2, <2>3, <2>4
  <1>5. CASE SaveFails(s)
    <2> DEFINE copy == [session[s] EXCEPT !.phase = "open"]
    <2>1. session' = [session EXCEPT ![s] = copy] /\ UNCHANGED <<file, added, last>>
      BY <1>1, <1>5 DEF SaveFails, BoardInv, Copies
    <2>2. /\ copy \in Copies /\ copy.tasks = session[s].tasks
          /\ copy.based = session[s].based /\ copy.removed = session[s].removed
      BY <1>1 DEF Copies
    <2> HIDE DEF copy
    <2>3. Accounted(copy)
      BY <1>1, <2>2 DEF Accounted
    <2> QED
      BY <1>1, <1>2, <2>1, <2>2, <2>3 DEF BoardInv
  <1>6. CASE Leave(s)
    <2>1. session' = [session EXCEPT ![s] = Away] /\ UNCHANGED <<file, added, last>>
      BY <1>6 DEF Leave
    <2>2. Away \in Copies /\ WithinAdded(Away.tasks, added) /\ Accounted(Away)
      BY <1>1 DEF Away, Copies, WithinAdded, Accounted, TitlesOf
    <2> QED
      BY <1>2, <2>1, <2>2 DEF BoardInv
  <1> QED
    BY <1>3, <1>4, <1>5, <1>6

\* Every reachable state satisfies the inductive invariant.
THEOREM BoardCorrect == BoardSpec => []BoardInv
  <1>1. BoardInit => BoardInv
    <2>1. {} \in Sheets
      BY DEF Sheets, UniqueIds
    <2>2. Away \in Copies /\ Away.tasks = {} /\ Accounted(Away)
      BY <2>1 DEF Away, Copies, Accounted, TitlesOf
    <2> QED
      BY <2>1, <2>2, BoardAssumption DEF BoardInit, BoardInv, WithinAdded
  <1>2. BoardInv /\ [BoardNext]_boardVars => BoardInv'
    <2> SUFFICES ASSUME BoardInv, [BoardNext]_boardVars PROVE BoardInv'
      OBVIOUS
    <2>1. CASE BoardNext
      BY <2>1, AddTaskStep, UpdateTaskStep, RemoveTaskStep, SessionSteps DEF BoardNext
    <2>2. CASE UNCHANGED boardVars
      BY <2>2 DEF boardVars, BoardInv
    <2> QED
      BY <2>1, <2>2
  <1> QED
    BY <1>1, <1>2, PTL DEF BoardSpec

\* Ids are unique in the file and in every session.
THEOREM BoardIdsCorrect == BoardSpec => []BoardIdsUnique
  <1>1. BoardInv => BoardIdsUnique
    BY DEF BoardInv, BoardIdsUnique, Copies, Sheets, UniqueIds, Unreadable
  <1> QED
    BY <1>1, BoardCorrect, PTL

\* A save drops a stored task only from a session that has removed it or has not
\* begun with the last complete list.
THEOREM BoardLossCorrect == BoardSpec => BoardLossNeedsOldCopy
  <1> DEFINE Explained ==
        last' # last =>
            \E s \in Sessions :
                /\ last' = session[s].tasks
                /\ \/ TitlesOf(last) \subseteq TitlesOf(last') \cup session[s].removed
                   \/ session[s].based # last
  <1>1. ASSUME BoardInv, [BoardNext]_boardVars PROVE [Explained]_boardVars
    <2>1. CASE UNCHANGED last
      BY <2>1
    <2>2. ASSUME NEW s \in Sessions, Save(s) PROVE Explained
      <3>1. last' = session[s].tasks
        BY <2>2 DEF Save
      <3>2. last # Unreadable
        <4>1. \A t \in last : t.id # 0
          BY <1>1 DEF BoardInv, Sheets, Task
        <4>2. \E t \in Unreadable : t.id = 0
          BY DEF Unreadable
        <4> QED
          BY <4>1, <4>2
      <3>3. Accounted(session[s])
        BY <1>1 DEF BoardInv
      <3> QED
        BY <3>1, <3>2, <3>3 DEF Accounted
    <2> QED
      BY ZenonT(60), <1>1, <2>1, <2>2
      DEF BoardNext, boardVars, Open, SaveFails, Leave, AddTask, UpdateTask, RemoveTask, Change
  <1> QED
    BY <1>1, BoardCorrect, PTL DEF BoardSpec, BoardLossNeedsOldCopy
-----------------------------------------------------------------------------
(* The evidence (MediaEvidence).                                           *)

\* What has been attached to the post so far.
EvidenceInv == post \in [text : Texts, quote : Texts, media : Seq(Items)]

\* The initial state, and every step.
LEMMA EvidenceInvariant == EvidenceSpec => []EvidenceInv
  <1>1. EvidenceInit => EvidenceInv
    BY EmptySeq DEF EvidenceInit, EvidenceInv
  <1>2. EvidenceInv /\ [EvidenceNext]_evidenceVars => EvidenceInv'
    <2> SUFFICES ASSUME EvidenceInv, [EvidenceNext]_evidenceVars PROVE EvidenceInv'
      OBVIOUS
    <2>1. ASSUME NEW item \in Items, AttachMedia(item) PROVE EvidenceInv'
      <3>1. post' = [post EXCEPT !.media = Append(post.media, item)]
        BY <2>1 DEF AttachMedia
      <3>2. Append(post.media, item) \in Seq(Items)
        BY AppendProperties DEF EvidenceInv
      <3> QED
        BY <3>1, <3>2 DEF EvidenceInv
    <2>2. CASE UNCHANGED evidenceVars
      BY <2>2 DEF evidenceVars, EvidenceInv
    <2> QED
      BY <2>1, <2>2 DEF EvidenceNext
  <1> QED
    BY <1>1, <1>2, PTL DEF EvidenceSpec

\* One more medium adds to what is seen.
LEMMA MoreMedia ==
    ASSUME NEW m \in Seq(Items), NEW item \in Items, NEW more, more = Append(m, item)
    PROVE  /\ more # <<>>
           /\ VisualTexts(m) \subseteq VisualTexts(more)
           /\ VisualTerms(m) \subseteq VisualTerms(more)
           /\ AudioVideo(m) \subseteq AudioVideo(more)
  <1>1. /\ more \in Seq(Items) /\ more # <<>> /\ Len(more) = Len(m) + 1
        /\ \A i \in 1 .. Len(m) : more[i] = m[i]
    BY AppendProperties
  <1>2. DOMAIN m = 1 .. Len(m) /\ DOMAIN more = 1 .. Len(more) /\ Len(m) \in Nat
    BY <1>1, LenProperties
  <1>3. \A i \in DOMAIN m : i \in DOMAIN more /\ more[i] = m[i]
    BY <1>1, <1>2
  <1>4. VisualTexts(m) \subseteq VisualTexts(more)
    BY <1>3 DEF VisualTexts, AltTexts, OcrTexts
  <1>5. VisualTerms(m) \subseteq VisualTerms(more)
    BY <1>4 DEF VisualTerms
  <1>6. AudioVideo(m) \subseteq AudioVideo(more)
    BY <1>3 DEF AudioVideo
  <1> QED
    BY <1>1, <1>4, <1>5, <1>6

\* The order of the relationships.
LEMMA RelationshipGrows ==
    ASSUME NEW p, NEW q, q.text = p.text, q.quote = p.quote, q.media # <<>>,
           VisualTerms(p.media) \subseteq VisualTerms(q.media)
    PROVE  /\ Relationship(p).name = "supports" => Relationship(q) = Relationship(p)
           /\ Relationship(q).confidence < Relationship(p).confidence =>
                  /\ Relationship(p).name = "text_only_context"
                  /\ Relationship(q).name = "media_unclear_not_penalized"
  <1> DEFINE said == p.text.terms \cup p.quote.terms # {}
             before == VisualTerms(p.media) # {}
             after == VisualTerms(q.media) # {}
  <1>1. before => after
    OBVIOUS
  <1>2. Relationship(p) =
            CASE said /\ before -> [name |-> "supports", confidence |-> 75]
              [] ~said /\ before -> [name |-> "visual_supplies_context", confidence |-> 65]
              [] said /\ ~before /\ p.media # <<>> ->
                     [name |-> "media_unclear_not_penalized", confidence |-> 45]
              [] said /\ p.media = <<>> -> [name |-> "text_only_context", confidence |-> 55]
              [] OTHER -> [name |-> "insufficient_topic_evidence", confidence |-> 20]
    BY DEF Relationship
  <1>3. Relationship(q) =
            CASE said /\ after -> [name |-> "supports", confidence |-> 75]
              [] ~said /\ after -> [name |-> "visual_supplies_context", confidence |-> 65]
              [] said /\ ~after -> [name |-> "media_unclear_not_penalized", confidence |-> 45]
              [] OTHER -> [name |-> "insufficient_topic_evidence", confidence |-> 20]
    BY DEF Relationship
  <1>4. p.media = <<>> => ~before
    <2>1. VisualTexts(<<>>) = {}
      BY DEF VisualTexts, AltTexts, OcrTexts
    <2> QED
      BY <2>1 DEF VisualTerms
  <1> HIDE DEF said, before, after
  <1> QED
    BY <1>1, <1>2, <1>3, <1>4

\* What the evidence is made of.
LEMMA EvidenceParts ==
    ASSUME NEW p
    PROVE  /\ BuildMultimodalEvidence(p).topics
                = p.text.terms \cup p.quote.terms \cup VisualTerms(p.media)
           /\ BuildMultimodalEvidence(p).visual = VisualConfidence(p.media)
           /\ BuildMultimodalEvidence(p).audioVideo = IF AudioVideo(p.media) # {} THEN 40 ELSE 0
           /\ BuildMultimodalEvidence(p).relationship = Relationship(p)
  BY DEF BuildMultimodalEvidence

\* One more medium never takes away a topic, nor confidence in a modality, nor
\* the support of the text by what is seen.
THEOREM EvidenceGrows == EvidenceSpec => MediaOnlyAdds
  <1> DEFINE Body ==
        post'.media # post.media =>
         LET before == BuildMultimodalEvidence(post)
             after == BuildMultimodalEvidence(post')
         IN /\ before.topics \subseteq after.topics
            /\ before.visual <= after.visual /\ before.audioVideo <= after.audioVideo
            /\ before.relationship.name = "supports" => after.relationship = before.relationship
            /\ after.relationship.confidence < before.relationship.confidence =>
                   /\ before.relationship.name = "text_only_context"
                   /\ after.relationship.name = "media_unclear_not_penalized"
  <1>1. ASSUME EvidenceInv, [EvidenceNext]_evidenceVars PROVE [Body]_evidenceVars
    <2> SUFFICES ASSUME NEW item \in Items, AttachMedia(item) PROVE Body
      BY <1>1 DEF EvidenceNext
    <2>1. PICK p, q : p = post /\ q = post'
      OBVIOUS
    <2>2. /\ p \in [text : Texts, quote : Texts, media : Seq(Items)]
          /\ q = [p EXCEPT !.media = Append(p.media, item)]
      BY <1>1, <2>1 DEF AttachMedia, EvidenceInv
    <2>3. /\ q.media = Append(p.media, item) /\ q.text = p.text /\ q.quote = p.quote
      BY <2>2
    <2>4. /\ q.media # <<>>
          /\ VisualTexts(p.media) \subseteq VisualTexts(q.media)
          /\ VisualTerms(p.media) \subseteq VisualTerms(q.media)
          /\ AudioVideo(p.media) \subseteq AudioVideo(q.media)
      BY <2>2, <2>3, MoreMedia
    <2>5. VisualConfidence(p.media) <= VisualConfidence(q.media)
      <3>1. p.media = <<>> => VisualTexts(p.media) = {} /\ VisualTerms(p.media) = {}
        BY DEF VisualTexts, AltTexts, OcrTexts, VisualTerms
      <3> QED
        BY <2>4, <3>1 DEF VisualConfidence
    <2>6. (IF AudioVideo(p.media) # {} THEN 40 ELSE 0)
             <= (IF AudioVideo(q.media) # {} THEN 40 ELSE 0)
      BY <2>4
    <2>7. /\ Relationship(p).name = "supports" => Relationship(q) = Relationship(p)
          /\ Relationship(q).confidence < Relationship(p).confidence =>
                /\ Relationship(p).name = "text_only_context"
                /\ Relationship(q).name = "media_unclear_not_penalized"
      BY <2>3, <2>4, RelationshipGrows
    <2>8. p.text.terms \cup p.quote.terms \cup VisualTerms(p.media)
            \subseteq q.text.terms \cup q.quote.terms \cup VisualTerms(q.media)
      BY <2>3, <2>4
    <2>9. LET before == BuildMultimodalEvidence(p)
              after == BuildMultimodalEvidence(q)
          IN /\ before.topics \subseteq after.topics
             /\ before.visual <= after.visual /\ before.audioVideo <= after.audioVideo
             /\ before.relationship.name = "supports" => after.relationship = before.relationship
             /\ after.relationship.confidence < before.relationship.confidence =>
                    /\ before.relationship.name = "text_only_context"
                    /\ after.relationship.name = "media_unclear_not_penalized"
      BY <2>5, <2>6, <2>7, <2>8, EvidenceParts
    <2> QED
      BY <2>1, <2>9
  <1>2. EvidenceInv /\ [EvidenceNext]_evidenceVars => [Body]_evidenceVars
    BY <1>1
  <1> HIDE DEF Body
  <1>3. EvidenceSpec => [][Body]_evidenceVars
    BY <1>2, EvidenceInvariant, PTL DEF EvidenceSpec
  <1> QED
    BY <1>3 DEF MediaOnlyAdds, Body
-----------------------------------------------------------------------------
(* The plan of a clip (VideoPlan).                                         *)

\* The greatest and the least of two numbers.
LEMMA OfTwo ==
    ASSUME NEW a \in Int, NEW b \in Int
    PROVE  /\ Max({a, b}) = IF a >= b THEN a ELSE b
           /\ Min({a, b}) = IF a <= b THEN a ELSE b
  <1>1. \A x \in {a, b} : (\A y \in {a, b} : x >= y) <=> x = IF a >= b THEN a ELSE b
    OBVIOUS
  <1>2. \A x \in {a, b} : (\A y \in {a, b} : x <= y) <=> x = IF a <= b THEN a ELSE b
    OBVIOUS
  <1>3. Max({a, b}) = IF a >= b THEN a ELSE b
    BY <1>1 DEF Max
  <1>4. Min({a, b}) = IF a <= b THEN a ELSE b
    BY <1>2 DEF Min
  <1> QED
    BY <1>3, <1>4

\* A greater factor makes a greater product.
LEMMA TimesMonotone ==
    ASSUME NEW a \in Int, NEW b \in Int, NEW c \in Nat, a <= b
    PROVE  a * c <= b * c /\ a * c \in Int /\ b * c \in Int
  <1>1. b - a \in Nat
    OBVIOUS
  <1>2. (b - a) * c >= 0
    BY <1>1
  <1>3. b * c = a * c + (b - a) * c
    OBVIOUS
  <1> QED
    BY <1>2, <1>3

\* A positive factor can be left out of an inequality.
LEMMA TimesCancel ==
    ASSUME NEW a \in Int, NEW b \in Int, NEW c \in Nat \ {0}, a * c <= b * c
    PROVE  a <= b
  <1> SUFFICES ASSUME b + 1 <= a PROVE FALSE
    OBVIOUS
  <1>1. (b + 1) * c <= a * c
    BY TimesMonotone
  <1>2. (b + 1) * c = b * c + c
    OBVIOUS
  <1>3. a * c \in Int /\ b * c \in Int
    OBVIOUS
  <1> QED
    BY <1>1, <1>2, <1>3

\* A quotient and its remainder.
LEMMA DivMod ==
    ASSUME NEW x \in Nat, NEW d \in Nat \ {0}
    PROVE  /\ x \div d \in Nat /\ x % d \in 0 .. d - 1
           /\ x = (x \div d) * d + (x % d)
  OBVIOUS

\* A quotient is rounded by half a unit at most.
LEMMA RoundedFacts ==
    ASSUME NEW x \in Nat, NEW d \in Nat \ {0}
    PROVE  /\ Rounded(x, d) \in Nat
           /\ 2 * (Rounded(x, d) * d) <= 2 * x + d
           /\ 2 * (Rounded(x, d) * d) >= 2 * x - d
  <1> DEFINE w == x \div d
             m == x % d
  <1>1. w \in Nat /\ m \in 0 .. d - 1 /\ x = w * d + m
    BY DivMod
  <1>2. \/ Rounded(x, d) = w /\ 2 * m <= d
        \/ Rounded(x, d) = w + 1 /\ 2 * m >= d
    BY <1>1 DEF Rounded
  <1> HIDE DEF w, m
  <1>3. (w + 1) * d = w * d + d /\ w * d \in Nat
    BY <1>1
  <1>4. CASE Rounded(x, d) = w /\ 2 * m <= d
    BY <1>1, <1>3, <1>4
  <1>5. CASE Rounded(x, d) = w + 1 /\ 2 * m >= d
    BY <1>1, <1>3, <1>5
  <1> QED
    BY <1>2, <1>4, <1>5

\* Where n frames at regular intervals fall in a clip that lasts n gaps.
Frame(D, n, k) == Rounded(D * k, n + 1)

\* A frame lies inside the clip, and not at its beginning unless the clip lasts
\* one millisecond.
LEMMA FrameInside ==
    ASSUME NEW D \in Nat \ {0}, NEW n \in Nat \ {0}, n <= D, NEW k \in 1 .. n
    PROVE  Frame(D, n, k) \in Nat /\ Frame(D, n, k) < D /\ (Frame(D, n, k) = 0 => D = 1)
  <1> DEFINE d == n + 1
             x == D * k
             f == Frame(D, n, k)
  <1>1. d \in Nat \ {0} /\ d >= 2 /\ k \in Nat /\ n - k \in Nat
    OBVIOUS
  <1>2. x \in Nat /\ D <= x /\ x <= D * n /\ D * n \in Nat
    <2>1. 1 * D <= k * D /\ k * D <= n * D
      BY <1>1, TimesMonotone
    <2> QED
      BY <1>1, <2>1
  <1>3. f \in Nat /\ 2 * (f * d) <= 2 * x + d /\ 2 * (f * d) >= 2 * x - d
    BY <1>1, <1>2, RoundedFacts DEF Frame
  <1>4. CASE n = 1 /\ D = 1
    <2>1. k = 1 /\ x = 1 /\ d = 2
      BY <1>4
    <2>2. f = Rounded(1, 2)
      BY <1>4, <2>1 DEF Frame
    <2>3. f = 0
      BY <2>2 DEF Rounded
    <2> QED
      BY <1>4, <2>3
  <1>5. CASE ~(n = 1 /\ D = 1)
    <2>1. 2 * D > d
      BY <1>5
    <2>2. f # 0
      <3> SUFFICES ASSUME f = 0 PROVE FALSE
        OBVIOUS
      <3>1. f * d = 0
        BY <1>1
      <3> HIDE DEF f, d, x
      <3> QED
        BY <1>1, <1>2, <1>3, <2>1, <3>1
    <2>3. f < D
      <3> SUFFICES ASSUME D <= f PROVE FALSE
        BY <1>3
      <3>1. D * d <= f * d
        BY <1>1, <1>3, TimesMonotone
      <3>2. D * d = D * n + D
        OBVIOUS
      <3>3. f * d \in Int
        BY <1>1, <1>3
      <3> HIDE DEF f, d, x
      <3> QED
        BY <1>1, <1>2, <1>3, <2>1, <3>1, <3>2, <3>3
    <2> QED
      BY <1>3, <2>2, <2>3
  <1> QED
    BY <1>4, <1>5

\* Frames that differ are two thirds of the gap apart, less one for rounding.
LEMMA FramesApart ==
    ASSUME NEW D \in Nat \ {0}, NEW n \in Nat \ {0}, NEW gap \in Nat \ {0}, n * gap <= D,
           NEW i \in 1 .. n, NEW j \in 1 .. n, Frame(D, n, i) < Frame(D, n, j)
    PROVE  3 * (Frame(D, n, j) - Frame(D, n, i)) >= 2 * gap - 3
  <1> DEFINE d == n + 1
             f == Frame(D, n, i)
             g == Frame(D, n, j)
  <1>1. d \in Nat \ {0} /\ i \in Nat /\ j \in Nat /\ D * i \in Nat /\ D * j \in Nat
    OBVIOUS
  <1>2. /\ f \in Nat /\ 2 * (f * d) <= 2 * (D * i) + d /\ 2 * (f * d) >= 2 * (D * i) - d
        /\ g \in Nat /\ 2 * (g * d) <= 2 * (D * j) + d /\ 2 * (g * d) >= 2 * (D * j) - d
    BY <1>1, RoundedFacts DEF Frame
  <1>3. f < g
    OBVIOUS
  <1>4. n * 1 <= n * gap
    <2>1. 1 * n <= gap * n
      BY TimesMonotone
    <2> QED
      BY <2>1
  <1>5. n <= D /\ n * gap \in Nat
    BY <1>4
  <1> HIDE DEF f, g
  <1>6. f * d \in Int /\ g * d \in Int
    BY <1>1, <1>2
  <1>7. i < j
    <2> SUFFICES ASSUME j <= i PROVE FALSE
      BY <1>1
    <2>1. i # j
      <3>1. i = j => f = g
        BY DEF f, g
      <3> QED
        BY <1>2, <1>3, <3>1
    <2>2. j + 1 <= i
      BY <1>1, <2>1
    <2>3. (j + 1) * D <= i * D
      BY <1>1, <2>2, TimesMonotone
    <2>4. D * j + D <= D * i
      BY <1>1, <2>3
    <2>5. (f + 1) * d <= g * d
      BY <1>1, <1>2, <1>3, TimesMonotone
    <2>6. (f + 1) * d = f * d + d
      BY <1>1, <1>2
    <2>7. D + 1 >= d
      BY <1>5
    <2> HIDE DEF d
    <2>8. 2 * (f * d) + 2 * d <= 2 * (D * j) + d
      BY <1>1, <1>2, <1>6, <2>5, <2>6
    <2>9. 2 * (D * i) - d + 2 * d <= 2 * (D * j) + d
      BY <1>1, <1>2, <1>6, <2>8
    <2>10. D * i <= D * j
      BY <1>1, <2>9
    <2> QED
      BY <1>1, <2>4, <2>10
  <1>8. n >= 2
    BY <1>7
  <1>9. D * i + D <= D * j
    <2>1. i + 1 <= j
      BY <1>1, <1>7
    <2>2. (i + 1) * D <= j * D
      BY <1>1, <2>1, TimesMonotone
    <2> QED
      BY <1>1, <2>2
  <1>10. 2 * (g * d) - 2 * (f * d) >= 2 * D - 2 * d
    <2> HIDE DEF d
    <2> QED
      BY <1>1, <1>2, <1>6, <1>9
  <1>11. 3 * D >= 2 * (gap * d)
    <2>1. 2 * gap <= n * gap
      BY <1>8, TimesMonotone
    <2>2. gap * d = n * gap + gap
      OBVIOUS
    <2> QED
      BY <1>5, <2>1, <2>2
  <1>12. (2 * gap - 3) * d <= (3 * (g - f)) * d
    <2>1. (2 * gap - 3) * d = 2 * (gap * d) - 3 * d
      BY <1>1
    <2>2. (3 * (g - f)) * d = 3 * (g * d) - 3 * (f * d)
      BY <1>1, <1>2
    <2>3. gap * d \in Int
      BY <1>1
    <2> HIDE DEF d
    <2> QED
      BY <1>1, <1>6, <1>10, <1>11, <2>1, <2>2, <2>3
  <1>13. 2 * gap - 3 <= 3 * (g - f)
    BY <1>1, <1>2, <1>12, TimesCancel
  <1> QED
    BY <1>13 DEF f, g

ClipPolicy == [maxVideo : Int, maxAudio : Int, maxFrames : Int, minGap : Nat \ {0}]

\* What is promised of the frames of a clip within the limit.
FramesFit(frames, D, policy) ==
    /\ Cardinality(frames) <= Max({0, policy.maxFrames})
    /\ \A f \in frames : f < D /\ (f = 0 => D = 1)
    /\ \A f, g \in frames : f < g => 3 * (g - f) >= 2 * policy.minGap - 3
    /\ frames = {} <=> D = 0 \/ policy.maxFrames <= 0

\* No frames.
LEMMA NoFrames ==
    ASSUME NEW policy \in ClipPolicy
    PROVE  Cardinality({}) <= Max({0, policy.maxFrames})
  BY FS_EmptySet, OfTwo DEF ClipPolicy

\* As many frames as fit in the clip and are allowed, at least one.
LEMMA FrameCountFacts ==
    ASSUME NEW D \in Nat \ {0}, NEW policy \in ClipPolicy, policy.maxFrames > 0,
           ~(D < policy.minGap)
    PROVE  /\ FrameCount(D, policy) \in 1 .. policy.maxFrames
           /\ FrameCount(D, policy) * policy.minGap <= D
  <1> DEFINE gap == policy.minGap
             most == policy.maxFrames
             q == D \div gap
             n == FrameCount(D, policy)
  <1>1. gap \in Nat \ {0} /\ most \in Nat \ {0} /\ gap <= D
    BY DEF ClipPolicy
  <1>2. q \in Nat /\ (D % gap) \in 0 .. gap - 1 /\ D = q * gap + (D % gap)
    BY <1>1, DivMod
  <1>3. n = Min({most, Max({1, q})})
    BY DEF FrameCount
  <1> HIDE DEF q, n, gap, most
  <1>4. q # 0
    <2> SUFFICES ASSUME q = 0 PROVE FALSE
      OBVIOUS
    <2>1. q * gap = 0
      BY <1>1
    <2> QED
      BY <1>1, <1>2, <2>1
  <1>5. Max({1, q}) = q
    BY <1>2, <1>4, OfTwo
  <1>6. n = IF most <= q THEN most ELSE q
    <2>1. n = Min({most, q})
      BY <1>3, <1>5
    <2>2. most \in Int /\ q \in Int
      BY <1>1, <1>2
    <2> QED
      BY <2>1, <2>2, OfTwo
  <1>7. n \in 1 .. most /\ n \in Nat /\ n <= q
    BY <1>1, <1>2, <1>4, <1>6
  <1>8. n * gap <= q * gap /\ n * gap \in Int /\ q * gap \in Int
    BY <1>1, <1>2, <1>7, TimesMonotone
  <1>9. n * gap <= D
    BY <1>1, <1>2, <1>8
  <1> QED
    BY <1>7, <1>9 DEF n, gap, most

\* The frames of a clip within the limit.
LEMMA FrameOffsetsFit ==
    ASSUME NEW D \in Nat, NEW policy \in ClipPolicy
    PROVE  FramesFit(FrameOffsets(D, policy), D, policy)
  <1> DEFINE frames == FrameOffsets(D, policy)
             gap == policy.minGap
             most == policy.maxFrames
  <1>1. gap \in Nat \ {0} /\ most \in Int /\ Max({0, most}) = IF 0 >= most THEN 0 ELSE most
    BY OfTwo DEF ClipPolicy
  <1>2. CASE D = 0 \/ most <= 0
    <2>1. frames = {}
      BY <1>2 DEF FrameOffsets
    <2> QED
      BY <1>2, <2>1, NoFrames DEF FramesFit
  <1>3. CASE ~(D = 0 \/ most <= 0) /\ D < gap
    <2>1. frames = {D \div 2}
      BY <1>3 DEF FrameOffsets
    <2>2. Cardinality(frames) = 1
      BY <2>1, FS_Singleton
    <2>3. D \div 2 \in Nat /\ D \div 2 < D /\ (D \div 2 = 0 => D = 1)
      BY <1>3
    <2> HIDE DEF frames
    <2>4. \A f, g \in frames : ~(f < g)
      BY <2>1, <2>3
    <2>5. frames # {} /\ \A f \in frames : f < D /\ (f = 0 => D = 1)
      BY <2>1, <2>3
    <2>6. Cardinality(frames) <= Max({0, most})
      BY <1>1, <1>3, <2>2
    <2>7. FramesFit(frames, D, policy)
      BY <1>3, <2>4, <2>5, <2>6 DEF FramesFit
    <2> QED
      BY <2>7 DEF frames
  <1>4. CASE ~(D = 0 \/ most <= 0) /\ ~(D < gap)
    <2> DEFINE n == FrameCount(D, policy)
    <2>1. D \in Nat \ {0} /\ most > 0
      BY <1>1, <1>4
    <2>2. n \in 1 .. most /\ n * gap <= D
      BY <1>4, <2>1, FrameCountFacts
    <2>3. frames = {Frame(D, n, k) : k \in 1 .. n}
      BY <1>4 DEF FrameOffsets, Frame
    <2> HIDE DEF n, frames
    <2>4. n \in Nat \ {0} /\ n <= most /\ n <= D
      <3>1. n \in Nat \ {0} /\ n <= most
        BY <1>1, <2>2
      <3>2. 1 * n <= gap * n /\ gap * n = n * gap
        BY <1>1, <3>1, TimesMonotone
      <3> QED
        BY <1>1, <2>2, <3>1, <3>2
    <2>5. \A f \in frames : f \in Nat /\ f < D /\ (f = 0 => D = 1)
      BY <2>1, <2>3, <2>4, FrameInside
    <2>6. ASSUME NEW f \in frames, NEW g \in frames, f < g PROVE 3 * (g - f) >= 2 * gap - 3
      <3>1. PICK i \in 1 .. n : f = Frame(D, n, i)
        BY <2>3
      <3>2. PICK j \in 1 .. n : g = Frame(D, n, j)
        BY <2>3
      <3>3. Frame(D, n, i) < Frame(D, n, j)
        BY <2>6, <3>1, <3>2
      <3>4. 3 * (Frame(D, n, j) - Frame(D, n, i)) >= 2 * gap - 3
        BY <1>1, <2>1, <2>2, <2>4, <3>3, FramesApart
      <3> QED
        BY <3>1, <3>2, <3>4
    <2>7. frames # {}
      <3>1. 1 \in 1 .. n
        BY <2>4
      <3> QED
        BY <2>3, <3>1
    <2>8. Cardinality(frames) <= n /\ Cardinality(frames) \in Nat
      <3> DEFINE h == [k \in 1 .. n |-> Frame(D, n, k)]
      <3>1. h \in Surjection(1 .. n, frames)
        BY <2>3 DEF Surjection
      <3> HIDE DEF h
      <3>2. 1 \in Int /\ n \in Int
        BY <2>4
      <3>3. IsFiniteSet(1 .. n) /\ Cardinality(1 .. n) = IF 1 > n THEN 0 ELSE n - 1 + 1
        BY <3>2, FS_Interval
      <3>4. IsFiniteSet(frames) /\ Cardinality(frames) <= Cardinality(1 .. n)
        BY <3>1, <3>3, FS_Surjection
      <3>5. Cardinality(1 .. n) = n
        BY <2>4, <3>3
      <3> QED
        BY <3>4, <3>5, FS_CardinalityType
    <2>9. Cardinality(frames) <= Max({0, most})
      BY <1>1, <2>1, <2>4, <2>8
    <2>10. FramesFit(frames, D, policy)
      BY <1>4, <2>5, <2>6, <2>7, <2>9 DEF FramesFit
    <2> QED
      BY <2>10 DEF frames
  <1> QED
    BY <1>2, <1>3, <1>4

\* A plan keeps what is promised, whatever is asked for.
LEMMA PlanStep ==
    ASSUME NEW duration \in Durations, NEW policy \in ClipPolicies,
           \/ \E kind \in {"audio", "video", "gif", "unknown"}, hasAudio \in BOOLEAN :
                 PlanLifecycle(kind, duration, hasAudio, policy)
           \/ \E exists \in BOOLEAN : SampleFrames(exists, duration, policy)
    PROVE  FramesInside'
  <1> DEFINE D == Bounded(duration)
             none(answer) == answer.frames = {} /\ answer.audio = FALSE /\ answer.reason # "accepted"
  <1>1. policy \in ClipPolicy
    BY PlanAssumption DEF ClipPolicy
  <1>2. D = NoDuration \/ D \in Nat
    <2>1. CASE duration = NoDuration
      BY <2>1 DEF Bounded
    <2>2. CASE duration # NoDuration
      <3>1. duration \in Int
        BY <2>2, PlanAssumption
      <3>2. D = Max({0, duration})
        BY <2>2 DEF Bounded
      <3> QED
        BY <3>1, <3>2, OfTwo
    <2> QED
      BY <2>1, <2>2
  <1>3. D = NoDuration => D \notin Int
    BY PlanAssumption
  <1> HIDE DEF D
  <1>4. Cardinality({}) <= Max({0, policy.maxFrames})
    BY <1>1, NoFrames
  <1>5. D \in Nat => FramesFit(FrameOffsets(D, policy), D, policy)
    BY <1>1, FrameOffsetsFit
  <1>6. ASSUME NEW kind \in {"audio", "video", "gif", "unknown"}, NEW hasAudio \in BOOLEAN,
               PlanLifecycle(kind, duration, hasAudio, policy)
        PROVE  FramesInside'
    <2> DEFINE answer == Answer(kind, D, hasAudio, policy)
    <2>1. plan' = [kind |-> kind, duration |-> D, policy |-> policy, answer |-> answer]
      BY <1>6 DEF PlanLifecycle, D
    <2>2. CASE none(answer)
      <3> HIDE DEF answer
      <3> QED
        BY <1>4, <2>1, <2>2 DEF FramesInside
    <2>3. CASE ~none(answer)
      <3>1. /\ kind # "unknown" /\ D # NoDuration
            /\ ~(D > IF kind = "audio" THEN policy.maxAudio ELSE policy.maxVideo)
            /\ answer = [reason |-> "accepted",
                         frames |-> IF kind = "audio" THEN {} ELSE FrameOffsets(D, policy),
                         audio |-> \/ kind = "audio"
                                   \/ kind = "video" /\ hasAudio /\ D <= policy.maxAudio]
        BY <2>3 DEF Answer, Refused
      <3>2. D \in Nat /\ policy.maxAudio \in Int /\ policy.maxVideo \in Int
        BY <1>1, <1>2, <3>1 DEF ClipPolicy
      <3> HIDE DEF answer
      <3>3. CASE kind = "audio"
        <4>1. answer.frames = {} /\ D <= policy.maxAudio
          BY <3>1, <3>2, <3>3
        <4> QED
          BY <1>4, <2>1, <3>3, <4>1 DEF FramesInside
      <3>4. CASE kind # "audio"
        <4>1. /\ answer.frames = FrameOffsets(D, policy) /\ D <= policy.maxVideo
              /\ answer.audio => D <= policy.maxAudio
          BY <3>1, <3>2, <3>4
        <4>2. FramesFit(answer.frames, D, policy)
          BY <1>5, <3>2, <4>1
        <4> QED
          BY <2>1, <4>1, <4>2 DEF FramesInside, FramesFit
      <3> QED
        BY <3>3, <3>4
    <2> QED
      BY <2>2, <2>3
  <1>7. ASSUME NEW exists \in BOOLEAN, SampleFrames(exists, duration, policy)
        PROVE  FramesInside'
    <2> DEFINE found == exists /\ duration # NoDuration /\ D <= policy.maxVideo
               answer == IF found
                         THEN [reason |-> "sampled", audio |-> FALSE,
                               frames |-> FrameOffsets(D, policy)]
                         ELSE Refused("nothing_to_sample")
    <2>1. plan' = [kind |-> "sample", duration |-> D, policy |-> policy, answer |-> answer]
      BY <1>7 DEF SampleFrames, D
    <2>2. CASE ~found
      <3>1. none(answer)
        BY <2>2 DEF Refused
      <3> HIDE DEF answer
      <3> QED
        BY <1>4, <2>1, <3>1 DEF FramesInside
    <2>3. CASE found
      <3>1. D \in Nat
        <4>1. duration \in Int
          BY <2>3, PlanAssumption
        <4> QED
          BY <2>3, <4>1, OfTwo DEF D, Bounded
      <3>2. /\ answer.frames = FrameOffsets(D, policy) /\ D <= policy.maxVideo
            /\ answer.audio = FALSE /\ answer.reason = "sampled"
        BY <2>3
      <3> HIDE DEF answer, found
      <3>3. FramesFit(answer.frames, D, policy)
        BY <1>5, <3>1, <3>2
      <3> QED
        BY <2>1, <3>2, <3>3 DEF FramesInside, FramesFit
    <2> QED
      BY <2>2, <2>3
  <1> QED
    BY <1>6, <1>7

\* Frames lie inside the clip, as many as are allowed and as far apart as the gap
\* asks, for every duration and policy.
THEOREM FramesCorrect == PlanSpec => []FramesInside
  <1>1. PlanInit => FramesInside
    BY DEF PlanInit, FramesInside
  <1>2. FramesInside /\ [PlanNext]_plan => FramesInside'
    <2> SUFFICES ASSUME FramesInside, [PlanNext]_plan PROVE FramesInside'
      OBVIOUS
    <2>1. CASE UsePlan
      BY <2>1 DEF UsePlan, FramesInside
    <2>2. CASE plan' = plan
      BY <2>2 DEF FramesInside
    <2> QED
      BY <2>1, <2>2, PlanStep DEF PlanNext
  <1> QED
    BY <1>1, <1>2, PTL DEF PlanSpec

-----------------------------------------------------------------------------
(* The clusters.  A forest is described by two functions that find does    *)
(* not change: the indices above an index on its path, or more than those, *)
(* and the root of its tree.                                               *)

Indices == 1 .. Len(hashes)

Describes(above, root, forest) ==
    /\ forest \in [Indices -> Indices]
    /\ above \in [Indices -> SUBSET Indices]
    /\ root \in [Indices -> Indices]
    /\ \A i \in Indices :
        /\ i \notin above[i]
        /\ forest[i] # i => forest[i] \in above[i] /\ above[forest[i]] \subseteq above[i]
        /\ forest[i] = i => above[i] = {} /\ root[i] = i
        /\ root[forest[i]] = root[i]
        /\ forest[root[i]] = root[i]

\* A round of find hangs an index under its grandparent: the forest keeps its
\* description, and the index comes nearer to its root or is there.
LEMMA HalveFacts ==
    ASSUME NEW above, NEW root, NEW find,
           find \in [parent : [Indices -> Indices], index : Indices],
           Describes(above, root, find.parent)
    PROVE  /\ Halve(find) \in [parent : [Indices -> Indices], index : Indices]
           /\ Describes(above, root, Halve(find).parent)
           /\ root[Halve(find).index] = root[find.index]
           /\ find.parent[find.index] = find.index => Halve(find) = find
           /\ find.parent[find.index] # find.index =>
                 /\ above[Halve(find).index] \subseteq above[find.index]
                 /\ \E i \in above[find.index] : i \notin above[Halve(find).index]
  <1>1. CASE find.parent[find.index] = find.index
    BY <1>1 DEF Halve
  <1>2. CASE find.parent[find.index] # find.index
    <2> DEFINE p == find.parent
               i == find.index
               up == p[p[i]]
               q == [p EXCEPT ![i] = up]
    <2>1. i \in Indices /\ p \in [Indices -> Indices] /\ p[i] \in Indices /\ up \in Indices
      OBVIOUS
    <2>2. Halve(find) = [parent |-> q, index |-> up]
      BY <1>2 DEF Halve
    <2>3. /\ p[i] \in above[i] /\ above[p[i]] \subseteq above[i] /\ p[i] \notin above[p[i]]
          /\ i \notin above[i]
      BY <1>2, <2>1 DEF Describes
    <2>4. up = p[i] \/ (up \in above[p[i]] /\ above[up] \subseteq above[p[i]])
      BY <2>1 DEF Describes
    <2>5. up \in above[i] /\ above[up] \subseteq above[i] /\ up # i /\ p[i] \notin above[up]
      BY <2>3, <2>4
    <2>6. root[up] = root[i]
      BY <2>1 DEF Describes
    <2>7. Describes(above, root, q)
      <3> HIDE DEF up
      <3>1. q \in [Indices -> Indices]
        BY <2>1
      <3>2. ASSUME NEW j \in Indices
            PROVE  /\ j \notin above[j]
                   /\ q[j] # j => q[j] \in above[j] /\ above[q[j]] \subseteq above[j]
                   /\ q[j] = j => above[j] = {} /\ root[j] = j
                   /\ root[q[j]] = root[j]
        <4>1. CASE j = i
          BY <4>1, <2>1, <2>5, <2>6 DEF Describes
        <4>2. CASE j # i
          BY <4>2, <2>1 DEF Describes
        <4> QED
          BY <4>1, <4>2
      <3>3. ASSUME NEW j \in Indices PROVE q[root[j]] = root[j]
        <4>1. root[j] \in Indices /\ p[root[j]] = root[j]
          BY DEF Describes
        <4> QED
          BY <4>1, <1>2, <2>1
      <3> QED
        BY <3>1, <3>2, <3>3 DEF Describes
    <2>8. q \in [Indices -> Indices]
      BY <2>1
    <2> HIDE DEF q, up
    <2>9. Halve(find).parent = q /\ Halve(find).index = up
      BY <2>2
    <2>10. Halve(find) \in [parent : [Indices -> Indices], index : Indices]
      BY <2>1, <2>2, <2>8
    <2>11. /\ above[Halve(find).index] \subseteq above[i]
           /\ \E j \in above[i] : j \notin above[Halve(find).index]
      BY <2>3, <2>5, <2>9
    <2> QED
      BY <1>2, <2>6, <2>7, <2>9, <2>10, <2>11
  <1> QED
    BY <1>1, <1>2

\* Find returns the root of the index, and the forest it leaves has the same roots.
LEMMA FindFacts ==
    ASSUME Len(hashes) \in Nat, NEW above, NEW root, NEW forest, NEW i \in Indices,
           Describes(above, root, forest)
    PROVE  /\ Describes(above, root, Find(forest, i).parent)
           /\ Find(forest, i).index = root[i]
  <1> DEFINE N == Len(hashes)
             Steps == [parent : [Indices -> Indices], index : Indices]
             Start == [parent |-> forest, index |-> i]
             round[n \in 0 .. N] == IF n = 0 THEN Start ELSE Halve(round[n - 1])
  <1>1. Find(forest, i) = round[N]
    BY DEF Find
  <1>2. Start \in Steps
    BY DEF Describes
  <1> HIDE DEF Start
  <1>3. \A n \in 0 .. N : round[n] = IF n = 0 THEN Start ELSE Halve(round[n - 1])
    <2> DEFINE Good(m, g) == g = [n \in 0 .. m |-> IF n = 0 THEN Start ELSE Halve(g[n - 1])]
               Bad == {m \in 0 .. N : ~\E g : Good(m, g)}
    <2>1. Bad \in SUBSET Nat
      OBVIOUS
    <2>2. ASSUME Bad # {} PROVE FALSE
      <3>1. PICK m \in Bad : \A k \in Bad : m <= k
        <4> HIDE DEF Bad
        <4> QED
          BY <2>1, <2>2, LeastNumber
      <3>2. m # 0
        <4> SUFFICES ASSUME m = 0 PROVE FALSE
          OBVIOUS
        <4>1. Good(0, [n \in 0 .. 0 |-> Start])
          OBVIOUS
        <4> QED
          BY <3>1, <4>1
      <3>3. PICK g : Good(m - 1, g)
        <4>1. m - 1 \in 0 .. N /\ m - 1 \notin Bad
          <5>1. m \in 0 .. N /\ ~(m <= m - 1)
            BY <3>1
          <5>2. m - 1 \in 0 .. N
            BY <5>1, <3>2
          <5> HIDE DEF Bad
          <5> QED
            BY <5>1, <5>2, <3>1
        <4> HIDE DEF Good
        <4> QED
          BY <4>1
      <3>4. Good(m, [n \in 0 .. m |-> IF n = 0 THEN Start ELSE Halve(g[n - 1])])
        <4> DEFINE h == [n \in 0 .. m |-> IF n = 0 THEN Start ELSE Halve(g[n - 1])]
        <4>1. ASSUME NEW n \in 0 .. m - 1 PROVE h[n] = g[n]
          <5>1. g[n] = IF n = 0 THEN Start ELSE Halve(g[n - 1])
            BY <3>3
          <5>2. n \in 0 .. m
            BY <3>1, <3>2
          <5> QED
            BY <5>1, <5>2
        <4>2. \A n \in 0 .. m : n # 0 => h[n - 1] = g[n - 1]
          <5> HIDE DEF h
          <5> QED
            BY <4>1, <3>1
        <4> QED
          BY <4>2
      <3> QED
        BY <3>1, <3>4
    <2>3. PICK g : Good(N, g)
      <3>1. N \in 0 .. N
        OBVIOUS
      <3> QED
        BY <2>2, <3>1
    <2>4. round = [n \in 0 .. N |-> IF n = 0 THEN Start ELSE Halve(round[n - 1])]
      BY <2>3
    <2> HIDE DEF round
    <2> QED
      BY <2>4
  <1> HIDE DEF round, Steps
  <1> DEFINE Facts(n) == /\ round[n] \in Steps
                         /\ Describes(above, root, round[n].parent)
                         /\ root[round[n].index] = root[i]
                         /\ \/ round[n].parent[round[n].index] = round[n].index
                            \/ Cardinality(above[round[n].index]) < N - n
             Bad == {n \in 0 .. N : ~Facts(n)}
  <1>4. ASSUME NEW find \in Steps, Describes(above, root, find.parent)
        PROVE  /\ IsFiniteSet(above[find.index]) /\ Cardinality(above[find.index]) \in Nat
               /\ Cardinality(above[find.index]) < N
    <2>1. find.index \in 1 .. N /\ above[find.index] \subseteq (1 .. N) \ {find.index}
      BY <1>4 DEF Steps, Describes, Indices
    <2>2. IsFiniteSet(1 .. N) /\ Cardinality(1 .. N) = N
      <3>1. 1 \in Int /\ N \in Nat
        OBVIOUS
      <3> HIDE DEF N
      <3> QED
        BY SMTT(30), <3>1, FS_Interval
    <2>3. /\ IsFiniteSet((1 .. N) \ {find.index})
          /\ Cardinality((1 .. N) \ {find.index}) = N - 1
      BY <2>1, <2>2, FS_RemoveElement
    <2> QED
      BY <2>1, <2>3, FS_Subset, FS_CardinalityType
  <1>5. Bad \in SUBSET Nat
    OBVIOUS
  <1>6. ASSUME Bad # {} PROVE FALSE
    <2>1. PICK n \in Bad : \A k \in Bad : n <= k
      <3> HIDE DEF Bad
      <3> QED
        BY <1>5, <1>6, LeastNumber
    <2>2. n \in 0 .. N /\ ~Facts(n)
      BY <2>1
    <2>3. CASE n = 0
      <3>1. round[0] = Start
        BY <1>3
      <3>2. Start.index = i /\ Start.parent = forest
        BY DEF Start
      <3>3. Cardinality(above[Start.index]) < N - 0
        BY <1>2, <1>4, <3>2
      <3>4. Facts(0)
        BY <1>2, <3>1, <3>2, <3>3
      <3> QED
        BY <2>2, <2>3, <3>4
    <2>4. CASE n # 0
      <3> DEFINE old == round[n - 1]
      <3>1. n - 1 \in 0 .. N /\ round[n] = Halve(old)
        BY <1>3, <2>2, <2>4
      <3>2. Facts(n - 1)
        BY <2>1, <2>2, <2>4, <3>1
      <3> HIDE DEF old
      <3>3. /\ Halve(old) \in Steps
            /\ Describes(above, root, Halve(old).parent)
            /\ root[Halve(old).index] = root[old.index]
            /\ old.parent[old.index] = old.index => Halve(old) = old
            /\ old.parent[old.index] # old.index =>
                  /\ above[Halve(old).index] \subseteq above[old.index]
                  /\ \E j \in above[old.index] : j \notin above[Halve(old).index]
        BY <3>2, HalveFacts DEF Steps, old
      <3>4. CASE old.parent[old.index] = old.index
        <4>1. Facts(n)
          BY <3>1, <3>2, <3>3, <3>4 DEF old
        <4> QED
          BY <2>2, <4>1
      <3>5. CASE old.parent[old.index] # old.index
        <4> DEFINE A == above[old.index]
                   B == above[Halve(old).index]
        <4>1. IsFiniteSet(A) /\ Cardinality(A) \in Nat
          BY <3>2, <1>4 DEF old
        <4>2. B \subseteq A /\ B # A
          BY <3>3, <3>5
        <4>3. Cardinality(B) < Cardinality(A) /\ Cardinality(B) \in Nat
          <5> HIDE DEF A, B
          <5> QED
            BY <4>1, <4>2, FS_Subset, FS_CardinalityType
        <4>4. Cardinality(A) < N - (n - 1)
          BY <3>2, <3>5 DEF old
        <4>5. Cardinality(B) < N - n
          <5> HIDE DEF A, B
          <5> QED
            BY <4>1, <4>3, <4>4, <2>2
        <4>6. Facts(n)
          BY <3>1, <3>2, <3>3, <4>5 DEF old
        <4> QED
          BY <2>2, <4>6
      <3> QED
        BY <3>4, <3>5
    <2> QED
      BY <2>3, <2>4
  <1>7. Facts(N)
    <2>1. N \in 0 .. N
      OBVIOUS
    <2> QED
      BY <1>6, <2>1
  <1>8. ~(Cardinality(above[round[N].index]) < N - N)
    BY <1>7, <1>4
  <1>9. round[N].index \in Indices /\ round[N].parent[round[N].index] = round[N].index
    BY <1>7, <1>8 DEF Steps
  <1>10. root[round[N].index] = round[N].index
    BY <1>7, <1>9 DEF Describes
  <1> QED
    BY <1>1, <1>7, <1>10

\* The trees of left and right become one, under the root of left; the others
\* are as before.
Joined(root, left, right) ==
    [i \in Indices |-> IF root[i] = root[right] THEN root[left] ELSE root[i]]

LEMMA JoinFacts ==
    ASSUME Len(hashes) \in Nat, NEW above, NEW root, NEW forest,
           NEW left \in Indices, NEW right \in Indices, Describes(above, root, forest)
    PROVE  \E wider : Describes(wider, Joined(root, left, right), Join(forest, left, right))
  <1> DEFINE first == Find(forest, left)
             second == Find(first.parent, right)
             p == second.parent
             top == root[left]
             under == root[right]
             q == [p EXCEPT ![under] = top]
             both == Joined(root, left, right)
  <1>1. Describes(above, root, first.parent) /\ first.index = top
    BY FindFacts
  <1>2. Describes(above, root, p) /\ second.index = under
    <2> HIDE DEF first
    <2> QED
      BY <1>1, FindFacts
  <1>3. Join(forest, left, right) = q
    BY <1>1, <1>2 DEF Join
  <1> HIDE DEF first, second, p
  <1>4. /\ p \in [Indices -> Indices] /\ root \in [Indices -> Indices]
        /\ above \in [Indices -> SUBSET Indices]
        /\ top \in Indices /\ under \in Indices
        /\ p[top] = top /\ p[under] = under
    BY <1>2 DEF Describes
  <1>5. root[top] = top /\ root[under] = under /\ above[top] = {} /\ above[under] = {}
    BY <1>2, <1>4 DEF Describes
  <1> HIDE DEF top, under
  <1>6. CASE top = under
    <2>1. q = p
      BY <1>4, <1>6
    <2>2. both = root
      BY <1>4, <1>6 DEF Joined, top, under
    <2> QED
      BY <1>2, <1>3, <2>1, <2>2
  <1>7. CASE top # under
    <2> DEFINE wider == [i \in Indices |-> IF i = under \/ under \in above[i]
                                           THEN above[i] \cup {top} ELSE above[i]]
    <2>1. q \in [Indices -> Indices] /\ wider \in [Indices -> SUBSET Indices]
      BY <1>4
    <2>2. /\ both \in [Indices -> Indices]
          /\ \A i \in Indices : both[i] = IF root[i] = under THEN top ELSE root[i]
      BY <1>4 DEF Joined, top, under
    <2> HIDE DEF both
    <2>3. ASSUME NEW i \in Indices PROVE i \notin wider[i]
      BY <1>2, <1>4, <1>5, <1>7 DEF Describes
    <2>4. ASSUME NEW i \in Indices, q[i] # i
          PROVE  q[i] \in wider[i] /\ wider[q[i]] \subseteq wider[i]
      <3>1. CASE i = under
        BY <3>1, <1>4, <1>5, <1>7
      <3>2. CASE i # under
        <4>1. q[i] = p[i] /\ p[i] \in Indices
          BY <3>2, <1>4
        <4>2. p[i] \in above[i] /\ above[p[i]] \subseteq above[i]
          BY <4>1, <2>4, <1>2 DEF Describes
        <4>3. p[i] = under \/ under \in above[p[i]] => under \in above[i]
          BY <4>2
        <4> QED
          BY <4>1, <4>2, <4>3
      <3> QED
        BY <3>1, <3>2
    <2>5. ASSUME NEW i \in Indices, q[i] = i
          PROVE  wider[i] = {} /\ both[i] = i
      <3>1. i # under /\ p[i] = i
        BY <2>5, <1>4, <1>7
      <3>2. above[i] = {} /\ root[i] = i
        BY <3>1, <1>2 DEF Describes
      <3> QED
        BY <3>1, <3>2, <2>2
    <2>6. ASSUME NEW i \in Indices PROVE both[q[i]] = both[i]
      <3>1. CASE i = under
        BY <3>1, <1>4, <1>5, <1>7, <2>2
      <3>2. CASE i # under
        <4>1. q[i] = p[i] /\ p[i] \in Indices /\ root[p[i]] = root[i]
          BY <3>2, <1>2, <1>4 DEF Describes
        <4> QED
          BY <4>1, <2>2
      <3> QED
        BY <3>1, <3>2
    <2>7. ASSUME NEW i \in Indices PROVE q[both[i]] = both[i]
      <3>1. root[i] \in Indices /\ p[root[i]] = root[i]
        BY <1>2 DEF Describes
      <3> QED
        BY <3>1, <1>4, <1>7, <2>2
    <2>8. Describes(wider, both, q)
      <3> HIDE DEF wider, q
      <3> QED
        BY <2>1, <2>2, <2>3, <2>4, <2>5, <2>6, <2>7 DEF Describes
    <2> QED
      BY <1>3, <2>8 DEF both
  <1> QED
    BY <1>6, <1>7

\* Two indices have one root exactly when no set that is closed under the links
\* parts them.
Agrees(root, links) ==
    /\ \A e \in links : root[e[1]] = root[e[2]]
    /\ \A s \in Closed(links), i, j \in Indices : root[i] = root[j] => (i \in s => j \in s)

\* The inductive invariant.
ClustersInv ==
    /\ Len(hashes) \in Nat /\ DOMAIN hashes = Indices
    /\ pair \in Nat \X Nat /\ 1 <= pair[1] /\ pair[1] < pair[2]
    /\ pair[2] > Len(hashes) => pair[2] = pair[1] + 1 /\ pair[1] >= Len(hashes)
    /\ clustering \in {"comparing", "done", "failed"}
    /\ clustering = "done" => pair[2] > Len(hashes)
    /\ \E above, root : Describes(above, root, parent) /\ Agrees(root, NearCompared)

\* At first every index is its own root.
LEMMA ClustersInitInv == ClustersInit => ClustersInv
  <1> SUFFICES ASSUME ClustersInit PROVE ClustersInv
    OBVIOUS
  <1>1. PICK n \in 0 .. MaxHashes : hashes \in [1 .. n -> Hashes]
    BY DEF ClustersInit, BoundedSeq, SeqOf
  <1>2. n \in Nat /\ hashes \in Seq(Hashes) /\ Len(hashes) = n /\ DOMAIN hashes = 1 .. n
    BY <1>1, ClustersAssumption
  <1>3. Len(hashes) \in Nat /\ DOMAIN hashes = Indices
    BY <1>2 DEF Indices
  <1> DEFINE above == [i \in Indices |-> {}]
             root == [i \in Indices |-> i]
  <1>4. Describes(above, root, parent)
    BY <1>3 DEF ClustersInit, Describes
  <1>5. pair = <<1, 2>>
    BY DEF ClustersInit
  <1>6. NearCompared = {}
    BY <1>2, <1>5 DEF NearCompared, Near
  <1>7. Agrees(root, {})
    BY DEF Agrees
  <1>8. /\ pair \in Nat \X Nat /\ 1 <= pair[1] /\ pair[1] < pair[2]
        /\ pair[2] > Len(hashes) => pair[2] = pair[1] + 1 /\ pair[1] >= Len(hashes)
    BY <1>3, <1>5
  <1>9. clustering = "comparing"
    BY DEF ClustersInit
  <1> QED
    BY <1>3, <1>4, <1>6, <1>7, <1>8, <1>9 DEF ClustersInv

\* A comparison adds its pair to those compared.
LEMMA ComparedFacts ==
    ASSUME ClustersInv, Compare
    PROVE  LET link == <<pair[1], pair[2]>>
           IN NearCompared' = IF NearDuplicate(hashes[pair[1]], hashes[pair[2]])
                              THEN NearCompared \cup {link} ELSE NearCompared
  <1> DEFINE link == <<pair[1], pair[2]>>
             N == Len(hashes)
  <1>1. /\ N \in Nat /\ DOMAIN hashes = 1 .. N /\ hashes' = hashes
        /\ pair[1] \in Nat /\ pair[2] \in Nat /\ 1 <= pair[1] /\ pair[1] < pair[2]
        /\ pair[2] <= N
    BY DEF ClustersInv, Compare, Indices
  <1>2. link \in (DOMAIN hashes) \X (DOMAIN hashes)
    BY <1>1
  <1>3. Near' = Near
    BY <1>1 DEF Near
  <1>4. link \in Near <=> NearDuplicate(hashes[pair[1]], hashes[pair[2]])
    BY <1>1, <1>2 DEF Near
  <1>5. \A e \in Near : e = <<e[1], e[2]>> /\ e[1] \in 1 .. N /\ e[2] \in 1 .. N /\ e[1] < e[2]
    BY <1>1 DEF Near
  <1>6. pair' = IF pair[2] < N THEN <<pair[1], pair[2] + 1>> ELSE <<pair[1] + 1, pair[1] + 2>>
    BY DEF Compare
  <1>7. NearCompared' = {e \in Near : e[1] < pair'[1] \/ (e[1] = pair'[1] /\ e[2] < pair'[2])}
    BY <1>3 DEF NearCompared
  <1>8. ASSUME NEW e \in Near
        PROVE  (e[1] < pair'[1] \/ (e[1] = pair'[1] /\ e[2] < pair'[2]))
               <=> (e[1] < pair[1] \/ (e[1] = pair[1] /\ e[2] < pair[2]) \/ e = link)
    <2>1. e = link <=> e[1] = pair[1] /\ e[2] = pair[2]
      BY <1>5
    <2> DEFINE a == e[1]
               b == e[2]
               x == pair[1]
               y == pair[2]
    <2>2. a \in 1 .. N /\ b \in 1 .. N /\ a < b
      BY <1>5
    <2>3. CASE y < N
      <3>1. pair'[1] = x /\ pair'[2] = y + 1
        BY <1>6, <2>3
      <3> HIDE DEF a, b, x, y
      <3>2. (a < x \/ (a = x /\ b < y + 1)) <=> (a < x \/ (a = x /\ b < y) \/ (a = x /\ b = y))
        BY <1>1, <2>2 DEF x, y
      <3> QED
        BY <2>1, <3>1, <3>2 DEF a, b, x, y
    <2>4. CASE ~(y < N)
      <3>1. pair'[1] = x + 1 /\ pair'[2] = x + 2
        BY <1>6, <2>4
      <3>2. x \in Nat /\ y = N
        BY <2>4, <1>1
      <3> HIDE DEF a, b, x, y, N
      <3>3. (a < x + 1 \/ (a = x + 1 /\ b < x + 2))
            <=> (a < x \/ (a = x /\ b < y) \/ (a = x /\ b = y))
        BY <1>1, <2>2, <3>2
      <3> QED
        BY <2>1, <3>1, <3>3 DEF a, b, x, y
    <2> QED
      BY <2>3, <2>4
  <1>9. NearCompared' = {e \in Near : e[1] < pair[1] \/ (e[1] = pair[1] /\ e[2] < pair[2]) \/ e = link}
    BY <1>7, <1>8
  <1>10. NearCompared' = NearCompared \cup {e \in Near : e = link}
    BY <1>9 DEF NearCompared
  <1> QED
    BY <1>4, <1>10

\* A join makes the roots agree with one more link.
LEMMA AgreesWithOneMore ==
    ASSUME NEW root \in [Indices -> Indices], NEW links, NEW left \in Indices, NEW right \in Indices,
           \A e \in links : e[1] \in Indices /\ e[2] \in Indices,
           DOMAIN hashes = Indices, Agrees(root, links)
    PROVE  Agrees(Joined(root, left, right), links \cup {<<left, right>>})
  <1> DEFINE both == Joined(root, left, right)
             more == links \cup {<<left, right>>}
  <1>1. \A i \in Indices : both[i] = IF root[i] = root[right] THEN root[left] ELSE root[i]
    BY DEF Joined
  <1> HIDE DEF both
  <1>2. ASSUME NEW e \in more PROVE both[e[1]] = both[e[2]]
    <2>1. CASE e \in links
      BY <2>1, <1>1 DEF Agrees
    <2>2. CASE e = <<left, right>>
      BY <2>2, <1>1
    <2> QED
      BY <2>1, <2>2
  <1>3. ASSUME NEW s \in Closed(more), NEW i \in Indices, NEW j \in Indices,
               both[i] = both[j], i \in s
        PROVE  j \in s
    <2>1. s \in Closed(links) /\ (left \in s <=> right \in s)
      <3>1. s \in SUBSET DOMAIN hashes /\ \A e \in more : e[1] \in s <=> e[2] \in s
        BY <1>3 DEF Closed
      <3>2. <<left, right>> \in more /\ <<left, right>>[1] = left /\ <<left, right>>[2] = right
        OBVIOUS
      <3>3. left \in s <=> right \in s
        BY <3>1, <3>2
      <3> QED
        BY <3>1, <3>3 DEF Closed
    <2>2. \A x, y \in Indices : root[x] = root[y] => (x \in s => y \in s)
      BY <2>1 DEF Agrees
    <2>3. CASE root[i] = root[j]
      BY <2>3, <2>2, <1>3
    <2>4. CASE root[i] = root[right] /\ root[left] = root[j]
      BY <2>4, <2>1, <2>2, <1>3
    <2>5. CASE root[i] = root[left] /\ root[right] = root[j]
      BY <2>5, <2>1, <2>2, <1>3
    <2> QED
      BY <1>1, <1>3, <2>3, <2>4, <2>5
  <1> QED
    BY <1>2, <1>3 DEF Agrees, both

\* No step breaks the invariant.
LEMMA ClustersNextInv == ClustersInv /\ [ClustersNext]_clustersVars => ClustersInv'
  <1> SUFFICES ASSUME ClustersInv, [ClustersNext]_clustersVars PROVE ClustersInv'
    OBVIOUS
  <1>1. CASE Compare
    <2> DEFINE x == pair[1]
               y == pair[2]
               N == Len(hashes)
    <2>1. /\ N \in Nat /\ DOMAIN hashes = Indices /\ hashes' = hashes /\ clustering' = clustering
          /\ x \in Nat /\ y \in Nat /\ 1 <= x /\ x < y /\ y <= N
          /\ clustering = "comparing"
      BY <1>1 DEF ClustersInv, Compare
    <2>2. x \in Indices /\ y \in Indices /\ Indices' = Indices
      BY <2>1 DEF Indices
    <2>3. pair' = IF y < N THEN <<x, y + 1>> ELSE <<x + 1, x + 2>>
      BY <1>1 DEF Compare
    <2>4. /\ pair' \in Nat \X Nat /\ 1 <= pair'[1] /\ pair'[1] < pair'[2]
          /\ pair'[2] > N => pair'[2] = pair'[1] + 1 /\ pair'[1] >= N
      <3> HIDE DEF x, y, N
      <3>1. CASE y < N
        BY <3>1, <2>1, <2>3
      <3>2. CASE ~(y < N)
        BY <3>2, <2>1, <2>3
      <3> QED
        BY <3>1, <3>2
    <2>5. PICK above, root : Describes(above, root, parent) /\ Agrees(root, NearCompared)
      BY DEF ClustersInv
    <2>6. \E wider, both : /\ Describes(wider, both, parent')
                           /\ Agrees(both, NearCompared')
      <3>1. CASE NearDuplicate(hashes[x], hashes[y])
        <4>1. parent' = Join(parent, x, y) /\ NearCompared' = NearCompared \cup {<<x, y>>}
          BY <1>1, <3>1, ComparedFacts DEF Compare
        <4>2. \A e \in NearCompared : e[1] \in Indices /\ e[2] \in Indices
          BY <2>1 DEF NearCompared, Near
        <4>3. root \in [Indices -> Indices]
          BY <2>5 DEF Describes
        <4>4. Agrees(Joined(root, x, y), NearCompared \cup {<<x, y>>})
          BY <2>1, <2>2, <2>5, <4>2, <4>3, AgreesWithOneMore
        <4>5. \E wider : Describes(wider, Joined(root, x, y), Join(parent, x, y))
          BY <2>1, <2>2, <2>5, JoinFacts
        <4> QED
          BY <4>1, <4>4, <4>5
      <3>2. CASE ~NearDuplicate(hashes[x], hashes[y])
        <4>1. parent' = parent /\ NearCompared' = NearCompared
          BY <1>1, <3>2, ComparedFacts DEF Compare
        <4> QED
          BY <4>1, <2>5
      <3> QED
        BY <3>1, <3>2
    <2>7. PICK wider, both : Describes(wider, both, parent') /\ Agrees(both, NearCompared')
      BY <2>6
    <2>8. Describes(wider, both, parent)' /\ Agrees(both, NearCompared)'
      BY <2>1, <2>2, <2>7 DEF Describes, Agrees, Closed
    <2> QED
      BY <2>1, <2>2, <2>4, <2>8 DEF ClustersInv
  <1>2. CASE Mismatch \/ FinishClusters \/ UNCHANGED clustersVars
    <2>1. UNCHANGED <<hashes, parent, pair>>
      BY <1>2 DEF Mismatch, FinishClusters, clustersVars
    <2>2. /\ clustering' \in {"comparing", "done", "failed"}
          /\ clustering' = "done" => pair[2] > Len(hashes)
      BY <1>2 DEF Mismatch, FinishClusters, clustersVars, ClustersInv
    <2>3. PICK above, root : Describes(above, root, parent) /\ Agrees(root, NearCompared)
      BY DEF ClustersInv
    <2>4. NearCompared' = NearCompared /\ Indices' = Indices
      BY <2>1 DEF NearCompared, Near, Indices
    <2>5. Describes(above, root, parent)' /\ Agrees(root, NearCompared)'
      BY <2>1, <2>3, <2>4 DEF Describes, Agrees, Closed
    <2> QED
      BY <2>1, <2>2, <2>4, <2>5 DEF ClustersInv
  <1> QED
    BY <1>1, <1>2 DEF ClustersNext

-----------------------------------------------------------------------------
(* The groups.                                                             *)

\* The indices up to n, divided by their roots.
Divided(groups, root, n) ==
    /\ groups \in Seq(Seq(Indices))
    /\ \A g \in DOMAIN groups :
        /\ groups[g] # <<>>
        /\ \A m \in DOMAIN groups[g] : groups[g][m] <= n /\ root[groups[g][m]] = root[groups[g][1]]
        /\ \A m, k \in DOMAIN groups[g] : m < k => groups[g][m] < groups[g][k]
    /\ \A g, h \in DOMAIN groups :
          g < h => groups[g][1] < groups[h][1] /\ root[groups[g][1]] # root[groups[h][1]]
    /\ \A i \in 1 .. n : \E g \in DOMAIN groups : \E m \in DOMAIN groups[g] : groups[g][m] = i

\* The next index goes to the end of the group of its root, or begins a group.
LEMMA AddToGroupFacts ==
    ASSUME Len(hashes) \in Nat, NEW root \in [Indices -> Indices], NEW groups, NEW n \in Indices,
           Divided(groups, root, n - 1)
    PROVE  Divided(AddToGroup(groups, root, n), root, n)
  <1> DEFINE own(g) == root[groups[g][1]] = root[n]
             new == AddToGroup(groups, root, n)
  <1>1. /\ groups \in Seq(Seq(Indices)) /\ DOMAIN groups = 1 .. Len(groups) /\ Len(groups) \in Nat
        /\ n \in Nat /\ n >= 1 /\ Indices \subseteq Nat
    BY DEF Divided, Indices
  <1>2. ASSUME NEW g \in DOMAIN groups
        PROVE  /\ groups[g] \in Seq(Indices) /\ DOMAIN groups[g] = 1 .. Len(groups[g])
               /\ Len(groups[g]) \in Nat /\ Len(groups[g]) >= 1
               /\ groups[g][1] \in Indices
               /\ \A m \in DOMAIN groups[g] : groups[g][m] \in Indices /\ groups[g][m] < n
    <2>1. groups[g] \in Seq(Indices) /\ groups[g] # <<>>
      BY <1>1 DEF Divided
    <2>2. \A m \in DOMAIN groups[g] : groups[g][m] \in Indices /\ groups[g][m] <= n - 1
      BY <2>1 DEF Divided
    <2>3. /\ DOMAIN groups[g] = 1 .. Len(groups[g]) /\ Len(groups[g]) \in Nat
          /\ Len(groups[g]) >= 1
      BY <2>1
    <2>4. groups[g][1] \in Indices
      BY <2>2, <2>3
    <2>5. \A x \in Indices : x <= n - 1 => x < n
      BY <1>1
    <2>6. \A m \in DOMAIN groups[g] : groups[g][m] \in Indices /\ groups[g][m] < n
      BY <2>2, <2>5
    <2> QED
      BY <2>1, <2>3, <2>4, <2>6
  <1>3. CASE \E g \in DOMAIN groups : own(g)
    <2>1. new = [g \in DOMAIN groups |-> IF own(g) THEN Append(groups[g], n) ELSE groups[g]]
      BY <1>3 DEF AddToGroup
    <2> HIDE DEF new
    <2>2. DOMAIN new = DOMAIN groups
      BY <2>1
    <2>3. ASSUME NEW g \in DOMAIN groups
          PROVE  /\ new[g] \in Seq(Indices) /\ new[g] # <<>> /\ new[g][1] = groups[g][1]
                 /\ \A m \in DOMAIN new[g] : new[g][m] <= n /\ root[new[g][m]] = root[groups[g][1]]
                 /\ \A m, k \in DOMAIN new[g] : m < k => new[g][m] < new[g][k]
                 /\ \A m \in DOMAIN groups[g] : m \in DOMAIN new[g] /\ new[g][m] = groups[g][m]
                 /\ own(g) => \E m \in DOMAIN new[g] : new[g][m] = n
      <3>1. CASE ~own(g)
        <4>1. new[g] = groups[g]
          BY <2>1, <3>1
        <4> QED
          <5>1. \A m \in DOMAIN groups[g] : groups[g][m] <= n
            BY <1>1, <1>2
          <5> QED
            BY <4>1, <5>1, <3>1, <1>2 DEF Divided
      <3>2. CASE own(g)
        <4> DEFINE s == groups[g]
                   l == Len(groups[g])
        <4>1. new[g] = Append(s, n)
          BY <2>1, <3>2
        <4>2. /\ s \in Seq(Indices) /\ l \in Nat /\ l >= 1 /\ DOMAIN s = 1 .. l
              /\ \A m \in 1 .. l : s[m] \in Indices /\ s[m] < n /\ root[s[m]] = root[s[1]]
              /\ \A m, k \in 1 .. l : m < k => s[m] < s[k]
          BY <1>2 DEF Divided
        <4>3. root[s[1]] = root[n]
          BY <3>2
        <4> HIDE DEF s
        <4>4. /\ new[g] \in Seq(Indices) /\ DOMAIN new[g] = 1 .. l + 1 /\ new[g][l + 1] = n
              /\ \A m \in 1 .. l : new[g][m] = s[m]
          BY <4>1, <4>2 DEF s
        <4> HIDE DEF l
        <4>5. /\ 1 \in 1 .. l + 1 /\ l + 1 \in 1 .. l + 1 /\ 1 \in 1 .. l
              /\ \A m \in 1 .. l + 1 : m \in 1 .. l \/ m = l + 1
          BY <4>2
        <4>6. \A m \in DOMAIN new[g] : new[g][m] <= n /\ root[new[g][m]] = root[s[1]]
          <5> SUFFICES ASSUME NEW m \in 1 .. l + 1
                       PROVE  new[g][m] <= n /\ root[new[g][m]] = root[s[1]]
            BY <4>4
          <5>1. CASE m \in 1 .. l
            <6>1. new[g][m] = s[m] /\ s[m] \in Indices /\ s[m] < n /\ root[s[m]] = root[s[1]]
              BY <5>1, <4>2, <4>4
            <6>2. \A x \in Indices : x < n => x <= n
              BY <1>1
            <6> QED
              BY <6>1, <6>2
          <5>2. CASE m = l + 1
            BY <5>2, <1>1, <4>3, <4>4
          <5> QED
            BY <4>5, <5>1, <5>2
        <4>7. \A m, k \in DOMAIN new[g] : m < k => new[g][m] < new[g][k]
          BY <4>2, <4>4, <4>5
        <4>8. new[g] # <<>> /\ new[g][1] = s[1]
          BY <4>4, <4>5
        <4> QED
          BY <4>2, <4>4, <4>5, <4>6, <4>7, <4>8 DEF s
      <3> QED
        BY <3>1, <3>2
    <2>4. new \in Seq(Seq(Indices))
      <3> DEFINE l == Len(groups)
                 X == Seq(Indices)
      <3>1. l \in Nat /\ new \in [1 .. l -> X]
        BY <1>1, <2>1, <2>2, <2>3
      <3> HIDE DEF l, X
      <3>2. new \in Seq(X)
        BY <3>1
      <3> QED
        BY <3>2 DEF X
    <2>5. \A g, h \in DOMAIN new :
             g < h => new[g][1] < new[h][1] /\ root[new[g][1]] # root[new[h][1]]
      BY <2>2, <2>3 DEF Divided
    <2>6. ASSUME NEW i \in 1 .. n
          PROVE  \E g \in DOMAIN new : \E m \in DOMAIN new[g] : new[g][m] = i
      <3>1. CASE i = n
        BY <3>1, <1>3, <2>2, <2>3
      <3>2. CASE i # n
        <4>1. i \in 1 .. n - 1
          BY <3>2, <1>1
        <4>2. PICK g \in DOMAIN groups : \E m \in DOMAIN groups[g] : groups[g][m] = i
          BY <4>1 DEF Divided
        <4> QED
          BY <4>2, <2>2, <2>3
      <3> QED
        BY <3>1, <3>2
    <2>7. ASSUME NEW g \in DOMAIN new
          PROVE  /\ new[g] # <<>>
                 /\ \A m \in DOMAIN new[g] : new[g][m] <= n /\ root[new[g][m]] = root[new[g][1]]
                 /\ \A m, k \in DOMAIN new[g] : m < k => new[g][m] < new[g][k]
      BY <2>2, <2>3
    <2>8. Divided(new, root, n)
      BY <2>4, <2>5, <2>6, <2>7 DEF Divided
    <2> QED
      BY <2>8 DEF new
  <1>4. CASE ~\E g \in DOMAIN groups : own(g)
    <2> DEFINE l == Len(groups)
    <2>1. new = Append(groups, <<n>>)
      BY <1>4 DEF AddToGroup
    <2> HIDE DEF new
    <2>2. /\ new \in Seq(Seq(Indices)) /\ DOMAIN new = 1 .. l + 1 /\ new[l + 1] = <<n>>
          /\ \A g \in 1 .. l : new[g] = groups[g]
      BY <1>1, <2>1
    <2>3. DOMAIN groups = 1 .. l /\ l \in Nat
      BY <1>1
    <2> HIDE DEF l
    <2>4. /\ l + 1 \in DOMAIN new /\ 1 .. l \subseteq DOMAIN new
          /\ \A g \in DOMAIN new : g \in 1 .. l \/ g = l + 1
      BY <2>2, <2>3
    <2>5. /\ DOMAIN <<n>> = {1} /\ <<n>>[1] = n /\ <<n>> # <<>>
      OBVIOUS
    <2>6. ASSUME NEW g \in DOMAIN new
          PROVE  /\ new[g] # <<>>
                 /\ \A m \in DOMAIN new[g] : new[g][m] <= n /\ root[new[g][m]] = root[new[g][1]]
                 /\ \A m, k \in DOMAIN new[g] : m < k => new[g][m] < new[g][k]
      <3>1. CASE g \in 1 .. l
        <4>1. g \in DOMAIN groups /\ new[g] = groups[g]
          BY <3>1, <2>2, <2>3
        <4>2. \A m \in DOMAIN groups[g] : groups[g][m] <= n
          BY <4>1, <1>1, <1>2
        <4> QED
          BY <4>1, <4>2 DEF Divided
      <3>2. CASE g = l + 1
        <4>1. new[g] = <<n>>
          BY <3>2, <2>2
        <4> QED
          BY <4>1, <2>5, <1>1
      <3> QED
        BY <2>4, <3>1, <3>2
    <2>7. ASSUME NEW g \in DOMAIN new, NEW h \in DOMAIN new, g < h
          PROVE  new[g][1] < new[h][1] /\ root[new[g][1]] # root[new[h][1]]
      <3>1. g \in 1 .. l
        BY <2>2, <2>3, <2>4, <2>7
      <3>2. CASE h \in 1 .. l
        BY <3>1, <3>2, <2>2, <2>3, <2>7 DEF Divided
      <3>3. CASE h = l + 1
        <4>1. new[g] = groups[g] /\ new[h][1] = n
          BY <3>1, <3>3, <2>2, <2>5
        <4>2. groups[g][1] < n
          BY <3>1, <1>2, <2>3
        <4> QED
          BY <4>1, <4>2, <3>1, <1>4, <2>3
      <3> QED
        BY <2>4, <3>2, <3>3
    <2>8. ASSUME NEW i \in 1 .. n
          PROVE  \E g \in DOMAIN new : \E m \in DOMAIN new[g] : new[g][m] = i
      <3>1. CASE i = n
        BY <3>1, <2>2, <2>4, <2>5
      <3>2. CASE i # n
        <4>1. i \in 1 .. n - 1
          BY <3>2, <1>1
        <4>2. PICK g \in DOMAIN groups : \E m \in DOMAIN groups[g] : groups[g][m] = i
          BY <4>1 DEF Divided
        <4> QED
          BY <4>2, <2>2, <2>3, <2>4
      <3> QED
        BY <3>1, <3>2
    <2>9. new \in Seq(Seq(Indices))
      BY <2>2
    <2>10. Divided(new, root, n)
      BY <2>6, <2>7, <2>8, <2>9 DEF Divided
    <2> QED
      BY <2>10 DEF new
  <1> QED
    BY <1>3, <1>4

\* At the end all indices are divided.
LEMMA GroupsFacts ==
    ASSUME Len(hashes) \in Nat, Roots \in [Indices -> Indices]
    PROVE  Divided(Groups, Roots, Len(hashes))
  <1> DEFINE N == Len(hashes)
             upTo[n \in 0 .. N] == IF n = 0 THEN <<>> ELSE AddToGroup(upTo[n - 1], Roots, n)
  <1>1. Groups = upTo[N]
    BY DEF Groups
  <1>2. \A n \in 0 .. N : upTo[n] = IF n = 0 THEN <<>> ELSE AddToGroup(upTo[n - 1], Roots, n)
    <2> DEFINE Good(m, f) == f = [n \in 0 .. m |-> IF n = 0 THEN <<>>
                                                   ELSE AddToGroup(f[n - 1], Roots, n)]
               Bad == {m \in 0 .. N : ~\E f : Good(m, f)}
    <2>1. Bad \in SUBSET Nat
      OBVIOUS
    <2>2. ASSUME Bad # {} PROVE FALSE
      <3>1. PICK m \in Bad : \A k \in Bad : m <= k
        <4> HIDE DEF Bad
        <4> QED
          BY <2>1, <2>2, LeastNumber
      <3>2. m # 0
        <4> SUFFICES ASSUME m = 0 PROVE FALSE
          OBVIOUS
        <4>1. Good(0, [n \in 0 .. 0 |-> <<>>])
          OBVIOUS
        <4> QED
          BY <3>1, <4>1
      <3>3. PICK f : Good(m - 1, f)
        <4>1. m - 1 \in 0 .. N /\ m - 1 \notin Bad
          <5>1. m \in 0 .. N /\ ~(m <= m - 1)
            BY <3>1
          <5>2. m - 1 \in 0 .. N
            BY <5>1, <3>2
          <5> HIDE DEF Bad
          <5> QED
            BY <5>1, <5>2, <3>1
        <4> HIDE DEF Good
        <4> QED
          BY <4>1
      <3>4. Good(m, [n \in 0 .. m |-> IF n = 0 THEN <<>> ELSE AddToGroup(f[n - 1], Roots, n)])
        <4> DEFINE h == [n \in 0 .. m |-> IF n = 0 THEN <<>> ELSE AddToGroup(f[n - 1], Roots, n)]
        <4>1. ASSUME NEW n \in 0 .. m - 1 PROVE h[n] = f[n]
          <5>1. f[n] = IF n = 0 THEN <<>> ELSE AddToGroup(f[n - 1], Roots, n)
            BY <3>3
          <5>2. n \in 0 .. m
            BY <3>1, <3>2
          <5> QED
            BY <5>1, <5>2
        <4>2. \A n \in 0 .. m : n # 0 => h[n - 1] = f[n - 1]
          <5> HIDE DEF h
          <5> QED
            BY <4>1, <3>1
        <4> QED
          BY <4>2
      <3> QED
        BY <3>1, <3>4
    <2>3. PICK f : Good(N, f)
      <3>1. N \in 0 .. N
        OBVIOUS
      <3> QED
        BY <2>2, <3>1
    <2>4. upTo = [n \in 0 .. N |-> IF n = 0 THEN <<>> ELSE AddToGroup(upTo[n - 1], Roots, n)]
      BY <2>3
    <2> HIDE DEF upTo
    <2> QED
      BY <2>4
  <1> HIDE DEF upTo
  <1> DEFINE Bad == {n \in 0 .. N : ~Divided(upTo[n], Roots, n)}
  <1>3. Bad \in SUBSET Nat
    OBVIOUS
  <1>4. ASSUME Bad # {} PROVE FALSE
    <2>1. PICK n \in Bad : \A k \in Bad : n <= k
      <3> HIDE DEF Bad
      <3> QED
        BY <1>3, <1>4, LeastNumber
    <2>2. CASE n = 0
      <3>1. upTo[0] = <<>>
        BY <1>2
      <3>2. Divided(<<>>, Roots, 0)
        BY DEF Divided
      <3> QED
        BY <2>1, <2>2, <3>1, <3>2
    <2>3. CASE n # 0
      <3>1. n - 1 \in 0 .. N /\ n \in Indices
        BY <2>1, <2>3 DEF Indices
      <3>2. Divided(upTo[n - 1], Roots, n - 1)
        BY <2>1, <3>1
      <3>3. upTo[n] = AddToGroup(upTo[n - 1], Roots, n)
        BY <2>1, <2>3, <1>2
      <3>4. Divided(upTo[n], Roots, n)
        BY <3>1, <3>2, <3>3, AddToGroupFacts
      <3> QED
        BY <2>1, <3>4
    <2> QED
      BY <2>2, <2>3
  <1>5. N \in 0 .. N
    OBVIOUS
  <1>6. Divided(upTo[N], Roots, N)
    BY <1>4, <1>5
  <1> QED
    BY <1>1, <1>6

\* For any hashes and any threshold two hashes have one root exactly when a chain
\* of the near duplicates compared so far leads from one to the other, and the
\* groups that are returned are the components, in order.
THEOREM ClustersCorrect == ClustersSpec => []ClustersAreComponents
  <1>1. ClustersInv => ClustersAreComponents
    <2> SUFFICES ASSUME ClustersInv PROVE ClustersAreComponents
      OBVIOUS
    <2> DEFINE N == Len(hashes)
    <2>1. N \in Nat /\ DOMAIN hashes = 1 .. N /\ Indices = 1 .. N
      BY DEF ClustersInv, Indices
    <2>2. PICK above, root : Describes(above, root, parent) /\ Agrees(root, NearCompared)
      BY DEF ClustersInv
    <2>3. root \in [Indices -> Indices]
      BY <2>2 DEF Describes
    <2>4. \A i \in Indices : Find(parent, i).index = root[i]
      BY <2>1, <2>2, FindFacts
    <2>5. Roots = root
      BY <2>1, <2>3, <2>4 DEF Roots
    <2>6. ASSUME NEW i \in Indices, NEW j \in Indices
          PROVE  root[i] = root[j] <=> \A s \in Closed(NearCompared) : i \in s => j \in s
      <3>1. ASSUME \A s \in Closed(NearCompared) : i \in s => j \in s PROVE root[i] = root[j]
        <4> DEFINE class == {x \in Indices : root[x] = root[i]}
        <4>1. \A e \in NearCompared : e[1] \in Indices /\ e[2] \in Indices
          BY <2>1 DEF NearCompared, Near
        <4>2. class \in Closed(NearCompared)
          BY <2>1, <2>2, <4>1 DEF Closed, Agrees
        <4> QED
          BY <3>1, <4>2
      <3> QED
        BY <2>2, <3>1 DEF Agrees
    <2>7. ASSUME clustering = "done"
          PROVE  /\ GroupsInOrder(Groups)
                 /\ \A i, j \in DOMAIN hashes :
                       (\E g \in DOMAIN Groups : {i, j} \subseteq ToSet(Groups[g]))
                       <=> \A s \in Closed(Near) : i \in s => j \in s
      <3> DEFINE groups == Groups
      <3>1. Divided(groups, root, N)
        BY <2>1, <2>3, <2>5, GroupsFacts
      <3> HIDE DEF groups
      <3>2. Near = NearCompared
        <4>1. pair[1] >= N /\ pair[1] \in Nat
          BY <2>7, <2>1 DEF ClustersInv
        <4>2. \A e \in Near : e[1] \in 1 .. N /\ e[2] \in 1 .. N /\ e[1] < e[2]
          BY <2>1 DEF Near
        <4>3. \A e \in Near : e[1] < pair[1]
          BY <4>1, <4>2, <2>1
        <4> QED
          BY <4>3 DEF NearCompared
      <3>3. /\ DOMAIN groups = 1 .. Len(groups) /\ Len(groups) \in Nat
            /\ \A g \in DOMAIN groups : groups[g] \in Seq(Indices)
        BY <3>1 DEF Divided
      <3>4. ASSUME NEW g \in DOMAIN groups, NEW h \in DOMAIN groups,
                   NEW m \in DOMAIN groups[g], NEW k \in DOMAIN groups[h],
                   root[groups[g][m]] = root[groups[h][k]]
            PROVE  g = h
        <4>1. root[groups[g][1]] = root[groups[h][1]]
          BY <3>1, <3>4 DEF Divided
        <4>2. ~(g < h) /\ ~(h < g)
          BY <4>1, <3>1 DEF Divided
        <4> QED
          BY <4>2, <3>3
      <3>5. GroupsInOrder(groups)
        <4>1. \A g, h \in DOMAIN groups :
                g < h => groups[g][1] < groups[h][1] /\ ToSet(groups[g]) \cap ToSet(groups[h]) = {}
          <5> SUFFICES ASSUME NEW g \in DOMAIN groups, NEW h \in DOMAIN groups, g < h
                       PROVE  ToSet(groups[g]) \cap ToSet(groups[h]) = {}
            BY <3>1 DEF Divided
          <5>1. g # h
            BY <3>3
          <5> QED
            BY <5>1, <3>4 DEF ToSet
        <4> QED
          BY <4>1, <3>1, <2>1 DEF GroupsInOrder, Divided
      <3>6. ASSUME NEW i \in Indices, NEW j \in Indices
            PROVE  (\E g \in DOMAIN groups : {i, j} \subseteq ToSet(groups[g])) <=> root[i] = root[j]
        <4>1. ASSUME NEW g \in DOMAIN groups, {i, j} \subseteq ToSet(groups[g])
              PROVE  root[i] = root[j]
          BY <4>1, <3>1 DEF Divided, ToSet
        <4>2. ASSUME root[i] = root[j]
              PROVE  \E g \in DOMAIN groups : {i, j} \subseteq ToSet(groups[g])
          <5>1. PICK g \in DOMAIN groups : \E m \in DOMAIN groups[g] : groups[g][m] = i
            BY <3>1, <2>1 DEF Divided
          <5>2. PICK h \in DOMAIN groups : \E k \in DOMAIN groups[h] : groups[h][k] = j
            BY <3>1, <2>1 DEF Divided
          <5>3. g = h
            BY <5>1, <5>2, <4>2, <3>4
          <5> QED
            BY <5>1, <5>2, <5>3 DEF ToSet
        <4> QED
          BY <4>1, <4>2
      <3>7. \A i, j \in DOMAIN hashes :
              (\E g \in DOMAIN groups : {i, j} \subseteq ToSet(groups[g]))
              <=> \A s \in Closed(Near) : i \in s => j \in s
        BY <2>1, <2>6, <3>2, <3>6
      <3> QED
        BY <3>5, <3>7 DEF groups
    <2> QED
      BY <2>1, <2>5, <2>6, <2>7 DEF ClustersAreComponents
  <1> QED
    BY <1>1, ClustersInitInv, ClustersNextInv, PTL DEF ClustersSpec

-----------------------------------------------------------------------------
(* The rankings.                                                           *)

\* The least member of a set of numbers is one of them.
LEMMA MinFacts ==
    ASSUME NEW S \in SUBSET Nat, S # {}
    PROVE  Min(S) \in S /\ \A m \in S : Min(S) <= m
  <1>1. \E n \in S : \A m \in S : n <= m
    BY LeastNumber
  <1> QED
    BY <1>1 DEF Min

\* An element goes to its place, and those behind it move on by one.
LEMMA InsertFacts ==
    ASSUME NEW X, NEW s \in Seq(X), NEW p \in 1 .. Len(s) + 1, NEW e \in X
    PROVE  /\ InsertAt(s, p, e) \in Seq(X) /\ Len(InsertAt(s, p, e)) = Len(s) + 1
           /\ \A i \in 1 .. Len(s) + 1 :
                 InsertAt(s, p, e)[i] = IF i < p THEN s[i] ELSE IF i = p THEN e ELSE s[i - 1]
  <1> DEFINE front == SubSeq(s, 1, p - 1)
             back == SubSeq(s, p, Len(s))
             l == Len(s)
  <1>1. l \in Nat /\ p \in Nat /\ p >= 1 /\ p <= l + 1
    OBVIOUS
  <1>2. front \in Seq(X) /\ Len(front) = p - 1 /\ \A i \in 1 .. p - 1 : front[i] = s[i]
    BY <1>1
  <1>3. /\ back \in Seq(X) /\ Len(back) = l + 1 - p
        /\ \A i \in 1 .. l + 1 - p : back[i] = s[p + i - 1]
    BY <1>1
  <1>4. InsertAt(s, p, e) = (front \o <<e>>) \o back
    BY DEF InsertAt
  <1> HIDE DEF front, back, l
  <1> DEFINE first == front \o <<e>>
  <1>5. /\ first \in Seq(X) /\ Len(first) = p
        /\ \A i \in 1 .. p : first[i] = IF i < p THEN s[i] ELSE e
    BY <1>1, <1>2
  <1> HIDE DEF first
  <1>6. /\ first \o back \in Seq(X) /\ Len(first \o back) = Len(first) + Len(back)
        /\ \A i \in 1 .. Len(first) + Len(back) :
              (first \o back)[i] = IF i <= Len(first) THEN first[i] ELSE back[i - Len(first)]
    BY <1>3, <1>5, ConcatProperties
  <1> DEFINE all == first \o back
  <1> HIDE DEF all
  <1>7. /\ all \in Seq(X) /\ Len(all) = l + 1
        /\ \A i \in 1 .. l + 1 : all[i] = IF i <= p THEN first[i] ELSE back[i - p]
    <2>1. Len(first) = p /\ Len(first) + Len(back) = l + 1
      BY <1>1, <1>3, <1>5
    <2> QED
      BY <2>1, <1>6 DEF all
  <1>8. ASSUME NEW i \in 1 .. l + 1
        PROVE  all[i] = IF i < p THEN s[i] ELSE IF i = p THEN e ELSE s[i - 1]
    <2>1. CASE i <= p
      <3>1. i \in 1 .. p /\ all[i] = first[i]
        BY <2>1, <1>1, <1>7
      <3> QED
        BY <3>1, <1>1, <1>5
    <2>2. CASE ~(i <= p)
      <3>1. i - p \in 1 .. l + 1 - p /\ p + (i - p) - 1 = i - 1 /\ ~(i < p) /\ i # p
        BY <2>2, <1>1
      <3>2. back[i - p] = s[i - 1]
        BY <3>1, <1>3
      <3>3. all[i] = back[i - p]
        BY <2>2, <1>7
      <3> QED
        BY <3>1, <3>2, <3>3
    <2> QED
      BY <2>1, <2>2
  <1>9. all = InsertAt(s, p, e)
    BY <1>4 DEF all, first
  <1> QED
    BY <1>7, <1>8, <1>9 DEF l

Account(U) == [user : U, total : Int, posts : Nat \ {0}]

\* Averages are compared without a division.
LEMMA AveragesTransitive ==
    ASSUME NEW U, NEW a \in Account(U), NEW b \in Account(U), NEW c \in Account(U),
           HigherAverage(a, b), ~HigherAverage(c, b)
    PROVE  HigherAverage(a, c)
  <1> DEFINE ta == a.total
             tb == b.total
             tc == c.total
             pa == a.posts
             pb == b.posts
             pc == c.posts
  <1>1. /\ ta \in Int /\ tb \in Int /\ tc \in Int
        /\ pa \in Nat \ {0} /\ pb \in Nat \ {0} /\ pc \in Nat \ {0}
    BY DEF Account
  <1>2. ta * pb > tb * pa /\ ~(tc * pb > tb * pc)
    BY DEF HigherAverage
  <1> SUFFICES ta * pc > tc * pa
    BY DEF HigherAverage
  <1> HIDE DEF ta, tb, tc, pa, pb, pc
  <1> SUFFICES ASSUME ta * pc <= tc * pa PROVE FALSE
    <2>1. ta * pc \in Int /\ tc * pa \in Int
      BY <1>1
    <2> QED
      BY <2>1
  <1>3. (ta * pc) * pb <= (tc * pa) * pb
    <2>1. ta * pc \in Int /\ tc * pa \in Int /\ pb \in Nat
      BY <1>1
    <2> QED
      BY <2>1, TimesMonotone
  <1>4. (tc * pb) * pa <= (tb * pc) * pa
    <2>1. tc * pb \in Int /\ tb * pc \in Int /\ pa \in Nat /\ tc * pb <= tb * pc
      BY <1>1, <1>2
    <2> QED
      BY <2>1, TimesMonotone
  <1>5. /\ (ta * pc) * pb = (ta * pb) * pc /\ (tc * pa) * pb = (tc * pb) * pa
        /\ (tb * pc) * pa = (tb * pa) * pc
    BY <1>1
  <1>6. (ta * pb) * pc <= (tb * pa) * pc
    <2>1. (ta * pc) * pb \in Int /\ (tc * pa) * pb \in Int /\ (tb * pc) * pa \in Int
      BY <1>1
    <2> QED
      BY <2>1, <1>3, <1>4, <1>5
  <1>7. ta * pb <= tb * pa
    <2>1. ta * pb \in Int /\ tb * pa \in Int
      BY <1>1
    <2> QED
      BY <2>1, <1>1, <1>6, TimesCancel
  <1>8. ta * pb \in Int /\ tb * pa \in Int
    BY <1>1
  <1> QED
    BY <1>2, <1>7, <1>8

\* Account k is above account l, or level with it and in front of it.
Before(accounts, k, l) ==
    \/ HigherAverage(accounts[k], accounts[l])
    \/ ~HigherAverage(accounts[l], accounts[k]) /\ k < l

\* The list holds the first n accounts, ordered; at[i] is the number of the i-th.
Orders(U, list, at, accounts, n) ==
    /\ at \in [1 .. n -> 1 .. n]
    /\ list \in Seq(Account(U)) /\ Len(list) = n
    /\ \A i \in 1 .. n : list[i] = accounts[at[i]]
    /\ \A i, j \in 1 .. n : i < j => at[i] # at[j] /\ Before(accounts, at[i], at[j])
    /\ \A k \in 1 .. n : \E i \in 1 .. n : at[i] = k

\* The next account is put where it belongs.
LEMMA PlaceFacts ==
    ASSUME NEW U, NEW accounts \in Seq(Account(U)), NEW n \in 1 .. Len(accounts),
           NEW list, NEW at, Orders(U, list, at, accounts, n - 1)
    PROVE  \E b : Orders(U, Place(list, accounts[n]), b, accounts, n)
  <1> DEFINE a == accounts[n]
             Fits == {m \in 1 .. n : m = n \/ HigherAverage(a, list[m])}
             p == Min(Fits)
             b == [i \in 1 .. n |-> IF i < p THEN at[i] ELSE IF i = p THEN n ELSE at[i - 1]]
             new == Place(list, a)
  <1>1. /\ n \in Nat /\ n >= 1 /\ Len(list) = n - 1 /\ Len(list) + 1 = n
        /\ list \in Seq(Account(U)) /\ at \in [1 .. n - 1 -> 1 .. n - 1]
        /\ a \in Account(U)
    <2>1. n \in Nat /\ n >= 1 /\ a \in Account(U)
      OBVIOUS
    <2>2. /\ Len(list) = n - 1 /\ list \in Seq(Account(U))
          /\ at \in [1 .. n - 1 -> 1 .. n - 1]
      BY DEF Orders
    <2> QED
      BY SMTT(30), <2>1, <2>2
  <1>2. \A k \in 1 .. n : accounts[k] \in Account(U)
    OBVIOUS
  <1>3. p \in 1 .. n /\ (p = n \/ HigherAverage(a, list[p])) /\ \A m \in Fits : p <= m
    <2>1. Fits \in SUBSET Nat /\ n \in Fits
      BY <1>1
    <2> HIDE DEF Fits
    <2>2. p \in Fits /\ \A m \in Fits : p <= m
      BY <2>1, MinFacts
    <2> QED
      BY <2>2 DEF Fits
  <1>4. new = InsertAt(list, p, a)
    BY <1>1 DEF Place
  <1> HIDE DEF p, a, new
  <1>5. ASSUME NEW m \in 1 .. n, m < p PROVE m # n /\ ~HigherAverage(a, list[m])
    BY <1>1, <1>3, <1>5
  <1> HIDE DEF Fits
  <1>6. /\ new \in Seq(Account(U)) /\ Len(new) = n
        /\ \A i \in 1 .. n : new[i] = IF i < p THEN list[i] ELSE IF i = p THEN a ELSE list[i - 1]
    <2>1. 1 .. Len(list) + 1 = 1 .. n
      BY <1>1
    <2>2. p \in 1 .. Len(list) + 1
      BY <1>3, <2>1
    <2>3. /\ InsertAt(list, p, a) \in Seq(Account(U)) /\ Len(InsertAt(list, p, a)) = Len(list) + 1
          /\ \A i \in 1 .. Len(list) + 1 : InsertAt(list, p, a)[i] =
                IF i < p THEN list[i] ELSE IF i = p THEN a ELSE list[i - 1]
      <3> DEFINE X == Account(U)
      <3>1. list \in Seq(X) /\ a \in X
        BY <1>1
      <3> HIDE DEF X
      <3>2. /\ InsertAt(list, p, a) \in Seq(X) /\ Len(InsertAt(list, p, a)) = Len(list) + 1
            /\ \A i \in 1 .. Len(list) + 1 : InsertAt(list, p, a)[i] =
                  IF i < p THEN list[i] ELSE IF i = p THEN a ELSE list[i - 1]
        BY <2>2, <3>1, InsertFacts
      <3> QED
        BY <3>2 DEF X
    <2> QED
      BY <2>1, <2>3, <1>1, <1>4
  <1>7. ASSUME NEW i \in 1 .. n
        PROVE  /\ i < p => i \in 1 .. n - 1 /\ b[i] = at[i] /\ new[i] = list[i]
               /\ i = p => b[i] = n /\ new[i] = a
               /\ i > p => i - 1 \in 1 .. n - 1 /\ b[i] = at[i - 1] /\ new[i] = list[i - 1]
               /\ i < p \/ i = p \/ i > p
               /\ b[i] \in 1 .. n
    <2>1. CASE i < p
      <3>1. i \in 1 .. n - 1
        BY <2>1, <1>1, <1>3
      <3>2. b[i] = at[i] /\ at[i] \in 1 .. n - 1
        BY <2>1, <3>1, <1>1
      <3>3. new[i] = list[i]
        BY <2>1, <1>6
      <3> HIDE DEF b
      <3>4. i # p /\ ~(i > p)
        BY <2>1, <1>3
      <3>5. b[i] \in 1 .. n
        BY <3>2, <1>1
      <3> QED
        BY <2>1, <3>1, <3>2, <3>3, <3>4, <3>5
    <2>2. CASE i = p
      BY <2>2, <1>1, <1>3, <1>6
    <2>3. CASE i > p
      <3>1. i - 1 \in 1 .. n - 1 /\ ~(i < p) /\ i # p
        BY <2>3, <1>1, <1>3
      <3>2. b[i] = at[i - 1] /\ at[i - 1] \in 1 .. n - 1
        BY <3>1, <1>1
      <3>3. new[i] = list[i - 1]
        BY <3>1, <1>6
      <3>4. b[i] \in 1 .. n
        <4> DEFINE e == at[i - 1]
        <4>1. e \in 1 .. n - 1
          BY <3>2
        <4> HIDE DEF e
        <4>2. e \in 1 .. n
          BY <4>1, <1>1
        <4> QED
          BY <4>2, <3>2 DEF e
      <3> HIDE DEF b
      <3> QED
        BY <2>3, <3>1, <3>2, <3>3, <3>4
    <2> QED
      BY <2>1, <2>2, <2>3, <1>1, <1>3
  <1>8. b \in [1 .. n -> 1 .. n]
    BY <1>7
  <1> HIDE DEF b
  <1>9. ASSUME NEW i \in 1 .. n - 1
        PROVE  at[i] \in 1 .. n - 1 /\ at[i] < n /\ list[i] = accounts[at[i]] /\ at[i] \in 1 .. n
    <2> DEFINE e == at[i]
    <2>1. e \in 1 .. n - 1 /\ list[i] = accounts[e]
      BY <1>1 DEF Orders
    <2> HIDE DEF e
    <2>2. e < n /\ e \in 1 .. n
      BY <2>1, <1>1
    <2> QED
      BY <2>1, <2>2 DEF e
  <1>10. ASSUME NEW i \in 1 .. n - 1, NEW j \in 1 .. n - 1, i < j
         PROVE  at[i] # at[j] /\ Before(accounts, at[i], at[j])
    BY <1>10 DEF Orders
  <1>11. ASSUME NEW i \in 1 .. n PROVE new[i] = accounts[b[i]]
    BY SMTT(30), <1>7, <1>9 DEF a
  <1>12. ASSUME NEW i \in 1 .. n - 1, p <= i
         PROVE  HigherAverage(a, list[i])
    <2>1. p \in 1 .. n - 1 /\ HigherAverage(a, list[p])
      BY SMTT(30), <1>1, <1>3, <1>12
    <2>2. CASE i = p
      BY <2>1, <2>2
    <2>3. CASE i # p
      <3>1. p < i
        BY <2>1, <2>3, <1>12
      <3>2. Before(accounts, at[p], at[i])
        BY <2>1, <3>1, <1>10
      <3>3. ~HigherAverage(accounts[at[i]], accounts[at[p]])
        <4> DEFINE x == accounts[at[p]]
                   y == accounts[at[i]]
        <4>1. x \in Account(U) /\ y \in Account(U)
          BY <2>1, <1>2, <1>9
        <4> HIDE DEF x, y
        <4>2. HigherAverage(x, y) => ~HigherAverage(y, x)
          <5>1. /\ x.total \in Int /\ y.total \in Int /\ x.posts \in Nat /\ y.posts \in Nat
            BY <4>1 DEF Account
          <5>2. x.total * y.posts \in Int /\ y.total * x.posts \in Int
            BY <5>1
          <5> QED
            BY <5>2 DEF HigherAverage
        <4> QED
          BY <3>2, <4>2 DEF Before, x, y
      <3>4. /\ list[p] = accounts[at[p]] /\ list[i] = accounts[at[i]]
            /\ list[p] \in Account(U) /\ list[i] \in Account(U) /\ a \in Account(U)
        BY <2>1, <1>2, <1>9 DEF a
      <3> QED
        BY <2>1, <3>3, <3>4, AveragesTransitive
    <2> QED
      BY <2>2, <2>3
  <1>13. ASSUME NEW i \in 1 .. n, NEW j \in 1 .. n, i < j
         PROVE  b[i] # b[j] /\ Before(accounts, b[i], b[j])
    <2>1. CASE j < p
      <3>1. i < p
        BY <2>1, <1>3, <1>13
      <3> QED
        BY <2>1, <3>1, <1>7, <1>10, <1>13
    <2>2. CASE j = p
      <3>1. i < p
        BY <2>2, <1>3, <1>13
      <3>2. b[i] = at[i] /\ b[j] = n /\ i \in 1 .. n - 1
        BY <2>2, <3>1, <1>7
      <3>3. ~HigherAverage(accounts[n], accounts[at[i]])
        BY <3>1, <3>2, <1>5, <1>9 DEF a
      <3> QED
        BY <3>2, <3>3, <1>1, <1>9 DEF Before
    <2>3. CASE j > p
      <3>1. b[j] = at[j - 1] /\ j - 1 \in 1 .. n - 1
        BY <2>3, <1>7
      <3>2. CASE i < p
        <4>1. b[i] = at[i] /\ i \in 1 .. n - 1 /\ i < j - 1
          BY <3>1, <3>2, <2>3, <1>3, <1>7
        <4> QED
          BY <3>1, <4>1, <1>10
      <3>3. CASE i = p
        <4>1. b[i] = n /\ p <= j - 1
          BY <3>3, <2>3, <1>3, <1>7
        <4>2. HigherAverage(accounts[n], accounts[at[j - 1]])
          BY <3>1, <4>1, <1>9, <1>12 DEF a
        <4> QED
          BY <3>1, <4>1, <4>2, <1>1, <1>9 DEF Before
      <3>4. CASE i > p
        <4>1. b[i] = at[i - 1] /\ i - 1 \in 1 .. n - 1 /\ i - 1 < j - 1
          BY <3>4, <1>7, <1>13
        <4> QED
          BY <3>1, <4>1, <1>10
      <3> QED
        BY <3>2, <3>3, <3>4, <1>7
    <2> QED
      BY <2>1, <2>2, <2>3, <1>7
  <1>14. ASSUME NEW k \in 1 .. n PROVE \E i \in 1 .. n : b[i] = k
    <2>1. CASE k = n
      BY <2>1, <1>3, <1>7
    <2>2. CASE k # n
      <3>1. k \in 1 .. n - 1
        BY <2>2, <1>1
      <3>2. PICK i \in 1 .. n - 1 : at[i] = k
        BY <3>1 DEF Orders
      <3>3. CASE i < p
        <4>1. i \in 1 .. n
          BY <1>1
        <4> QED
          BY <3>2, <3>3, <4>1, <1>7
      <3>4. CASE i >= p
        <4>1. i + 1 \in 1 .. n /\ i + 1 > p /\ (i + 1) - 1 = i
          BY <3>4, <1>1, <1>3
        <4> QED
          BY <3>2, <4>1, <1>7
      <3> QED
        BY <3>3, <3>4, <1>3
    <2> QED
      BY <2>1, <2>2
  <1>15. Orders(U, new, b, accounts, n)
    BY <1>6, <1>8, <1>11, <1>13, <1>14 DEF Orders
  <1> QED
    BY <1>15 DEF new, a

\* Placed one after another all accounts are ordered.
LEMMA SortedFacts ==
    ASSUME NEW U, NEW accounts \in Seq(Account(U))
    PROVE  \E at : Orders(U, Sorted(accounts), at, accounts, Len(accounts))
  <1> DEFINE N == Len(accounts)
             placed[n \in 0 .. N] == IF n = 0 THEN <<>> ELSE Place(placed[n - 1], accounts[n])
  <1>1. Sorted(accounts) = placed[N]
    BY DEF Sorted
  <1>2. \A n \in 0 .. N : placed[n] = IF n = 0 THEN <<>> ELSE Place(placed[n - 1], accounts[n])
    <2> DEFINE Good(m, g) == g = [n \in 0 .. m |-> IF n = 0 THEN <<>> ELSE Place(g[n - 1], accounts[n])]
               Bad == {m \in 0 .. N : ~\E g : Good(m, g)}
    <2>1. Bad \in SUBSET Nat
      OBVIOUS
    <2>2. ASSUME Bad # {} PROVE FALSE
      <3>1. PICK m \in Bad : \A k \in Bad : m <= k
        <4> HIDE DEF Bad
        <4> QED
          BY <2>1, <2>2, LeastNumber
      <3>2. m # 0
        <4> SUFFICES ASSUME m = 0 PROVE FALSE
          OBVIOUS
        <4>1. Good(0, [n \in 0 .. 0 |-> <<>>])
          OBVIOUS
        <4> QED
          BY <3>1, <4>1
      <3>3. PICK g : Good(m - 1, g)
        <4>1. m - 1 \in 0 .. N /\ m - 1 \notin Bad
          <5>1. m \in 0 .. N /\ ~(m <= m - 1)
            BY <3>1
          <5>2. m - 1 \in 0 .. N
            BY <5>1, <3>2
          <5> HIDE DEF Bad
          <5> QED
            BY <5>1, <5>2, <3>1
        <4> HIDE DEF Good
        <4> QED
          BY <4>1
      <3>4. Good(m, [n \in 0 .. m |-> IF n = 0 THEN <<>> ELSE Place(g[n - 1], accounts[n])])
        <4> DEFINE h == [n \in 0 .. m |-> IF n = 0 THEN <<>> ELSE Place(g[n - 1], accounts[n])]
        <4>1. ASSUME NEW n \in 0 .. m - 1 PROVE h[n] = g[n]
          <5>1. g[n] = IF n = 0 THEN <<>> ELSE Place(g[n - 1], accounts[n])
            BY <3>3
          <5>2. n \in 0 .. m
            BY <3>1, <3>2
          <5> QED
            BY <5>1, <5>2
        <4>2. \A n \in 0 .. m : n # 0 => h[n - 1] = g[n - 1]
          <5> HIDE DEF h
          <5> QED
            BY <4>1, <3>1
        <4> QED
          BY <4>2
      <3> QED
        BY <3>1, <3>4
    <2>3. PICK g : Good(N, g)
      <3>1. N \in 0 .. N
        OBVIOUS
      <3> QED
        BY <2>2, <3>1
    <2>4. placed = [n \in 0 .. N |-> IF n = 0 THEN <<>> ELSE Place(placed[n - 1], accounts[n])]
      BY <2>3
    <2> HIDE DEF placed
    <2> QED
      BY <2>4
  <1> HIDE DEF placed
  <1> DEFINE Ordered(n) == \E at : Orders(U, placed[n], at, accounts, n)
             Bad == {n \in 0 .. N : ~Ordered(n)}
  <1>3. Bad \in SUBSET Nat
    OBVIOUS
  <1>4. ASSUME Bad # {} PROVE FALSE
    <2>1. PICK n \in Bad : \A k \in Bad : n <= k
      <3> HIDE DEF Bad
      <3> QED
        BY <1>3, <1>4, LeastNumber
    <2>2. n \in 0 .. N /\ ~Ordered(n)
      BY <2>1
    <2>3. CASE n = 0
      <3>1. placed[0] = <<>>
        BY <1>2
      <3>2. Orders(U, <<>>, [i \in 1 .. 0 |-> i], accounts, 0)
        BY DEF Orders
      <3> QED
        BY <2>2, <2>3, <3>1, <3>2
    <2>4. CASE n # 0
      <3>1. n - 1 \in 0 .. N /\ n \in 1 .. N
        BY <2>2, <2>4
      <3>2. Ordered(n - 1)
        BY SMTT(30), <2>1, <2>2, <3>1
      <3>3. PICK at : Orders(U, placed[n - 1], at, accounts, n - 1)
        BY <3>2
      <3>4. placed[n] = Place(placed[n - 1], accounts[n])
        BY <1>2, <2>2, <2>4
      <3>5. Ordered(n)
        BY <3>1, <3>3, <3>4, PlaceFacts
      <3> QED
        BY <2>2, <3>5
    <2> QED
      BY <2>3, <2>4
  <1>5. N \in 0 .. N
    OBVIOUS
  <1>6. Ordered(N)
    BY <1>4, <1>5
  <1> QED
    BY <1>1, <1>6

Item(U) == [user : U, score : Int]

\* What u's first posts score together.
Sums(scored, u) ==
    LET total[n \in 0 .. Len(scored)] ==
            IF n = 0 THEN 0
            ELSE total[n - 1] + (IF scored[n].user = u THEN scored[n].score ELSE 0)
    IN total

\* The numbers of u's posts among the first n.
UpTo(scored, n, u) == {i \in 1 .. n : scored[i].user = u}

\* The sums go up post by post, and are zero before u's first one.
LEMMA SumsFacts ==
    ASSUME NEW U, NEW scored \in Seq(Item(U)), NEW u, NEW n \in 0 .. Len(scored)
    PROVE  /\ Sums(scored, u)[n] \in Int
           /\ UpTo(scored, n, u) = {} => Sums(scored, u)[n] = 0
           /\ n # 0 => Sums(scored, u)[n] =
                 Sums(scored, u)[n - 1] + (IF scored[n].user = u THEN scored[n].score ELSE 0)
  <1> DEFINE N == Len(scored)
             total[k \in 0 .. N] ==
                 IF k = 0 THEN 0
                 ELSE total[k - 1] + (IF scored[k].user = u THEN scored[k].score ELSE 0)
  <1>1. Sums(scored, u) = total
    BY DEF Sums
  <1>2. \A k \in 0 .. N : total[k] =
           IF k = 0 THEN 0 ELSE total[k - 1] + (IF scored[k].user = u THEN scored[k].score ELSE 0)
    <2> DEFINE Good(m, g) == g = [k \in 0 .. m |-> IF k = 0 THEN 0 ELSE g[k - 1] + (IF scored[k].user = u THEN scored[k].score ELSE 0)]
               Bad == {m \in 0 .. N : ~\E g : Good(m, g)}
    <2>1. Bad \in SUBSET Nat
      OBVIOUS
    <2>2. ASSUME Bad # {} PROVE FALSE
      <3>1. PICK m \in Bad : \A l \in Bad : m <= l
        <4> HIDE DEF Bad
        <4> QED
          BY <2>1, <2>2, LeastNumber
      <3>2. m # 0
        <4> SUFFICES ASSUME m = 0 PROVE FALSE
          OBVIOUS
        <4>1. Good(0, [k \in 0 .. 0 |-> 0])
          OBVIOUS
        <4> QED
          BY <3>1, <4>1
      <3>3. PICK g : Good(m - 1, g)
        <4>1. m - 1 \in 0 .. N /\ m - 1 \notin Bad
          <5>1. m \in 0 .. N /\ ~(m <= m - 1)
            BY <3>1
          <5>2. m - 1 \in 0 .. N
            BY <5>1, <3>2
          <5> HIDE DEF Bad
          <5> QED
            BY <5>1, <5>2, <3>1
        <4> HIDE DEF Good
        <4> QED
          BY <4>1
      <3>4. Good(m, [k \in 0 .. m |-> IF k = 0 THEN 0 ELSE g[k - 1] + (IF scored[k].user = u THEN scored[k].score ELSE 0)])
        <4> DEFINE h == [k \in 0 .. m |-> IF k = 0 THEN 0 ELSE g[k - 1] + (IF scored[k].user = u THEN scored[k].score ELSE 0)]
        <4>1. ASSUME NEW k \in 0 .. m - 1 PROVE h[k] = g[k]
          <5>1. g[k] = IF k = 0 THEN 0 ELSE g[k - 1] + (IF scored[k].user = u THEN scored[k].score ELSE 0)
            BY <3>3
          <5>2. k \in 0 .. m
            BY <3>1, <3>2
          <5> QED
            BY <5>1, <5>2
        <4>2. \A k \in 0 .. m : k # 0 => h[k - 1] = g[k - 1]
          <5> HIDE DEF h
          <5> QED
            BY <4>1, <3>1
        <4> QED
          BY <4>2
      <3> QED
        BY <3>1, <3>4
    <2>3. PICK g : Good(N, g)
      <3>1. N \in 0 .. N
        OBVIOUS
      <3> QED
        BY <2>2, <3>1
    <2>4. total = [k \in 0 .. N |-> IF k = 0 THEN 0 ELSE total[k - 1] + (IF scored[k].user = u THEN scored[k].score ELSE 0)]
      BY <2>3
    <2> HIDE DEF total
    <2> QED
      BY <2>4
  <1> HIDE DEF total
  <1> DEFINE Facts(k) == total[k] \in Int /\ (UpTo(scored, k, u) = {} => total[k] = 0)
             Bad == {k \in 0 .. N : ~Facts(k)}
  <1>3. Bad \in SUBSET Nat
    OBVIOUS
  <1>4. ASSUME Bad # {} PROVE FALSE
    <2>1. PICK m \in Bad : \A k \in Bad : m <= k
      <3> HIDE DEF Bad
      <3> QED
        BY <1>3, <1>4, LeastNumber
    <2>2. m \in 0 .. N /\ ~Facts(m)
      BY <2>1
    <2>3. CASE m = 0
      BY <1>2, <2>2, <2>3
    <2>4. CASE m # 0
      <3>1. m - 1 \in 0 .. N /\ m \in 1 .. N /\ scored[m].score \in Int
        <4>1. m - 1 \in 0 .. N /\ m \in 1 .. N
          BY <2>2, <2>4
        <4>2. scored[m] \in Item(U)
          BY <4>1
        <4> QED
          BY <4>1, <4>2 DEF Item
      <3>2. Facts(m - 1)
        BY <2>1, <2>2, <3>1
      <3>3. total[m] = total[m - 1] + (IF scored[m].user = u THEN scored[m].score ELSE 0)
        BY <1>2, <2>2, <2>4
      <3>4. UpTo(scored, m, u) = {} => UpTo(scored, m - 1, u) = {} /\ scored[m].user # u
        BY <3>1 DEF UpTo
      <3>5. Facts(m)
        BY <3>1, <3>2, <3>3, <3>4
      <3> QED
        BY <2>2, <3>5
    <2> QED
      BY <2>3, <2>4
  <1> QED
    BY <1>1, <1>2, <1>4

\* The accounts of the first n posts: their sums and numbers, in the order of
\* their first posts.
Collected(U, accounts, scored, n) ==
    /\ accounts \in Seq(Account(U))
    /\ \A k \in DOMAIN accounts :
          /\ accounts[k].total = Sums(scored, accounts[k].user)[n]
          /\ accounts[k].posts = Cardinality(UpTo(scored, n, accounts[k].user))
          /\ \E i \in 1 .. n : scored[i].user = accounts[k].user
    /\ \A k, l \in DOMAIN accounts : k < l =>
          \E i \in 1 .. n : /\ scored[i].user = accounts[k].user
                            /\ \A j \in 1 .. n : scored[j].user = accounts[l].user => i < j
    /\ \A i \in 1 .. n : \E k \in DOMAIN accounts : accounts[k].user = scored[i].user

\* A post is among its author's, and no one else's.
LEMMA UpToFacts ==
    ASSUME NEW scored, NEW n \in Nat, n >= 1, NEW u
    PROVE  /\ IsFiniteSet(UpTo(scored, n, u)) /\ Cardinality(UpTo(scored, n, u)) \in Nat
           /\ scored[n].user # u => UpTo(scored, n, u) = UpTo(scored, n - 1, u)
           /\ scored[n].user = u =>
                 Cardinality(UpTo(scored, n, u)) = Cardinality(UpTo(scored, n - 1, u)) + 1
           /\ Cardinality(UpTo(scored, n - 1, u)) \in Nat
           /\ UpTo(scored, n - 1, u) = {} => Cardinality(UpTo(scored, n - 1, u)) = 0
  <1> DEFINE old == UpTo(scored, n - 1, u)
             new == UpTo(scored, n, u)
  <1>1. ASSUME NEW m \in Nat PROVE IsFiniteSet(UpTo(scored, m, u))
    <2>1. IsFiniteSet(1 .. m)
      <3>1. 1 \in Int /\ m \in Int
        OBVIOUS
      <3> QED
        BY <3>1, FS_Interval
    <2>2. UpTo(scored, m, u) \subseteq 1 .. m
      BY DEF UpTo
    <2> QED
      BY <2>1, <2>2, FS_Subset
  <1>2. IsFiniteSet(old) /\ IsFiniteSet(new)
    <2>1. n - 1 \in Nat
      OBVIOUS
    <2> QED
      BY <2>1, <1>1
  <1>3. Cardinality(old) \in Nat /\ Cardinality(new) \in Nat
    BY <1>2, FS_CardinalityType
  <1>4. scored[n].user # u => new = old
    BY DEF UpTo
  <1>5. scored[n].user = u => new = old \cup {n} /\ n \notin old
    BY DEF UpTo
  <1>6. scored[n].user = u => Cardinality(new) = Cardinality(old) + 1
    BY <1>2, <1>5, FS_AddElement
  <1>7. old = {} => Cardinality(old) = 0
    BY FS_EmptySet
  <1> QED
    BY <1>2, <1>3, <1>4, <1>6, <1>7

\* A post goes to the account of its author.
LEMMA CreditFacts ==
    ASSUME NEW U, NEW scored \in Seq(Item(U)), NEW n \in 1 .. Len(scored), NEW accounts,
           Collected(U, accounts, scored, n - 1)
    PROVE  Collected(U, Credit(accounts, scored[n]), scored, n)
  <1> DEFINE item == scored[n]
             own(k) == accounts[k].user = item.user
             new == Credit(accounts, item)
  <1>1. /\ n \in Nat /\ n >= 1 /\ n \in 0 .. Len(scored) /\ n - 1 \in 0 .. Len(scored) /\ n # 0
        /\ item.user \in U /\ item.score \in Int
    <2>1. n \in Nat /\ n >= 1 /\ n \in 0 .. Len(scored) /\ n - 1 \in 0 .. Len(scored) /\ n # 0
      OBVIOUS
    <2>2. item \in Item(U)
      OBVIOUS
    <2> QED
      BY <2>1, <2>2 DEF Item
  <1>2. /\ accounts \in Seq(Account(U)) /\ DOMAIN accounts = 1 .. Len(accounts)
        /\ Len(accounts) \in Nat
    BY DEF Collected
  <1>3. ASSUME NEW k \in DOMAIN accounts
        PROVE  /\ accounts[k] \in Account(U)
               /\ accounts[k].user \in U /\ accounts[k].total \in Int
               /\ accounts[k].posts \in Nat \ {0}
               /\ accounts[k].total = Sums(scored, accounts[k].user)[n - 1]
               /\ accounts[k].posts = Cardinality(UpTo(scored, n - 1, accounts[k].user))
               /\ \E i \in 1 .. n - 1 : scored[i].user = accounts[k].user
    <2>1. accounts[k] \in Account(U)
      BY <1>2
    <2> QED
      BY <2>1 DEF Collected, Account
  <1>4. ASSUME NEW u
        PROVE  /\ Sums(scored, u)[n] =
                     Sums(scored, u)[n - 1] + (IF item.user = u THEN item.score ELSE 0)
               /\ Sums(scored, u)[n - 1] \in Int
               /\ UpTo(scored, n - 1, u) = {} => Sums(scored, u)[n - 1] = 0
    BY <1>1, SumsFacts
  <1>5. \A i \in 1 .. n - 1 : i \in 1 .. n /\ i < n
    BY <1>1
  <1>6. \A i \in 1 .. n : i = n \/ i \in 1 .. n - 1
    BY <1>1
  <1>7. n \in 1 .. n
    BY <1>1
  <1> HIDE DEF item
  <1>8. CASE \E k \in DOMAIN accounts : own(k)
    <2>1. new = [k \in DOMAIN accounts |->
                    IF own(k) THEN [accounts[k] EXCEPT !.total = @ + item.score, !.posts = @ + 1]
                    ELSE accounts[k]]
      BY <1>8 DEF Credit
    <2> HIDE DEF new
    <2>2. DOMAIN new = DOMAIN accounts
      BY <2>1
    <2>3. ASSUME NEW k \in DOMAIN accounts
          PROVE  /\ new[k] \in Account(U) /\ new[k].user = accounts[k].user
                 /\ new[k].total = Sums(scored, accounts[k].user)[n]
                 /\ new[k].posts = Cardinality(UpTo(scored, n, accounts[k].user))
      <3>1. CASE own(k)
        <4>1. new[k] = [accounts[k] EXCEPT !.total = @ + item.score, !.posts = @ + 1]
          BY <2>1, <3>1
        <4>2. /\ new[k].user = accounts[k].user /\ new[k].total = accounts[k].total + item.score
              /\ new[k].posts = accounts[k].posts + 1
              /\ new[k] \in Account(U)
          <5> DEFINE a == accounts[k]
          <5>1. a \in [user : U, total : Int, posts : Nat \ {0}]
            BY <1>3 DEF Account
          <5>2. new[k] = [a EXCEPT !.total = a.total + item.score, !.posts = a.posts + 1]
            BY <4>1
          <5> HIDE DEF a
          <5>3. a.total + item.score \in Int /\ a.posts + 1 \in Nat \ {0}
            BY <1>1, <5>1
          <5>4. /\ new[k].user = a.user /\ new[k].total = a.total + item.score
                /\ new[k].posts = a.posts + 1
            BY <5>1, <5>2
          <5>5. new[k] \in [user : U, total : Int, posts : Nat \ {0}]
            BY <5>1, <5>2, <5>3
          <5> QED
            BY <5>4, <5>5 DEF a, Account
        <4>3. Sums(scored, accounts[k].user)[n] = accounts[k].total + item.score
          BY <3>1, <1>3, <1>4
        <4>4. Cardinality(UpTo(scored, n, accounts[k].user)) = accounts[k].posts + 1
          BY SMTT(30), <3>1, <1>1, <1>3, UpToFacts DEF item
        <4> QED
          BY <4>2, <4>3, <4>4
      <3>2. CASE ~own(k)
        <4>1. new[k] = accounts[k]
          BY <2>1, <3>2
        <4>2. Sums(scored, accounts[k].user)[n] = accounts[k].total
          BY <3>2, <1>3, <1>4
        <4>3. Cardinality(UpTo(scored, n, accounts[k].user)) = accounts[k].posts
          BY SMTT(30), <3>2, <1>1, <1>3, UpToFacts DEF item
        <4> QED
          BY <4>1, <4>2, <4>3, <1>3
      <3> QED
        BY <3>1, <3>2
    <2>4. new \in Seq(Account(U))
      <3>1. new \in [1 .. Len(accounts) -> Account(U)]
        BY <1>2, <2>1, <2>2, <2>3
      <3> QED
        BY <3>1, <1>2
    <2>5. ASSUME NEW k \in DOMAIN new
          PROVE  \E i \in 1 .. n : scored[i].user = new[k].user
      BY <1>3, <1>5, <2>2, <2>3
    <2>6. ASSUME NEW k \in DOMAIN new, NEW l \in DOMAIN new, k < l
          PROVE  \E i \in 1 .. n : /\ scored[i].user = new[k].user
                                   /\ \A j \in 1 .. n : scored[j].user = new[l].user => i < j
      <3>1. PICK i \in 1 .. n - 1 :
                    /\ scored[i].user = accounts[k].user
                    /\ \A j \in 1 .. n - 1 : scored[j].user = accounts[l].user => i < j
        BY <2>2, <2>6 DEF Collected
      <3>2. \A j \in 1 .. n : scored[j].user = accounts[l].user => i < j
        BY <3>1, <1>5, <1>6
      <3> QED
        BY <3>1, <3>2, <1>5, <2>2, <2>3
    <2>7. ASSUME NEW i \in 1 .. n
          PROVE  \E k \in DOMAIN new : new[k].user = scored[i].user
      <3>1. CASE i = n
        BY <3>1, <1>8, <2>2, <2>3 DEF item
      <3>2. CASE i \in 1 .. n - 1
        <4>1. PICK k \in DOMAIN accounts : accounts[k].user = scored[i].user
          BY <3>2 DEF Collected
        <4> QED
          BY <4>1, <2>2, <2>3
      <3> QED
        BY <3>1, <3>2, <1>6
    <2>8. Collected(U, new, scored, n)
      BY <2>2, <2>3, <2>4, <2>5, <2>6, <2>7 DEF Collected
    <2> QED
      BY <2>8 DEF new, item
  <1>9. CASE ~\E k \in DOMAIN accounts : own(k)
    <2> DEFINE l == Len(accounts)
               fresh == [user |-> item.user, total |-> item.score, posts |-> 1]
    <2>1. new = Append(accounts, fresh)
      BY <1>9 DEF Credit
    <2>2. fresh \in Account(U)
      BY <1>1 DEF Account
    <2>3. fresh.user = item.user /\ fresh.total = item.score /\ fresh.posts = 1
      OBVIOUS
    <2> HIDE DEF new, fresh
    <2>4. /\ new \in Seq(Account(U)) /\ DOMAIN new = 1 .. l + 1 /\ new[l + 1] = fresh
          /\ \A k \in 1 .. l : new[k] = accounts[k]
      BY <1>2, <2>1, <2>2
    <2>5. l \in Nat /\ DOMAIN accounts = 1 .. l
      BY <1>2
    <2> HIDE DEF l
    <2>6. /\ l + 1 \in DOMAIN new /\ \A k \in 1 .. l : k \in DOMAIN new
          /\ \A k \in DOMAIN new : k \in 1 .. l \/ k = l + 1
          /\ \A k \in 1 .. l : k \in DOMAIN accounts /\ ~own(k)
      BY <1>9, <2>4, <2>5
    <2>7. \A i \in 1 .. n - 1 : scored[i].user # item.user
      BY <1>9 DEF Collected
    <2>8. UpTo(scored, n - 1, item.user) = {}
      BY <2>7 DEF UpTo
    <2>9. ASSUME NEW k \in DOMAIN new
          PROVE  /\ new[k].total = Sums(scored, new[k].user)[n]
                 /\ new[k].posts = Cardinality(UpTo(scored, n, new[k].user))
                 /\ \E i \in 1 .. n : scored[i].user = new[k].user
      <3>1. CASE k \in 1 .. l
        <4>1. new[k] = accounts[k] /\ k \in DOMAIN accounts /\ accounts[k].user # item.user
          BY <3>1, <2>4, <2>6
        <4>2. Sums(scored, accounts[k].user)[n] = accounts[k].total
          BY <4>1, <1>3, <1>4
        <4>3. Cardinality(UpTo(scored, n, accounts[k].user)) = accounts[k].posts
          BY <4>1, <1>1, <1>3, UpToFacts DEF item
        <4> QED
          BY <4>1, <4>2, <4>3, <1>3, <1>5
      <3>2. CASE k = l + 1
        <4>1. new[k].user = item.user /\ new[k].total = item.score /\ new[k].posts = 1
          BY <3>2, <2>3, <2>4
        <4>2. Sums(scored, item.user)[n] = item.score
          BY <2>8, <1>1, <1>4
        <4>3. Cardinality(UpTo(scored, n, item.user)) = 1
          BY <2>8, <1>1, UpToFacts DEF item
        <4>4. scored[n].user = item.user
          BY DEF item
        <4> QED
          BY <4>1, <4>2, <4>3, <4>4, <1>7
      <3> QED
        BY <3>1, <3>2, <2>6
    <2>10. ASSUME NEW k \in DOMAIN new, NEW m \in DOMAIN new, k < m
           PROVE  \E i \in 1 .. n : /\ scored[i].user = new[k].user
                                    /\ \A j \in 1 .. n : scored[j].user = new[m].user => i < j
      <3>1. k \in 1 .. l
        BY <2>4, <2>5, <2>6, <2>10
      <3>2. CASE m \in 1 .. l
        <4>1. PICK i \in 1 .. n - 1 :
                      /\ scored[i].user = accounts[k].user
                      /\ \A j \in 1 .. n - 1 : scored[j].user = accounts[m].user => i < j
          <5>1. k \in DOMAIN accounts /\ m \in DOMAIN accounts
            BY <3>1, <3>2, <2>6
          <5>2. \A x, y \in DOMAIN accounts : x < y =>
                   \E i \in 1 .. n - 1 :
                      /\ scored[i].user = accounts[x].user
                      /\ \A j \in 1 .. n - 1 : scored[j].user = accounts[y].user => i < j
            BY DEF Collected
          <5> QED
            BY <5>1, <5>2, <2>10
        <4>2. \A j \in 1 .. n : scored[j].user = accounts[m].user => i < j
          BY <4>1, <1>5, <1>6
        <4> QED
          BY <3>1, <3>2, <4>1, <4>2, <1>5, <2>4
      <3>3. CASE m = l + 1
        <4>1. PICK i \in 1 .. n - 1 : scored[i].user = accounts[k].user
          BY <3>1, <1>3, <2>6
        <4>2. \A j \in 1 .. n : scored[j].user = item.user => i < j
          BY <2>7, <1>5, <1>6
        <4> QED
          BY <3>1, <3>3, <4>1, <4>2, <1>5, <2>3, <2>4
      <3> QED
        BY <3>2, <3>3, <2>6
    <2>11. ASSUME NEW i \in 1 .. n
           PROVE  \E k \in DOMAIN new : new[k].user = scored[i].user
      <3>1. CASE i = n
        BY <3>1, <2>3, <2>4, <2>6 DEF item
      <3>2. CASE i \in 1 .. n - 1
        <4>1. PICK k \in DOMAIN accounts : accounts[k].user = scored[i].user
          BY <3>2 DEF Collected
        <4> QED
          BY <4>1, <2>4, <2>5, <2>6
      <3> QED
        BY <3>1, <3>2, <1>6
    <2>12. Collected(U, new, scored, n)
      BY <2>4, <2>9, <2>10, <2>11 DEF Collected
    <2> QED
      BY <2>12 DEF new, item
  <1> QED
    BY <1>8, <1>9

\* Collected one after another.
LEMMA CollectFacts ==
    ASSUME NEW U, NEW scored \in Seq(Item(U))
    PROVE  Collected(U, Collect(scored), scored, Len(scored))
  <1> DEFINE N == Len(scored)
             after[n \in 0 .. N] == IF n = 0 THEN <<>> ELSE Credit(after[n - 1], scored[n])
  <1>1. Collect(scored) = after[N]
    BY DEF Collect
  <1>2. \A n \in 0 .. N : after[n] = IF n = 0 THEN <<>> ELSE Credit(after[n - 1], scored[n])
    <2> DEFINE Good(m, g) == g = [n \in 0 .. m |-> IF n = 0 THEN <<>> ELSE Credit(g[n - 1], scored[n])]
               Bad == {m \in 0 .. N : ~\E g : Good(m, g)}
    <2>1. Bad \in SUBSET Nat
      OBVIOUS
    <2>2. ASSUME Bad # {} PROVE FALSE
      <3>1. PICK m \in Bad : \A k \in Bad : m <= k
        <4> HIDE DEF Bad
        <4> QED
          BY <2>1, <2>2, LeastNumber
      <3>2. m # 0
        <4> SUFFICES ASSUME m = 0 PROVE FALSE
          OBVIOUS
        <4>1. Good(0, [n \in 0 .. 0 |-> <<>>])
          OBVIOUS
        <4> QED
          BY <3>1, <4>1
      <3>3. PICK g : Good(m - 1, g)
        <4>1. m - 1 \in 0 .. N /\ m - 1 \notin Bad
          <5>1. m \in 0 .. N /\ ~(m <= m - 1)
            BY <3>1
          <5>2. m - 1 \in 0 .. N
            BY <5>1, <3>2
          <5> HIDE DEF Bad
          <5> QED
            BY <5>1, <5>2, <3>1
        <4> HIDE DEF Good
        <4> QED
          BY <4>1
      <3>4. Good(m, [n \in 0 .. m |-> IF n = 0 THEN <<>> ELSE Credit(g[n - 1], scored[n])])
        <4> DEFINE h == [n \in 0 .. m |-> IF n = 0 THEN <<>> ELSE Credit(g[n - 1], scored[n])]
        <4>1. ASSUME NEW n \in 0 .. m - 1 PROVE h[n] = g[n]
          <5>1. g[n] = IF n = 0 THEN <<>> ELSE Credit(g[n - 1], scored[n])
            BY <3>3
          <5>2. n \in 0 .. m
            BY <3>1, <3>2
          <5> QED
            BY <5>1, <5>2
        <4>2. \A n \in 0 .. m : n # 0 => h[n - 1] = g[n - 1]
          <5> HIDE DEF h
          <5> QED
            BY <4>1, <3>1
        <4> QED
          BY <4>2
      <3> QED
        BY <3>1, <3>4
    <2>3. PICK g : Good(N, g)
      <3>1. N \in 0 .. N
        OBVIOUS
      <3> QED
        BY <2>2, <3>1
    <2>4. after = [n \in 0 .. N |-> IF n = 0 THEN <<>> ELSE Credit(after[n - 1], scored[n])]
      BY <2>3
    <2> HIDE DEF after
    <2> QED
      BY <2>4
  <1> HIDE DEF after
  <1> DEFINE Good(n) == Collected(U, after[n], scored, n)
             Bad == {n \in 0 .. N : ~Good(n)}
  <1>3. Bad \in SUBSET Nat
    OBVIOUS
  <1>4. ASSUME Bad # {} PROVE FALSE
    <2>1. PICK n \in Bad : \A k \in Bad : n <= k
      <3> HIDE DEF Bad
      <3> QED
        BY <1>3, <1>4, LeastNumber
    <2>2. n \in 0 .. N /\ ~Good(n)
      BY <2>1
    <2>3. CASE n = 0
      <3>1. after[0] = <<>>
        BY <1>2
      <3>2. Collected(U, <<>>, scored, 0)
        BY DEF Collected
      <3> QED
        BY <2>2, <2>3, <3>1, <3>2
    <2>4. CASE n # 0
      <3>1. n - 1 \in 0 .. N /\ n \in 1 .. N
        BY <2>2, <2>4
      <3>2. Good(n - 1)
        BY <2>1, <2>2, <3>1
      <3>3. after[n] = Credit(after[n - 1], scored[n])
        BY <1>2, <2>2, <2>4
      <3>4. Good(n)
        BY <3>1, <3>2, <3>3, CreditFacts
      <3> QED
        BY <2>2, <3>4
    <2> QED
      BY <2>3, <2>4
  <1>5. N \in 0 .. N
    OBVIOUS
  <1>6. Good(N)
    BY <1>4, <1>5
  <1> QED
    BY <1>1, <1>6

\* The accounts of all posts stand for their users, as the property speaks of them.
LEMMA AccountsAreUsers ==
    ASSUME NEW U, NEW scored \in Seq(Item(U)), NEW accounts,
           Collected(U, accounts, scored, Len(scored))
    PROVE  /\ \A k, l \in DOMAIN accounts :
                 k # l => accounts[k].user # accounts[l].user
           /\ Cardinality({scored[i].user : i \in DOMAIN scored}) = Len(accounts)
           /\ \A k, l \in DOMAIN accounts :
                 Before(accounts, k, l) => RankedBefore(scored, accounts[k].user, accounts[l].user)
  <1> DEFINE N == Len(scored)
             L == Len(accounts)
             users == {scored[i].user : i \in DOMAIN scored}
  <1>1. /\ N \in Nat /\ DOMAIN scored = 1 .. N /\ L \in Nat /\ DOMAIN accounts = 1 .. L
        /\ accounts \in Seq(Account(U))
    BY DEF Collected
  <1>2. ASSUME NEW k \in DOMAIN accounts, NEW l \in DOMAIN accounts, k < l
        PROVE  \E i \in 1 .. N : /\ scored[i].user = accounts[k].user
                                 /\ \A j \in 1 .. N : scored[j].user = accounts[l].user => i < j
    BY <1>2 DEF Collected
  <1>3. ASSUME NEW k \in DOMAIN accounts, NEW l \in DOMAIN accounts, k # l
        PROVE  accounts[k].user # accounts[l].user
    <2>1. CASE k < l
      BY <2>1, <1>2
    <2>2. CASE l < k
      BY <2>2, <1>2
    <2> QED
      BY <1>1, <1>3, <2>1, <2>2
  <1>4. /\ \A k \in DOMAIN accounts : \E i \in DOMAIN scored : scored[i].user = accounts[k].user
        /\ \A i \in DOMAIN scored : \E k \in DOMAIN accounts : accounts[k].user = scored[i].user
    BY <1>1 DEF Collected
  <1>5. Cardinality(users) = L
    <2> DEFINE name == [k \in 1 .. L |-> accounts[k].user]
    <2>1. name \in [1 .. L -> users] /\ \A u \in users : \E k \in 1 .. L : name[k] = u
      <3>1. \A k \in 1 .. L : accounts[k].user \in users
        BY <1>1, <1>4
      <3>2. \A u \in users : \E k \in 1 .. L : accounts[k].user = u
        BY <1>1, <1>4
      <3> HIDE DEF users
      <3> QED
        BY <3>1, <3>2
    <2>2. \A k, l \in 1 .. L : name[k] = name[l] => k = l
      BY <1>1, <1>3
    <2>3. IsFiniteSet(1 .. L) /\ Cardinality(1 .. L) = L
      <3>1. 1 \in Int /\ L \in Nat
        BY <1>1
      <3> HIDE DEF L
      <3> QED
        BY <3>1, FS_Interval
    <2> HIDE DEF name, users, L
    <2>4. name \in Bijection(1 .. L, users)
      BY <2>1, <2>2 DEF Bijection, Injection, Surjection, IsInjective
    <2> QED
      BY <2>3, <2>4, FS_Bijection DEF ExistsBijection
  <1>6. ASSUME NEW k \in DOMAIN accounts
        PROVE  LET u == accounts[k].user
               IN /\ TotalOf(scored, u) = accounts[k].total
                  /\ Cardinality(ItemsOf(scored, u)) = accounts[k].posts
                  /\ ItemsOf(scored, u) \in SUBSET Nat /\ ItemsOf(scored, u) # {}
    <2> DEFINE u == accounts[k].user
    <2>1. /\ accounts[k].total = Sums(scored, u)[N]
          /\ accounts[k].posts = Cardinality(UpTo(scored, N, u))
          /\ \E i \in 1 .. N : scored[i].user = u
      BY DEF Collected
    <2> HIDE DEF u
    <2>2. TotalOf(scored, u) = Sums(scored, u)[N]
      BY DEF TotalOf, Sums
    <2>3. ItemsOf(scored, u) = UpTo(scored, N, u)
      BY <1>1 DEF ItemsOf, UpTo
    <2>4. UpTo(scored, N, u) \in SUBSET Nat /\ UpTo(scored, N, u) # {}
      BY <2>1 DEF UpTo
    <2> QED
      BY <2>1, <2>2, <2>3, <2>4 DEF u
  <1>7. ASSUME NEW k \in DOMAIN accounts, NEW l \in DOMAIN accounts, Before(accounts, k, l)
        PROVE  RankedBefore(scored, accounts[k].user, accounts[l].user)
    <2> DEFINE u == accounts[k].user
               v == accounts[l].user
               left == TotalOf(scored, u) * Cardinality(ItemsOf(scored, v))
               right == TotalOf(scored, v) * Cardinality(ItemsOf(scored, u))
    <2>1. /\ left = accounts[k].total * accounts[l].posts
          /\ right = accounts[l].total * accounts[k].posts
      BY <1>6
    <2>2. left \in Int /\ right \in Int
      <3>1. accounts[k] \in Account(U) /\ accounts[l] \in Account(U)
        BY <1>1
      <3>2. /\ accounts[k].total \in Int /\ accounts[k].posts \in Int
            /\ accounts[l].total \in Int /\ accounts[l].posts \in Int
        BY <3>1 DEF Account
      <3> QED
        BY <2>1, <3>2
    <2>3. left > right \/ (~(right > left) /\ k < l)
      BY <1>7, <2>1 DEF Before, HigherAverage
    <2>4. ASSUME k < l PROVE Min(ItemsOf(scored, u)) < Min(ItemsOf(scored, v))
      <3>1. PICK i \in 1 .. N : /\ scored[i].user = u
                               /\ \A j \in 1 .. N : scored[j].user = v => i < j
        BY <1>2, <2>4
      <3>2. ItemsOf(scored, u) \in SUBSET Nat /\ ItemsOf(scored, v) \in SUBSET Nat
        BY <1>6
      <3>3. ItemsOf(scored, u) # {} /\ ItemsOf(scored, v) # {}
        BY <1>6
      <3> DEFINE m == Min(ItemsOf(scored, u))
                 n == Min(ItemsOf(scored, v))
      <3>4. m \in Nat /\ \A x \in ItemsOf(scored, u) : m <= x
        BY <3>2, <3>3, MinFacts
      <3>5. n \in ItemsOf(scored, v) /\ n \in Nat
        BY <3>2, <3>3, MinFacts
      <3> HIDE DEF m, n
      <3>6. i \in ItemsOf(scored, u) /\ i < n
        BY <3>1, <3>5, <1>1 DEF ItemsOf
      <3>7. m < n
        BY <3>4, <3>5, <3>6
      <3> QED
        BY <3>7 DEF m, n
    <2>5. left > right \/ (left = right /\ k < l)
      <3> HIDE DEF left, right
      <3> QED
        BY <2>2, <2>3
    <2> QED
      BY <2>4, <2>5 DEF RankedBefore
  <1> QED
    BY <1>3, <1>5, <1>7

\* Whatever the scores are, a ranking is right.
LEMMA RankingFacts ==
    ASSUME NEW U, NEW scored \in Seq(Item(U))
    PROVE  IsRanking(Ranking(scored), scored)
  <1> DEFINE accounts == Collect(scored)
             ranked == Sorted(accounts)
             list == Ranking(scored)
             users == {scored[i].user : i \in DOMAIN scored}
             L == Len(accounts)
             T == Min({TopN, L})
  <1>1. Collected(U, accounts, scored, Len(scored))
    BY CollectFacts
  <1> HIDE DEF accounts
  <1>2. accounts \in Seq(Account(U)) /\ L \in Nat /\ DOMAIN accounts = 1 .. L
    BY <1>1 DEF Collected
  <1>3. PICK at : Orders(U, ranked, at, accounts, L)
    BY <1>2, SortedFacts
  <1>4. list = [n \in 1 .. Min({TopN, Len(ranked)}) |-> ranked[n].user]
    BY DEF Ranking, accounts
  <1> HIDE DEF ranked
  <1>5. Len(ranked) = L
    BY <1>3 DEF Orders
  <1>6. T \in 0 .. L /\ T = IF TopN <= L THEN TopN ELSE L
    <2>1. TopN \in Int /\ L \in Int /\ TopN \in Nat /\ L \in Nat
      BY <1>2, ScrapingAssumption
    <2> HIDE DEF L
    <2>2. T = IF TopN <= L THEN TopN ELSE L
      BY <2>1, OfTwo
    <2> QED
      BY <2>1, <2>2
  <1> HIDE DEF T, list
  <1>7. list = [n \in 1 .. T |-> ranked[n].user]
    BY <1>4, <1>5 DEF T
  <1> HIDE DEF L
  <1>8. ASSUME NEW i \in 1 .. L
        PROVE  at[i] \in 1 .. L /\ ranked[i] = accounts[at[i]]
    BY <1>3 DEF Orders
  <1>9. DOMAIN list = 1 .. T /\ \A i \in 1 .. T : i \in 1 .. L /\ list[i] = accounts[at[i]].user
    <2>1. \A i \in 1 .. T : i \in 1 .. L
      BY <1>6, <1>2
    <2> QED
      BY <1>7, <1>8, <2>1
  <1>10. Len(list) = T
    BY <1>6, <1>7
  <1>11. /\ \A k, l \in 1 .. L :
              Before(accounts, k, l) => RankedBefore(scored, accounts[k].user, accounts[l].user)
         /\ \A k \in 1 .. L : accounts[k].user \in users
         /\ \A u \in users : \E k \in 1 .. L : accounts[k].user = u
         /\ Cardinality(users) = L
    <2>1. /\ \A k \in DOMAIN accounts : accounts[k].user \in users
          /\ \A u \in users : \E k \in DOMAIN accounts : accounts[k].user = u
      <3>1. /\ \A k \in DOMAIN accounts : \E i \in DOMAIN scored : scored[i].user = accounts[k].user
            /\ \A i \in DOMAIN scored : \E k \in DOMAIN accounts : accounts[k].user = scored[i].user
        <4>1. DOMAIN scored = 1 .. Len(scored)
          OBVIOUS
        <4> QED
          BY <1>1, <4>1 DEF Collected
      <3> QED
        BY <3>1
    <2>2. Cardinality(users) = Len(accounts)
      BY <1>1, AccountsAreUsers
    <2>3. \A k, l \in DOMAIN accounts :
             Before(accounts, k, l) => RankedBefore(scored, accounts[k].user, accounts[l].user)
      BY <1>1, AccountsAreUsers
    <2> HIDE DEF users
    <2> QED
      BY <1>2, <2>1, <2>2, <2>3 DEF L
  <1> HIDE DEF users
  <1>12. ASSUME NEW i \in 1 .. L, NEW j \in 1 .. L, i < j
         PROVE  RankedBefore(scored, accounts[at[i]].user, accounts[at[j]].user)
    <2>1. Before(accounts, at[i], at[j])
      BY <1>3, <1>12 DEF Orders
    <2> QED
      BY <2>1, <1>8, <1>11
  <1>13. Len(list) = Min({TopN, Cardinality(users)})
    BY <1>10, <1>11 DEF T
  <1>14. ToSet(list) \subseteq users
    BY <1>8, <1>9, <1>11 DEF ToSet
  <1>15. \A i, j \in DOMAIN list : i < j => RankedBefore(scored, list[i], list[j])
    BY <1>9, <1>12
  <1>16. ASSUME NEW i \in DOMAIN list, NEW u \in users \ ToSet(list)
         PROVE  RankedBefore(scored, list[i], u)
    <2>1. PICK k \in 1 .. L : accounts[k].user = u
      BY <1>11
    <2>2. PICK j \in 1 .. L : at[j] = k
      BY <1>3 DEF Orders
    <2>3. ~(j <= T)
      <3> SUFFICES ASSUME j <= T PROVE FALSE
        OBVIOUS
      <3>1. j \in 1 .. T
        BY <1>6, <1>2
      <3>2. list[j] = u /\ j \in DOMAIN list
        BY <3>1, <1>9, <2>1, <2>2
      <3> QED
        BY <3>2 DEF ToSet
    <2>4. i \in 1 .. L /\ i < j
      BY <1>6, <1>9, <2>3, <1>2
    <2> QED
      BY <2>1, <2>2, <2>4, <1>9, <1>12
  <1> QED
    BY <1>13, <1>14, <1>15, <1>16 DEF IsRanking, users, list

\* What has been collected can be scored.
ScrapingInv ==
    /\ posts \in Seq([user : {t.user : t \in Tweets}, content : {t.content : t \in Tweets},
                      alts : UNION {[1 .. n -> Seq(STRING)] : n \in Nat},
                      quoted : {t.quoted : t \in Tweets} \cup {NoQuote}])
    /\ extended \in Seq([user : {t.user : t \in Tweets}, content : Seq(STRING), followers : Nat,
                         hasMedia : BOOLEAN, hasQuote : BOOLEAN])

LEMMA ScrapingStep == ScrapingInv /\ [ScrapingNext]_scrapingVars => ScrapingInv'
  <1> SUFFICES ASSUME ScrapingInv, [ScrapingNext]_scrapingVars PROVE ScrapingInv'
    OBVIOUS
  <1> DEFINE Users == {t.user : t \in Tweets}
             Row == [user : Users, content : {t.content : t \in Tweets},
                     alts : UNION {[1 .. n -> Seq(STRING)] : n \in Nat},
                     quoted : {t.quoted : t \in Tweets} \cup {NoQuote}]
             Wide == [user : Users, content : Seq(STRING), followers : Nat,
                      hasMedia : BOOLEAN, hasQuote : BOOLEAN]
  <1>1. posts \in Seq(Row) /\ extended \in Seq(Wide)
    BY DEF ScrapingInv
  <1>2. ASSUME NEW tweet \in Tweets, NEW read \in 0 .. Len(tweet.media),
               NEW fault \in {"none", "author", "content"}, Yield(tweet, read, fault)
        PROVE  posts' \in Seq(Row) /\ extended' \in Seq(Wide)
    <2>1. /\ tweet.content \in Seq(STRING) /\ tweet.followers \in Nat
          /\ tweet.media \in Seq([alt : Seq(STRING), url : BOOLEAN])
      BY ScrapingAssumption
    <2>2. read \in Nat /\ \A i \in 1 .. read : tweet.media[i].alt \in Seq(STRING)
      <3>1. read \in Nat
        BY <2>1
      <3>2. ASSUME NEW i \in 1 .. read PROVE tweet.media[i].alt \in Seq(STRING)
        <4> DEFINE Media == [alt : Seq(STRING), url : BOOLEAN]
                   item == tweet.media[i]
        <4>1. i \in 1 .. Len(tweet.media)
          BY <2>1, <3>1
        <4>2. item \in Media
          <5> HIDE DEF Media
          <5> QED
            BY <2>1, <4>1, ElementOfSeq DEF Media
        <4> HIDE DEF item
        <4>3. item.alt \in Seq(STRING)
          BY <4>2
        <4> QED
          BY <4>3 DEF item
      <3> QED
        BY <3>1, <3>2
    <2>3. [i \in 1 .. read |-> tweet.media[i].alt] \in UNION {[1 .. n -> Seq(STRING)] : n \in Nat}
      <3> DEFINE Wordings == Seq(STRING)
                 alts == [i \in 1 .. read |-> tweet.media[i].alt]
      <3>1. read \in Nat /\ \A i \in 1 .. read : tweet.media[i].alt \in Wordings
        BY <2>2
      <3> HIDE DEF Wordings
      <3>2. alts \in [1 .. read -> Wordings]
        BY <3>1
      <3> HIDE DEF alts
      <3>3. alts \in UNION {[1 .. n -> Wordings] : n \in Nat}
        BY <3>1, <3>2
      <3> QED
        BY <3>3 DEF alts, Wordings
    <2>4. PostOf(tweet, read, fault) \in Row
      BY <2>3 DEF PostOf
    <2>5. ExtendedOf(tweet, read, fault) \in Wide
      BY <2>1 DEF ExtendedOf
    <2>6. /\ posts' = Append(posts, PostOf(tweet, read, fault))
          /\ extended' = Append(extended, ExtendedOf(tweet, read, fault))
      BY <1>2 DEF Yield
    <2> DEFINE one == PostOf(tweet, read, fault)
               other == ExtendedOf(tweet, read, fault)
    <2> HIDE DEF Row, Wide, one, other
    <2>7. Append(posts, one) \in Seq(Row) /\ Append(extended, other) \in Seq(Wide)
      <3>1. one \in Row /\ other \in Wide
        BY <2>4, <2>5 DEF one, other
      <3> QED
        BY <1>1, <3>1, AppendProperties
    <2> QED
      BY <2>6, <2>7 DEF one, other
  <1>3. ASSUME EndScrape \/ UNCHANGED scrapingVars
        PROVE  posts' \in Seq(Row) /\ extended' \in Seq(Wide)
    <2>1. posts' = posts /\ extended' = extended
      BY <1>3 DEF EndScrape, scrapingVars
    <2> HIDE DEF Row, Wide
    <2> QED
      BY <1>1, <2>1
  <1>4. posts' \in Seq(Row) /\ extended' \in Seq(Wide)
    BY <1>2, <1>3 DEF ScrapingNext
  <1> QED
    BY <1>4 DEF ScrapingInv

\* Scores are numbers.
LEMMA ScoresAreNumbers ==
    ASSUME ScrapingInv
    PROVE  /\ FootballScores \in Seq(Item({t.user : t \in Tweets}))
           /\ \A query : CandidateScores(query) \in Seq(Item({t.user : t \in Tweets}))
  <1> DEFINE Users == {t.user : t \in Tweets}
             Hit(text) == KeywordHits(text) \in Nat
  <1>1. IsFiniteSet(FootballKeywords)
    <2>1. IsFiniteSet({"gol"}) /\ IsFiniteSet({"accented"})
      BY FS_Singleton
    <2>2. FootballKeywords = {"gol"} \cup {"accented"}
      BY DEF FootballKeywords
    <2> QED
      BY <2>1, <2>2, FS_Union
  <1>2. ASSUME NEW text PROVE KeywordHits(text) \in Nat
    <2>1. Hits(text) \subseteq FootballKeywords
      BY DEF Hits
    <2>2. IsFiniteSet(Hits(text))
      BY <1>1, <2>1, FS_Subset
    <2> QED
      BY <2>2, FS_CardinalityType DEF KeywordHits
  <1>3. ASSUME NEW n \in Nat PROVE IsFiniteSet(1 .. n)
    <2>1. 1 \in Int /\ n \in Int
      OBVIOUS
    <2> QED
      BY <2>1, FS_Interval
  <1>4. ASSUME NEW i \in DOMAIN posts
        PROVE  posts[i].user \in Users /\ FootballScore(posts[i]) \in Int
    <2> DEFINE row == posts[i]
               pairs == {h \in (DOMAIN row.alts) \X FootballKeywords :
                            h[2] \in Hits(row.alts[h[1]])}
    <2>1. /\ row.user \in Users
          /\ row.alts \in UNION {[1 .. n -> Seq(STRING)] : n \in Nat}
      <3> DEFINE Row == [user : Users, content : {t.content : t \in Tweets},
                         alts : UNION {[1 .. n -> Seq(STRING)] : n \in Nat},
                         quoted : {t.quoted : t \in Tweets} \cup {NoQuote}]
      <3>1. posts \in Seq(Row) /\ i \in DOMAIN posts
        BY <1>4 DEF ScrapingInv
      <3>2. row \in Row
        <4> HIDE DEF Row
        <4>1. i \in 1 .. Len(posts)
          BY <3>1
        <4> QED
          BY <3>1, <4>1, ElementOfSeq
      <3> HIDE DEF row, Users
      <3> QED
        BY <3>2
    <2>2. PICK n \in Nat : DOMAIN row.alts = 1 .. n
      BY <2>1
    <2>3. IsFiniteSet((DOMAIN row.alts) \X FootballKeywords)
      BY <1>1, <1>3, <2>2, FS_Product
    <2>4. pairs \subseteq (DOMAIN row.alts) \X FootballKeywords
      OBVIOUS
    <2>5. Cardinality(pairs) \in Nat
      <3> HIDE DEF pairs
      <3>1. IsFiniteSet(pairs)
        BY <2>3, <2>4, FS_Subset
      <3> QED
        BY <3>1, FS_CardinalityType
    <2>6. FootballScore(row) =
             10 * KeywordHits(row.content) + 5 * KeywordHits(row.quoted) + 20 * Cardinality(pairs)
      BY DEF FootballScore
    <2>7. KeywordHits(row.content) \in Nat /\ KeywordHits(row.quoted) \in Nat
      BY <1>2
    <2> HIDE DEF pairs
    <2>8. FootballScore(row) \in Int
      BY <2>5, <2>6, <2>7
    <2> QED
      BY <2>1, <2>8
  <1>5. ASSUME NEW i \in DOMAIN extended, NEW keywords
        PROVE  extended[i].user \in Users /\ CandidateScore(extended[i], keywords) \in Int
    <2> DEFINE row == extended[i]
               words == ToSet(row.content)
    <2>1. row.user \in Users /\ row.content \in Seq(STRING) /\ row.followers \in Nat
      <3> DEFINE Wide == [user : Users, content : Seq(STRING), followers : Nat,
                          hasMedia : BOOLEAN, hasQuote : BOOLEAN]
      <3>1. extended \in Seq(Wide) /\ i \in DOMAIN extended
        BY <1>5 DEF ScrapingInv
      <3>2. row \in Wide
        <4> HIDE DEF Wide
        <4>1. i \in 1 .. Len(extended)
          BY <3>1
        <4> QED
          BY <3>1, <4>1, ElementOfSeq
      <3> HIDE DEF row, Users
      <3> QED
        BY <3>2
    <2>2. IsFiniteSet(words)
      <3> DEFINE l == Len(row.content)
                 word == [n \in 1 .. l |-> row.content[n]]
      <3>1. l \in Nat /\ DOMAIN row.content = 1 .. l
        BY <2>1
      <3>2. word \in [1 .. l -> words] /\ \A w \in words : \E n \in 1 .. l : word[n] = w
        BY <3>1 DEF ToSet
      <3> HIDE DEF l, word, words
      <3>3. word \in Surjection(1 .. l, words)
        BY <3>2 DEF Surjection
      <3>4. IsFiniteSet(1 .. l)
        BY <3>1, <1>3
      <3> QED
        BY <3>3, <3>4, FS_Surjection
    <2>3. keywords \cap words \subseteq words
      OBVIOUS
    <2> HIDE DEF words
    <2>4. Cardinality(keywords \cap words) \in Nat
      <3>1. IsFiniteSet(keywords \cap words)
        BY <2>2, <2>3, FS_Subset
      <3> QED
        BY <3>1, FS_CardinalityType
    <2>5. CandidateScore(row, keywords) =
             row.followers + (IF row.hasMedia THEN 10 ELSE 0) + (IF row.hasQuote THEN 5 ELSE 0)
             + 3 * Cardinality(keywords \cap words)
      BY DEF CandidateScore, words
    <2> HIDE DEF row
    <2>6. CandidateScore(row, keywords) \in Int
      BY <2>1, <2>4, <2>5
    <2> QED
      BY <2>1, <2>6 DEF row
  <1>6. FootballScores \in Seq(Item(Users))
    <2>1. DOMAIN posts = 1 .. Len(posts) /\ Len(posts) \in Nat
      BY DEF ScrapingInv
    <2>2. \A i \in DOMAIN posts :
             [user |-> posts[i].user, score |-> FootballScore(posts[i])] \in Item(Users)
      BY <1>4 DEF Item
    <2> HIDE DEF Users
    <2>3. FootballScores \in [1 .. Len(posts) -> Item(Users)]
      BY <2>1, <2>2 DEF FootballScores
    <2> QED
      BY <2>1, <2>3
  <1>7. ASSUME NEW query PROVE CandidateScores(query) \in Seq(Item(Users))
    <2>1. DOMAIN extended = 1 .. Len(extended) /\ Len(extended) \in Nat
      BY DEF ScrapingInv
    <2> DEFINE keywords == {query} \cup CommonWords(extended)
    <2>2. \A i \in DOMAIN extended :
             [user |-> extended[i].user, score |-> CandidateScore(extended[i], keywords)]
             \in Item(Users)
      BY <1>5 DEF Item
    <2>3. CandidateScores(query) = [i \in DOMAIN extended |->
             [user |-> extended[i].user, score |-> CandidateScore(extended[i], keywords)]]
      BY DEF CandidateScores
    <2> HIDE DEF Users, keywords
    <2>4. CandidateScores(query) \in [1 .. Len(extended) -> Item(Users)]
      BY <2>1, <2>2, <2>3
    <2> QED
      BY <2>1, <2>4
  <1> QED
    BY <1>6, <1>7

\* For any tweets, also when the scrape breaks off: both rankings hold the accounts
\* with the best averages over what was collected, best first, ties in the order of
\* their first posts.
THEOREM RankingsCorrect == ScrapingSpec => []RankingsAreRight
  <1>1. ScrapingInit => ScrapingInv
    BY DEF ScrapingInit, ScrapingInv
  <1>2. ScrapingInv => RankingsAreRight
    <2> SUFFICES ASSUME ScrapingInv PROVE RankingsAreRight
      OBVIOUS
    <2> DEFINE Users == {t.user : t \in Tweets}
    <2>1. /\ FootballScores \in Seq(Item(Users))
          /\ \A query : CandidateScores(query) \in Seq(Item(Users))
      BY ScoresAreNumbers
    <2> HIDE DEF Users
    <2>2. IsRanking(IdentifyCandidateAccounts, FootballScores)
      BY <2>1, RankingFacts DEF IdentifyCandidateAccounts
    <2>3. \A query : IsRanking(SelectCandidates(query), CandidateScores(query))
      BY <2>1, RankingFacts DEF SelectCandidates
    <2> QED
      BY <2>2, <2>3 DEF RankingsAreRight
  <1> QED
    BY <1>1, <1>2, ScrapingStep, PTL DEF ScrapingSpec

================================================================================
