--------------------------------- MODULE VideoPlan ---------------------------------
(***************************************************************************)
(* The plan of a clip's frames and audio (xnative/media/frame_sampler.py)  *)
(* from its kind and duration, before anything is decoded.  With at most   *)
(* three frames the code's float quotients round as the exact ones.        *)
(***************************************************************************)
EXTENDS Integers, FiniteSets, FiniteSetsExt

CONSTANTS
    NoDuration,
    Durations,  \* in milliseconds, or NoDuration
    ClipPolicies    \* VideoAudioLifecyclePolicy

ASSUME PlanAssumption ==
    /\ NoDuration \notin Int
    /\ Durations \subseteq Int \cup {NoDuration}
    /\ ClipPolicies \subseteq
          [maxVideo : Int, maxAudio : Int, maxFrames : Int, minGap : Nat \ {0}]

VARIABLE plan  \* a request with its answer, or NoPlan

NoPlan == [kind |-> "none"]

PlanInit == plan = NoPlan

\* int(round(n / d)): a half goes to the even neighbour.
Rounded(n, d) ==
    LET whole == n \div d
        rest == 2 * (n % d)
    IN IF rest < d \/ (rest = d /\ whole % 2 = 0) THEN whole ELSE whole + 1

FrameCount(duration, policy) ==
    Min({policy.maxFrames, Max({1, duration \div policy.minGap})})

\* Mutant: the last frame falls on the end of the clip.
FramesToTheEnd(duration, policy) ==
    LET n == FrameCount(duration, policy)
    IN {Rounded(duration * i, n) : i \in 1 .. n}

\* planned_video_frame_offsets of a duration within the limit
FrameOffsets(duration, policy) ==
    LET n == FrameCount(duration, policy)
    IN IF duration = 0 \/ policy.maxFrames <= 0 THEN {}
       ELSE IF duration < policy.minGap THEN {duration \div 2}
       ELSE {Rounded(duration * i, n + 1) : i \in 1 .. n}

Bounded(duration) == IF duration = NoDuration THEN NoDuration ELSE Max({0, duration})

Refused(reason) == [reason |-> reason, frames |-> {}, audio |-> FALSE]

Answer(kind, duration, hasAudio, policy) ==
    LET limit == IF kind = "audio" THEN policy.maxAudio ELSE policy.maxVideo
    IN CASE kind = "unknown" -> Refused("unsupported_media_kind")
         [] kind # "unknown" /\ duration = NoDuration -> Refused("missing_duration")
         [] kind # "unknown" /\ duration # NoDuration ->
              IF duration > limit THEN Refused("duration_limit_exceeded")
              ELSE [reason |-> "accepted",
                    frames |-> IF kind = "audio" THEN {} ELSE FrameOffsets(duration, policy),
                    audio |-> \/ kind = "audio"
                              \/ kind = "video" /\ hasAudio /\ duration <= policy.maxAudio]

\* plan_video_audio_lifecycle
PlanLifecycle(kind, duration, hasAudio, policy) ==
    /\ plan = NoPlan
    /\ plan' = [kind |-> kind, duration |-> Bounded(duration), policy |-> policy,
                answer |-> Answer(kind, Bounded(duration), hasAudio, policy)]

\* sample_video_frames: the frames of a video of any kind, none without its file.
SampleFrames(exists, duration, policy) ==
    /\ plan = NoPlan
    /\ plan' = [kind |-> "sample", duration |-> Bounded(duration), policy |-> policy,
                answer |->
                    IF exists /\ duration # NoDuration /\ Bounded(duration) <= policy.maxVideo
                    THEN [reason |-> "sampled", audio |-> FALSE,
                          frames |-> FrameOffsets(Bounded(duration), policy)]
                    ELSE Refused("nothing_to_sample")]

\* The caller has used the plan.
UsePlan == plan # NoPlan /\ plan' = NoPlan

PlanNext ==
    \/ \E duration \in Durations, policy \in ClipPolicies :
          \/ \E kind \in {"audio", "video", "gif", "unknown"}, hasAudio \in BOOLEAN :
                PlanLifecycle(kind, duration, hasAudio, policy)
          \/ \E exists \in BOOLEAN : SampleFrames(exists, duration, policy)
    \/ UsePlan

PlanSpec == PlanInit /\ [][PlanNext]_plan

-----------------------------------------------------------------------------

\* Every accepted clip that lasts has a frame unless none may be taken; frames
\* lie inside it, at its very beginning only when it lasts one millisecond, and
\* two of them are at least two thirds of the gap apart, less one for rounding.
\* Audio comes only from what is within both limits.
FramesInside ==
    plan # NoPlan =>
        LET frames == plan.answer.frames
            policy == plan.policy
        IN /\ Cardinality(frames) <= Max({0, policy.maxFrames})
           /\ \A f \in frames :
                  f < plan.duration /\ plan.duration <= policy.maxVideo /\ (f = 0 => plan.duration = 1)
           /\ \A f, g \in frames : f < g => 3 * (g - f) >= 2 * policy.minGap - 3
           /\ plan.answer.audio => plan.duration <= policy.maxAudio
           /\ plan.answer.reason = "accepted" /\ plan.kind # "audio" =>
                  (frames = {} <=> plan.duration = 0 \/ policy.maxFrames <= 0)

=============================================================================
