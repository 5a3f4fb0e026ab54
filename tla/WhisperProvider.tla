--------------------------- MODULE WhisperProvider ---------------------------
(***************************************************************************)
(* The threads of src/src/captions/whisper_provider.cpp, with the capture  *)
(* of src/src/captions/caption_manager.cpp that feeds and stops them:      *)
(*   - the OBS audio thread writes chunks into a ring of slots;            *)
(*   - the analysis worker takes them out and cuts speech into phrases;    *)
(*   - the inference worker waits for phrases and transcribes them;        *)
(*   - the UI thread starts a session, and stops it by joining both.       *)
(* One action is what a thread does between two accesses to shared state.  *)
(* The phrase mutex is held across two steps only by an inference worker   *)
(* that has found nothing to do and is about to sleep.                     *)
(*                                                                         *)
(* Left out: samples (an utterance is too short for a phrase or not), the  *)
(* transcript and its dictionary, and status messages.                     *)
(***************************************************************************)
EXTENDS Naturals

CONSTANTS
    Slots,       \* kAudioSlots
    MaxPhrases,  \* kMaximumPhraseQueue
    MaxChunks    \* bound: chunks captured in one session

ASSUME SizeAssumption  == Slots \in Nat \ {0} /\ MaxPhrases \in Nat \ {0}
ASSUME BoundAssumption == MaxChunks \in Nat

VARIABLES
    ui,          \* where the UI thread is
    registered,  \* audioCaptureRegistered_, the callback with OBS
    running,     \* the atomic flag
    audio,       \* where the OBS audio thread is
    write,       \* writeSequence
    read,        \* readSequence
    slots,       \* the sequence number of the chunk each slot holds
    analysis,    \* where the analysis worker is
    utterance,   \* its utterance: none, or too short for a phrase, or long
    inference,   \* where the inference worker is
    phrases      \* the length of phraseQueue

control == <<ui, registered, running>>
ring    == <<audio, write, read, slots>>
workers == <<analysis, utterance, inference, phrases>>
vars    == <<control, ring, workers>>

UiPc        == {"idle", "stop", "notify", "joinAnalysis", "joinInference", "aborted"}
AudioPc     == {"idle", "copying"}
AnalysisPc  == {"none", "loop", "copying", "phrase", "notify", "exited"}
InferencePc == {"none", "loading", "check", "blocking", "blocked", "transcribing", "exited"}
Utterance   == {"none", "short", "long"}

TypeOK ==
    /\ ui \in UiPc
    /\ registered \in BOOLEAN
    /\ running \in BOOLEAN
    /\ audio \in AudioPc
    /\ write \in 0..MaxChunks
    /\ read \in 0..MaxChunks
    /\ slots \in [0..(Slots - 1) -> 0..MaxChunks]
    /\ analysis \in AnalysisPc
    /\ utterance \in Utterance
    /\ inference \in InferencePc
    /\ phrases \in 0..MaxPhrases

Init ==
    /\ ui = "idle"
    /\ registered = FALSE
    /\ running = FALSE
    /\ audio = "idle"
    /\ write = 0
    /\ read = 0
    /\ slots = [i \in 0..(Slots - 1) |-> 0]
    /\ analysis = "none"
    /\ utterance = "none"
    /\ inference = "none"
    /\ phrases = 0

-----------------------------------------------------------------------------
(* The UI thread.                                                          *)

(* Assigning to a std::thread that was not joined ends the program.        *)
Abort == ui' = "aborted" /\ UNCHANGED <<registered, running, ring, workers>>

(* CaptionManager::start of a session that is not running, with a config   *)
(* the provider accepts.                                                   *)
Start ==
    /\ ui = "idle" /\ ~running
    /\ \/ /\ analysis # "none" \/ inference # "none"
          /\ Abort
       \/ /\ analysis = "none" /\ inference = "none"
          /\ registered' = TRUE
          /\ running' = TRUE
          /\ read' = 0 /\ write' = 0
          /\ analysis' = "loop" /\ utterance' = "none"
          /\ inference' = "loading"
          /\ phrases' = 0
          /\ UNCHANGED <<ui, audio, slots>>

(* CaptionManager::stop: OBS lets a callback that runs finish first.       *)
StopCapture ==
    /\ ui = "idle" /\ registered
    /\ audio = "idle"
    /\ registered' = FALSE
    /\ ui' = "stop"
    /\ UNCHANGED <<running, ring, workers>>

(* WhisperProvider::stop, step by step.                                    *)
ClearRunning ==
    /\ ui = "stop"
    /\ running' = FALSE
    /\ ui' = "notify"
    /\ UNCHANGED <<registered, ring, workers>>

(* What a notification does to the inference worker: one that is not       *)
(* asleep yet does not hear it.                                            *)
Wake == inference' = IF inference = "blocked" THEN "check" ELSE inference

NotifyAll ==
    /\ ui = "notify"
    /\ Wake
    /\ ui' = "joinAnalysis"
    /\ UNCHANGED <<registered, running, ring, analysis, utterance, phrases>>

\* bug: the analysis worker is left behind
JoinNothing ==
    /\ ui = "joinAnalysis"
    /\ ui' = "joinInference"
    /\ UNCHANGED <<registered, running, ring, workers>>

JoinAnalysis ==
    /\ ui = "joinAnalysis"
    /\ analysis = "exited"
    /\ analysis' = "none"
    /\ ui' = "joinInference"
    /\ UNCHANGED <<registered, running, ring, utterance, inference, phrases>>

JoinInference ==
    /\ ui = "joinInference"
    /\ inference = "exited"
    /\ inference' = "none"
    /\ phrases' = 0
    /\ ui' = "idle"
    /\ UNCHANGED <<registered, running, ring, analysis, utterance>>

-----------------------------------------------------------------------------
(* The OBS audio thread: submitAudio, one slot at a time.                  *)

\* bug: one chunk too many fits
AudioBeginOverfull ==
    /\ registered /\ running
    /\ audio = "idle"
    /\ write - read <= Slots
    /\ write < MaxChunks
    /\ slots' = [slots EXCEPT ![write % Slots] = write]
    /\ audio' = "copying"
    /\ UNCHANGED <<control, write, read, workers>>

(* A full ring drops the chunk.  The slot changes from here on.            *)
AudioBegin ==
    /\ registered /\ running
    /\ audio = "idle"
    /\ write - read < Slots
    /\ write < MaxChunks
    /\ slots' = [slots EXCEPT ![write % Slots] = write]
    /\ audio' = "copying"
    /\ UNCHANGED <<control, write, read, workers>>

AudioPublish ==
    /\ audio = "copying"
    /\ write' = write + 1
    /\ audio' = "idle"
    /\ UNCHANGED <<control, read, slots, workers>>

-----------------------------------------------------------------------------
(* The analysis worker.                                                    *)

PopAudio ==
    /\ analysis = "loop" /\ running
    /\ read # write
    /\ analysis' = "copying"
    /\ UNCHANGED <<control, ring, utterance, inference, phrases>>

(* The chunk is copied and its slot given back, then classified.  Speech   *)
(* opens an utterance with the pre-roll, too short for a phrase; silence   *)
(* or the maximal length ends it; a short one is thrown away.              *)
AnalyzeChunk ==
    /\ analysis = "copying"
    /\ read' = read + 1
    /\ \/ /\ utterance = "none"
          /\ utterance' \in {"none", "short"}
          /\ analysis' = "loop"
       \/ /\ utterance = "short"
          /\ utterance' \in Utterance
          /\ analysis' = "loop"
       \/ /\ utterance \in {"short", "long"}
          /\ utterance' = "long"
          /\ analysis' \in {"loop", "phrase"}
    /\ UNCHANGED <<control, audio, write, slots, inference, phrases>>

\* bug: waits for a ring that nobody empties any more
LeaveLoopWhenDrained ==
    /\ analysis = "loop" /\ ~running
    /\ read = write
    /\ analysis' = IF utterance = "long" THEN "phrase" ELSE "exited"
    /\ UNCHANGED <<control, ring, utterance, inference, phrases>>

(* What was being said when the session stopped still becomes a phrase.    *)
LeaveLoop ==
    /\ analysis = "loop" /\ ~running
    /\ analysis' = IF utterance = "long" THEN "phrase" ELSE "exited"
    /\ UNCHANGED <<control, ring, utterance, inference, phrases>>

\* bug: the backlog has no limit
QueuePhraseUnbounded ==
    /\ analysis = "phrase"
    /\ inference # "blocking"
    /\ phrases' = phrases + 1
    /\ utterance' = "none"
    /\ analysis' = "notify"
    /\ UNCHANGED <<control, ring, inference>>

\* bug: pushed without the mutex
QueuePhraseUnlocked ==
    /\ analysis = "phrase"
    /\ phrases' = IF phrases < MaxPhrases THEN phrases + 1 ELSE phrases
    /\ utterance' = "none"
    /\ analysis' = "notify"
    /\ UNCHANGED <<control, ring, inference>>

(* Under the mutex; a full backlog loses its oldest phrase.                *)
QueuePhrase ==
    /\ analysis = "phrase"
    /\ inference # "blocking"
    /\ phrases' = IF phrases < MaxPhrases THEN phrases + 1 ELSE phrases
    /\ utterance' = "none"
    /\ analysis' = "notify"
    /\ UNCHANGED <<control, ring, inference>>

NotifyOne ==
    /\ analysis = "notify"
    /\ Wake
    /\ analysis' = "loop"
    /\ UNCHANGED <<control, ring, utterance, phrases>>

-----------------------------------------------------------------------------
(* The inference worker.                                                   *)

LoadModel ==
    /\ inference = "loading"
    /\ inference' = "check"
    /\ UNCHANGED <<control, ring, analysis, utterance, phrases>>

(* The worker ends the session on its own; nobody waits to be notified.    *)
LoadModelFails ==
    /\ inference = "loading"
    /\ inference' = "exited"
    /\ running' = FALSE
    /\ UNCHANGED <<ui, registered, ring, analysis, utterance, phrases>>

(* The predicate of the wait, under the mutex.                             *)
CheckPhrases ==
    /\ inference = "check"
    /\ \/ /\ phrases > 0
          /\ phrases' = phrases - 1
          /\ inference' = "transcribing"
       \/ /\ phrases = 0
          /\ inference' = IF running THEN "blocking" ELSE "exited"
          /\ UNCHANGED phrases
    /\ UNCHANGED <<control, ring, analysis, utterance>>

(* Asleep, and the mutex is free again.                                    *)
FallAsleep ==
    /\ inference = "blocking"
    /\ inference' = "blocked"
    /\ UNCHANGED <<control, ring, analysis, utterance, phrases>>

SpuriousWakeup ==
    /\ inference = "blocked"
    /\ inference' = "check"
    /\ UNCHANGED <<control, ring, analysis, utterance, phrases>>

Transcribe ==
    /\ inference = "transcribing"
    /\ inference' = "check"
    /\ UNCHANGED <<control, ring, analysis, utterance, phrases>>

-----------------------------------------------------------------------------
UiStep        == \/ Start \/ StopCapture \/ ClearRunning \/ NotifyAll
                 \/ JoinAnalysis \/ JoinInference
AudioStep     == AudioBegin \/ AudioPublish
AnalysisStep  == PopAudio \/ AnalyzeChunk \/ LeaveLoop \/ QueuePhrase \/ NotifyOne
InferenceStep == \/ LoadModel \/ LoadModelFails \/ CheckPhrases \/ FallAsleep
                 \/ SpuriousWakeup \/ Transcribe

Next == ui # "aborted" /\ (UiStep \/ AudioStep \/ AnalysisStep \/ InferenceStep)

Spec == Init /\ [][Next]_vars

(* Threads that can run do: a stop that has begun, a chunk being copied,   *)
(* the workers.  Nothing makes OBS deliver audio, a user start or stop, or *)
(* the library wake a thread without reason.                               *)
Alive == ui # "aborted"
Fairness ==
    /\ WF_vars(Alive /\ (ClearRunning \/ NotifyAll \/ JoinAnalysis \/ JoinInference))
    /\ WF_vars(Alive /\ AudioPublish)
    /\ WF_vars(Alive /\ AnalysisStep)
    /\ WF_vars(Alive /\ (LoadModel \/ LoadModelFails))
    /\ WF_vars(Alive /\ (CheckPhrases \/ FallAsleep))
    /\ WF_vars(Alive /\ Transcribe)

FairSpec == Spec /\ Fairness

-----------------------------------------------------------------------------
(* Every published chunk is still in its slot when the analysis worker     *)
(* copies it: the audio thread never overwrites one, though it decides by  *)
(* a readSequence that may be old (submitAudio, popAudio).                 *)
RingHoldsChunks == \A s \in read..(write - 1) : slots[s % Slots] = s

(* A phrase never waits for a sleeping worker: whenever there is one, the  *)
(* notification that follows it is still to come (queuePhrase and the wait *)
(* in runInference share the mutex).                                       *)
SleeperIsWoken == inference \in {"blocking", "blocked"} /\ phrases > 0 => analysis = "notify"

(* A session is whole or gone: while the UI thread is not stopping one,    *)
(* the capture and both workers exist together, so no worker can call back *)
(* into a plugin that has stopped the captions, and none is left over.     *)
SessionIsWhole ==
    ui = "idle" => /\ registered = (analysis # "none")
                   /\ registered = (inference # "none")
                   /\ running => registered

(* Stopping gets past the analysis worker, whatever was being said.        *)
AnalysisStops == (ui = "joinAnalysis") ~> (ui # "joinAnalysis")

-----------------------------------------------------------------------------
(* What the documentation says and the code does not do.                   *)

(* DEVELOPMENT: inference never blocks the Qt UI thread.  At the least, a  *)
(* stop comes back to it.                                                  *)
StopReturns == (ui = "joinInference") ~> (ui = "idle")

(* CROSS_PLATFORM_AUDIT: no crash after streams stop, profiles change and  *)
(* sessions restart.                                                       *)
NeverAborts == ui # "aborted"

=============================================================================
