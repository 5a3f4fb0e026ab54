------------------------- MODULE WhisperProviderProofs -------------------------
(* Proofs of the invariants of WhisperProvider, for a ring of any size,    *)
(* any backlog and any number of chunks.                                   *)
EXTENDS WhisperProvider, Integers, TLAPS

(* The ring: what is published fits, and the slot that is being written is *)
(* not one of those.  Audio is only captured for a session.                *)
RingInv ==
    /\ read <= write /\ write - read <= Slots
    /\ analysis = "copying" => read < write
    /\ audio = "copying" => /\ registered
                            /\ write < MaxChunks
                            /\ write - read < Slots
                            /\ slots[write % Slots] = write
    /\ RingHoldsChunks

(* A worker about to sleep has looked at the backlog under the mutex.      *)
SleepInv == (inference = "blocking" => phrases = 0) /\ SleeperIsWoken

(* How far a stop has come.                                                *)
StopInv ==
    /\ ui \in {"stop", "notify", "joinAnalysis"} =>
          ~registered /\ analysis # "none" /\ inference # "none"
    /\ ui = "joinInference" => ~registered /\ analysis = "none" /\ inference # "none"
    /\ ui \in {"notify", "joinAnalysis", "joinInference"} => ~running
    /\ SessionIsWhole

Inv == TypeOK /\ RingInv /\ SleepInv /\ StopInv

-----------------------------------------------------------------------------
(* Chunks that are less than a ring apart have slots of their own.         *)
LEMMA OwnSlots ==
    ASSUME NEW N \in Nat \ {0}, NEW s \in Nat, NEW t \in Nat, s < t, t - s < N
    PROVE  s % N # t % N
  <1> DEFINE p == s \div N
             q == t \div N
  <1>1. /\ p \in Int /\ s % N \in Int /\ s = N * p + (s % N)
        /\ q \in Int /\ t % N \in Int /\ t = N * q + (t % N)
    OBVIOUS
  <1> SUFFICES ASSUME s % N = t % N PROVE FALSE
    OBVIOUS
  <1> HIDE DEF p, q
  <1>2. N * p + N <= N * q
    <2>1. N * p < N * q
      BY <1>1
    <2>2. p < q
      BY <1>1, <2>1
    <2>3. p + 1 <= q
      BY <1>1, <2>2
    <2>4. N * (p + 1) <= N * q
      BY <1>1, <2>3
    <2> QED  BY <1>1, <2>4
  <1> QED  BY <1>1, <1>2

LEMMA SlotIndex ==
    \A s \in Nat : s % Slots \in 0 .. (Slots - 1)
  BY SizeAssumption

-----------------------------------------------------------------------------
LEMMA InitInv == Init => Inv
  <1> SUFFICES ASSUME Init PROVE Inv
    OBVIOUS
  <1>1. TypeOK
    <2>1. 0 \in 0 .. MaxChunks /\ 0 \in 0 .. MaxPhrases
      BY SizeAssumption, BoundAssumption
    <2>2. slots \in [0 .. (Slots - 1) -> 0 .. MaxChunks]
      BY <2>1 DEF Init
    <2> QED  BY <2>1, <2>2 DEF Init, TypeOK, UiPc, AudioPc, AnalysisPc, InferencePc, Utterance
  <1>2. RingInv
    BY SizeAssumption DEF Init, RingInv, RingHoldsChunks
  <1>3. SleepInv
    BY DEF Init, SleepInv, SleeperIsWoken
  <1>4. StopInv
    BY DEF Init, StopInv, SessionIsWhole
  <1> QED  BY <1>1, <1>2, <1>3, <1>4 DEF Inv

(* Types.  Giving back a slot stays below what was published.              *)
LEMMA TypeStep ==
    ASSUME TypeOK, RingInv, Next
    PROVE  TypeOK'
  <1> USE SizeAssumption, BoundAssumption DEF TypeOK
  <1>1. CASE UiStep
    <2>1. CASE Start
      <3>1. CASE Abort
        BY <3>1 DEF Abort, UiPc, ring, workers
      <3>2. CASE ~Abort
        <4>1. 0 \in 0 .. MaxChunks /\ 0 \in 0 .. MaxPhrases
          OBVIOUS
        <4>2. /\ registered' = TRUE /\ running' = TRUE /\ read' = 0 /\ write' = 0
              /\ analysis' = "loop" /\ utterance' = "none" /\ inference' = "loading"
              /\ phrases' = 0 /\ UNCHANGED <<ui, audio, slots>>
          BY <2>1, <3>2 DEF Start
        <4> QED  BY <4>1, <4>2 DEF AnalysisPc, InferencePc, Utterance
      <3> QED  BY <3>1, <3>2
    <2>2. CASE StopCapture
      BY <2>2 DEF StopCapture, UiPc, ring, workers
    <2>3. CASE ClearRunning
      BY <2>3 DEF ClearRunning, UiPc, ring, workers
    <2>4. CASE NotifyAll
      BY <2>4 DEF NotifyAll, Wake, UiPc, InferencePc, ring
    <2>5. CASE JoinAnalysis
      BY <2>5 DEF JoinAnalysis, UiPc, AnalysisPc, ring
    <2>6. CASE JoinInference
      BY <2>6 DEF JoinInference, UiPc, InferencePc, ring
    <2> QED  BY <1>1, <2>1, <2>2, <2>3, <2>4, <2>5, <2>6 DEF UiStep
  <1>2. CASE AudioStep
    <2>1. CASE AudioBegin
      BY <2>1 DEF AudioBegin, AudioPc, control, workers
    <2>2. CASE AudioPublish
      BY <2>2 DEF AudioPublish, AudioPc, control, workers, RingInv
    <2> QED  BY <1>2, <2>1, <2>2 DEF AudioStep
  <1>3. CASE AnalysisStep
    <2>1. CASE PopAudio
      BY <2>1 DEF PopAudio, AnalysisPc, control, ring
    <2>2. CASE AnalyzeChunk
      <3>1. read' \in 0 .. MaxChunks
        BY <2>2 DEF AnalyzeChunk, RingInv
      <3>2. analysis' \in AnalysisPc /\ utterance' \in Utterance
        BY <2>2 DEF AnalyzeChunk, AnalysisPc, Utterance
      <3> QED  BY <2>2, <3>1, <3>2 DEF AnalyzeChunk, control
    <2>3. CASE LeaveLoop
      BY <2>3 DEF LeaveLoop, AnalysisPc, control, ring
    <2>4. CASE QueuePhrase
      BY <2>4 DEF QueuePhrase, AnalysisPc, Utterance, control, ring
    <2>5. CASE NotifyOne
      BY <2>5 DEF NotifyOne, Wake, AnalysisPc, InferencePc, control, ring
    <2> QED  BY <1>3, <2>1, <2>2, <2>3, <2>4, <2>5 DEF AnalysisStep
  <1>4. CASE InferenceStep
    <2>1. CASE CheckPhrases
      BY <2>1 DEF CheckPhrases, InferencePc, control, ring
    <2>2. CASE LoadModelFails
      BY <2>2 DEF LoadModelFails, InferencePc, ring
    <2>3. CASE LoadModel \/ FallAsleep \/ SpuriousWakeup \/ Transcribe
      BY <2>3 DEF LoadModel, FallAsleep, SpuriousWakeup, Transcribe, InferencePc, control, ring
    <2> QED  BY <1>4, <2>1, <2>2, <2>3 DEF InferenceStep
  <1> QED  BY <1>1, <1>2, <1>3, <1>4 DEF Next

(* Only a worker that has found no phrase goes to sleep, and while it      *)
(* holds the mutex none is queued.                                         *)
LEMMA SleepStep ==
    ASSUME TypeOK, SleepInv, Next
    PROVE  SleepInv'
  <1> USE DEF SleepInv, SleeperIsWoken
  <1>1. phrases \in Nat
    BY DEF TypeOK
  <1>2. CASE UiStep
    BY <1>2 DEF UiStep, Start, Abort, StopCapture, ClearRunning, NotifyAll, Wake,
                JoinAnalysis, JoinInference, workers
  <1>3. CASE AudioStep
    BY <1>3 DEF AudioStep, AudioBegin, AudioPublish, workers
  <1>4. CASE AnalysisStep
    <2>1. CASE PopAudio \/ AnalyzeChunk \/ LeaveLoop
      BY <2>1 DEF PopAudio, AnalyzeChunk, LeaveLoop
    <2>2. CASE QueuePhrase
      BY <2>2 DEF QueuePhrase
    <2>3. CASE NotifyOne
      BY <2>3 DEF NotifyOne, Wake
    <2> QED  BY <1>4, <2>1, <2>2, <2>3 DEF AnalysisStep
  <1>5. CASE InferenceStep
    BY <1>1, <1>5 DEF InferenceStep, LoadModel, LoadModelFails, CheckPhrases, FallAsleep,
                      SpuriousWakeup, Transcribe
  <1> QED  BY <1>2, <1>3, <1>4, <1>5 DEF Next

(* The workers end by themselves but are only gone when joined.            *)
LEMMA StopStep ==
    ASSUME TypeOK, StopInv, Next
    PROVE  StopInv'
  <1> USE DEF StopInv, SessionIsWhole
  <1>1. registered \in BOOLEAN /\ running \in BOOLEAN /\ ui \in UiPc
    BY DEF TypeOK
  <1>2. CASE UiStep
    <2>1. CASE Start
      BY <1>1, <2>1 DEF Start, Abort, workers
    <2>2. CASE StopCapture
      BY <1>1, <2>2 DEF StopCapture, workers
    <2>3. CASE ClearRunning \/ NotifyAll
      BY <1>1, <2>3 DEF ClearRunning, NotifyAll, Wake, workers
    <2>4. CASE JoinAnalysis \/ JoinInference
      BY <1>1, <2>4 DEF JoinAnalysis, JoinInference
    <2> QED  BY <1>2, <2>1, <2>2, <2>3, <2>4 DEF UiStep
  <1>3. CASE AudioStep
    BY <1>3 DEF AudioStep, AudioBegin, AudioPublish, control, workers
  <1>4. CASE AnalysisStep
    <2>1. /\ UNCHANGED control
          /\ (analysis' = "none") = (analysis = "none")
          /\ (inference' = "none") = (inference = "none")
      BY <1>4 DEF AnalysisStep, PopAudio, AnalyzeChunk, LeaveLoop, QueuePhrase, NotifyOne, Wake
    <2> QED  BY <2>1 DEF control
  <1>5. CASE InferenceStep
    <2>1. /\ UNCHANGED <<ui, registered, analysis>>
          /\ running' = running \/ running' = FALSE
          /\ (inference' = "none") = (inference = "none")
      BY <1>5 DEF InferenceStep, LoadModel, LoadModelFails, CheckPhrases, FallAsleep,
                  SpuriousWakeup, Transcribe, control
    <2> QED  BY <1>1, <2>1
  <1> QED  BY <1>2, <1>3, <1>4, <1>5 DEF Next

(* The ring.  The audio thread decides by a read sequence that can only    *)
(* have grown since.                                                       *)
LEMMA RingStep ==
    ASSUME TypeOK, RingInv, StopInv, Next
    PROVE  RingInv'
  <1>1. /\ read \in 0 .. MaxChunks /\ write \in 0 .. MaxChunks
        /\ slots \in [0 .. (Slots - 1) -> 0 .. MaxChunks]
        /\ Slots \in Nat \ {0} /\ MaxChunks \in Nat
    BY SizeAssumption, BoundAssumption DEF TypeOK
  <1>2. /\ read <= write /\ write - read <= Slots
        /\ analysis = "copying" => read < write
        /\ audio = "copying" => /\ registered /\ write < MaxChunks /\ write - read < Slots
                                /\ slots[write % Slots] = write
        /\ \A i \in read .. (write - 1) : slots[i % Slots] = i
    BY DEF RingInv, RingHoldsChunks
  <1>3. CASE AudioBegin
    <2>1. /\ registered /\ registered' = registered /\ write - read < Slots /\ write < MaxChunks
          /\ slots' = [slots EXCEPT ![write % Slots] = write]
          /\ UNCHANGED <<read, write, analysis>>
      BY <1>3 DEF AudioBegin, control, workers
    <2>2. write % Slots \in 0 .. (Slots - 1)
      <3>1. write \in Nat
        BY <1>1
      <3> QED  BY <3>1, SlotIndex, Zenon
    <2>3. slots'[write % Slots] = write
      BY <1>1, <2>1, <2>2
    <2>4. ASSUME NEW i \in read .. (write - 1)
          PROVE  slots'[i % Slots] = i
      <3>1. i \in Nat /\ write \in Nat /\ Slots \in Nat \ {0}
            /\ i < write /\ write - i < Slots
        BY <1>1, <2>1
      <3>2. i % Slots # write % Slots
        BY <3>1, OwnSlots, Zenon
      <3>3. i % Slots \in 0 .. (Slots - 1)
        BY <3>1, SlotIndex, Zenon
      <3> QED  BY <1>1, <1>2, <2>1, <3>2, <3>3
    <2> QED  BY <1>2, <2>1, <2>3, <2>4 DEF RingInv, RingHoldsChunks
  <1>4. CASE AudioPublish
    <2>1. /\ audio = "copying" /\ audio' = "idle" /\ write' = write + 1
          /\ UNCHANGED <<read, slots, analysis>>
      BY <1>4 DEF AudioPublish, control, workers
    <2>2. /\ write - read < Slots /\ slots[write % Slots] = write
      BY <1>2, <2>1
    <2>3. ASSUME NEW i \in read .. write
          PROVE  slots[i % Slots] = i
      <3>1. i \in read .. (write - 1) \/ i = write
        BY <1>1
      <3> QED  BY <1>2, <2>2, <3>1
    <2>4. write' - 1 = write
      BY <1>1, <2>1
    <2>5. read' <= write' /\ write' - read' <= Slots /\ (analysis' = "copying" => read' < write')
      BY <1>1, <1>2, <2>1, <2>2
    <2>6. RingHoldsChunks'
      BY <2>1, <2>3, <2>4 DEF RingHoldsChunks
    <2> QED  BY <2>1, <2>5, <2>6 DEF RingInv
  <1>5. CASE PopAudio
    <2>1. read # write /\ UNCHANGED <<registered, audio, read, write, slots>>
      BY <1>5 DEF PopAudio, control, ring
    <2> QED  BY <1>1, <1>2, <2>1 DEF RingInv, RingHoldsChunks
  <1>6. CASE AnalyzeChunk
    <2>1. /\ analysis = "copying" /\ analysis' # "copying" /\ read' = read + 1
          /\ UNCHANGED <<registered, audio, write, slots>>
      BY <1>6 DEF AnalyzeChunk, control
    <2>2. read < write
      BY <1>2, <2>1
    <2>3. read' <= write' /\ write' - read' <= Slots /\ write' - read' < write - read
      BY <1>1, <1>2, <2>1, <2>2
    <2>4. RingHoldsChunks'
      <3>1. \A i \in read' .. (write' - 1) : i \in read .. (write - 1)
        BY <1>1, <2>1
      <3>2. \A i \in read' .. (write' - 1) : slots'[i % Slots] = i
        BY <1>2, <2>1, <3>1
      <3> QED  BY <3>2 DEF RingHoldsChunks
    <2>5. audio' = "copying" => write' - read' < Slots
      BY <1>1, <1>2, <2>1, <2>3
    <2> QED  BY <1>2, <2>1, <2>3, <2>4, <2>5 DEF RingInv
  <1>7. CASE Start
    <2>1. CASE Abort
      BY <2>1 DEF Abort, ring, workers, RingInv, RingHoldsChunks
    <2>2. CASE ~Abort
      <3>1. /\ ui = "idle" /\ analysis = "none" /\ analysis' = "loop"
            /\ read' = 0 /\ write' = 0 /\ audio' = audio
        BY <1>7, <2>2 DEF Start
      <3>2. audio # "copying"
        <4>1. ~registered
          BY <3>1 DEF StopInv, SessionIsWhole, TypeOK
        <4> QED  BY <1>2, <4>1
      <3>3. \A i \in 0 .. (0 - 1) : FALSE
        OBVIOUS
      <3>4. RingHoldsChunks'
        BY <3>1, <3>3 DEF RingHoldsChunks
      <3> QED  BY <1>1, <3>1, <3>2, <3>4 DEF RingInv
    <2> QED  BY <2>1, <2>2
  <1>8. CASE StopCapture
    BY <1>8 DEF StopCapture, ring, workers, RingInv, RingHoldsChunks
  <1>9. ASSUME UNCHANGED <<registered, ring>>, analysis' = analysis \/ analysis' # "copying"
        PROVE  RingInv'
    BY <1>9 DEF ring, RingInv, RingHoldsChunks
  <1>10. CASE ClearRunning \/ NotifyAll \/ JoinAnalysis \/ JoinInference
    BY <1>9, <1>10 DEF ClearRunning, NotifyAll, JoinAnalysis, JoinInference, workers
  <1>11. CASE LeaveLoop \/ QueuePhrase \/ NotifyOne
    <2>1. UNCHANGED <<registered, ring>> /\ analysis' # "copying"
      BY <1>11 DEF LeaveLoop, QueuePhrase, NotifyOne, control
    <2> QED  BY <1>9, <2>1
  <1>12. CASE InferenceStep
    <2>1. UNCHANGED <<registered, ring>> /\ analysis' = analysis
      BY <1>12 DEF InferenceStep, LoadModel, LoadModelFails, CheckPhrases, FallAsleep,
                   SpuriousWakeup, Transcribe, control
    <2> QED  BY <1>9, <2>1
  <1> QED  BY <1>3, <1>4, <1>5, <1>6, <1>7, <1>8, <1>10, <1>11, <1>12
           DEF Next, UiStep, AudioStep, AnalysisStep

LEMMA StepInv == Inv /\ [Next]_vars => Inv'
  <1> SUFFICES ASSUME Inv, [Next]_vars PROVE Inv'
    OBVIOUS
  <1>1. CASE Next
    BY <1>1, TypeStep, RingStep, SleepStep, StopStep DEF Inv
  <1>2. CASE UNCHANGED vars
    BY <1>2 DEF vars, control, ring, workers, Inv, TypeOK, RingInv, RingHoldsChunks,
                SleepInv, SleeperIsWoken, StopInv, SessionIsWhole
  <1> QED  BY <1>1, <1>2

-----------------------------------------------------------------------------
(* The inductive invariant of the threads: what each may rely on at the    *)
(* point where it is.                                                      *)
THEOREM ThreadsInvCorrect == Spec => []Inv
  <1> QED  BY InitInv, StepInv, PTL DEF Spec

(* Every variable keeps its type; in particular the backlog of phrases     *)
(* stays within its limit.                                                 *)
THEOREM ProviderTypeCorrect == Spec => []TypeOK
  <1>1. Inv => TypeOK
    BY DEF Inv
  <1> QED  BY <1>1, ThreadsInvCorrect, PTL

(* No published chunk is overwritten before it is copied, for any size of  *)
(* the ring.                                                               *)
THEOREM RingAlwaysHoldsChunks == Spec => []RingHoldsChunks
  <1>1. Inv => RingHoldsChunks
    BY DEF Inv, RingInv
  <1> QED  BY <1>1, ThreadsInvCorrect, PTL

(* No phrase waits for a sleeping worker without a notification to come.   *)
THEOREM SleeperIsAlwaysWoken == Spec => []SleeperIsWoken
  <1>1. Inv => SleeperIsWoken
    BY DEF Inv, SleepInv
  <1> QED  BY <1>1, ThreadsInvCorrect, PTL

(* Capture and workers of a session exist together.                        *)
THEOREM SessionIsAlwaysWhole == Spec => []SessionIsWhole
  <1>1. Inv => SessionIsWhole
    BY DEF Inv, StopInv
  <1> QED  BY <1>1, ThreadsInvCorrect, PTL

-----------------------------------------------------------------------------
(* The stop gets past the analysis worker.                                 *)

(* A phrase that was queued is no longer the utterance.                    *)
QueuedIsOver == analysis = "notify" => utterance = "none"

LEMMA QueuedIsOverStep == QueuedIsOver /\ [Next]_vars => QueuedIsOver'
  <1> SUFFICES ASSUME QueuedIsOver, [Next]_vars PROVE QueuedIsOver'
    OBVIOUS
  <1> USE DEF QueuedIsOver
  <1>1. CASE UiStep
    BY <1>1 DEF UiStep, Start, Abort, StopCapture, ClearRunning, NotifyAll, JoinAnalysis,
                JoinInference, workers
  <1>2. CASE AudioStep
    BY <1>2 DEF AudioStep, AudioBegin, AudioPublish, workers
  <1>3. CASE AnalysisStep
    BY <1>3 DEF AnalysisStep, PopAudio, AnalyzeChunk, LeaveLoop, QueuePhrase, NotifyOne
  <1>4. CASE InferenceStep
    BY <1>4 DEF InferenceStep, LoadModel, LoadModelFails, CheckPhrases, FallAsleep,
                SpuriousWakeup, Transcribe
  <1>5. CASE UNCHANGED vars
    BY <1>5 DEF vars, workers
  <1> QED  BY <1>1, <1>2, <1>3, <1>4, <1>5 DEF Next

(* The way of the analysis worker once the UI thread waits for it.         *)
Joining == ui = "joinAnalysis"
Copying == Joining /\ analysis = "copying"
Spoken  == Joining /\ analysis = "loop" /\ utterance = "long"
Locked  == Joining /\ analysis = "phrase" /\ inference = "blocking"
Phrase  == Joining /\ analysis = "phrase" /\ inference # "blocking"
Queued  == Joining /\ analysis = "notify"
Silent  == Joining /\ analysis = "loop" /\ utterance # "long"
Ended   == Joining /\ analysis = "exited"

(* It never goes back on this way, and no other thread moves it.           *)
LEMMA AnalysisWay ==
    ASSUME Inv, QueuedIsOver, Joining, AnalysisStep
    PROVE  /\ Copying => Spoken' \/ Locked' \/ Phrase' \/ Silent'
           /\ Spoken => Locked' \/ Phrase'
           /\ ~Locked
           /\ Phrase => Queued'
           /\ Queued => Silent'
           /\ Silent => Ended'
           /\ ~Ended
  <1>1. ~running /\ ui' = ui /\ inference \in InferencePc
    BY DEF Inv, TypeOK, StopInv, Joining, AnalysisStep, PopAudio, AnalyzeChunk, LeaveLoop,
           QueuePhrase, NotifyOne, control
  <1> USE DEF Joining, Copying, Spoken, Locked, Phrase, Queued, Silent, Ended
  <1>2. ~PopAudio
    BY <1>1 DEF PopAudio
  <1>3. CASE AnalyzeChunk
    BY <1>1, <1>3 DEF AnalyzeChunk
  <1>4. CASE LeaveLoop
    BY <1>1, <1>4 DEF LeaveLoop
  <1>5. CASE QueuePhrase
    BY <1>1, <1>5 DEF QueuePhrase
  <1>6. CASE NotifyOne
    BY <1>1, <1>6 DEF NotifyOne, QueuedIsOver
  <1> QED  BY <1>2, <1>3, <1>4, <1>5, <1>6 DEF AnalysisStep

(* The others: only the UI thread ends the wait, for a worker that has     *)
(* ended, and the inference worker, which is told to stop, does not go to  *)
(* sleep any more.                                                         *)
LEMMA OthersStep ==
    ASSUME Inv, Joining, [Next]_vars, ~AnalysisStep
    PROVE  \/ ~Joining' /\ analysis = "exited"
           \/ /\ Joining' /\ UNCHANGED <<analysis, utterance>>
              /\ inference' = "blocking" => inference = "blocking"
  <1> USE DEF Joining
  <1>1. ~running /\ ~registered
    BY DEF Inv, StopInv
  <1>2. CASE UiStep
    BY <1>2 DEF UiStep, Start, Abort, StopCapture, ClearRunning, NotifyAll, JoinAnalysis,
                JoinInference
  <1>3. CASE AudioStep
    BY <1>3 DEF AudioStep, AudioBegin, AudioPublish, workers, control
  <1>4. CASE InferenceStep
    BY <1>1, <1>4 DEF InferenceStep, LoadModel, LoadModelFails, CheckPhrases, FallAsleep,
                      SpuriousWakeup, Transcribe, control
  <1>5. CASE UNCHANGED vars
    BY <1>5 DEF vars, workers, control
  <1> QED  BY <1>2, <1>3, <1>4, <1>5 DEF Next

(* What TLAPS has no rule for: which threads can run.                      *)
ThreadsEnabled ==
    /\ (Copying \/ Spoken \/ Phrase \/ Queued \/ Silent)
         => ENABLED <<Alive /\ AnalysisStep>>_vars
    /\ inference = "blocking" => ENABLED <<Alive /\ (CheckPhrases \/ FallAsleep)>>_vars
    /\ Ended => ENABLED <<Alive /\ (ClearRunning \/ NotifyAll \/ JoinAnalysis
                                      \/ JoinInference)>>_vars

(* A stop never hangs on the analysis worker: whatever is being said, it   *)
(* gets through its last phrase and ends, as the inference worker cannot   *)
(* hold the mutex against it for ever.                                     *)
THEOREM AnalysisAlwaysStops == FairSpec /\ []ThreadsEnabled => AnalysisStops
  <1> DEFINE I == Inv /\ QueuedIsOver
             W == Alive /\ AnalysisStep
             F == Alive /\ (CheckPhrases \/ FallAsleep)
             U == Alive /\ (ClearRunning \/ NotifyAll \/ JoinAnalysis \/ JoinInference)
  <1>1. Init => QueuedIsOver
    BY DEF Init, QueuedIsOver
  <1>2. I /\ Copying /\ [Next]_vars => Copying' \/ (Spoken' \/ Locked' \/ Phrase' \/ Silent')
    BY AnalysisWay, OthersStep DEF Copying, Joining
  <1>3. I /\ Copying /\ <<W>>_vars => Spoken' \/ Locked' \/ Phrase' \/ Silent'
    BY AnalysisWay DEF Copying
  <1>4. I /\ Spoken /\ [Next]_vars => Spoken' \/ (Locked' \/ Phrase')
    BY AnalysisWay, OthersStep DEF Spoken, Joining
  <1>5. I /\ Spoken /\ <<W>>_vars => Locked' \/ Phrase'
    BY AnalysisWay DEF Spoken
  <1>6. I /\ Locked /\ [Next]_vars => Locked' \/ Phrase'
    BY AnalysisWay, OthersStep DEF Locked, Phrase, Joining
  <1>7. I /\ Locked /\ [Next]_vars /\ <<F>>_vars => Phrase'
    <2> SUFFICES ASSUME I, Locked, [Next]_vars, F PROVE Phrase'
      OBVIOUS
    <2>1. inference' # "blocking"
      BY DEF CheckPhrases, FallAsleep, Locked
    <2>2. ~Locked'
      BY <2>1 DEF Locked
    <2> HIDE DEF F
    <2> QED  BY <1>6, <2>2
  <1>8. I /\ Phrase /\ [Next]_vars => Phrase' \/ Queued'
    BY AnalysisWay, OthersStep DEF Phrase, Joining
  <1>9. I /\ Phrase /\ <<W>>_vars => Queued'
    BY AnalysisWay DEF Phrase
  <1>10. I /\ Queued /\ [Next]_vars => Queued' \/ Silent'
    BY AnalysisWay, OthersStep DEF Queued, Joining
  <1>11. I /\ Queued /\ <<W>>_vars => Silent'
    BY AnalysisWay DEF Queued
  <1>12. I /\ Silent /\ [Next]_vars => Silent' \/ Ended'
    BY AnalysisWay, OthersStep DEF Silent, Joining
  <1>13. I /\ Silent /\ <<W>>_vars => Ended'
    BY AnalysisWay DEF Silent
  <1>14. I /\ Ended /\ [Next]_vars => Ended' \/ ~Joining'
    BY AnalysisWay, OthersStep DEF Ended, Joining
  <1>15. Ended /\ <<U>>_vars => ~Joining'
    BY DEF Ended, Joining, ClearRunning, NotifyAll, JoinAnalysis, JoinInference
  <1>16. I /\ Joining => Copying \/ Spoken \/ Locked \/ Phrase \/ Queued \/ Silent \/ Ended
    BY DEF Inv, TypeOK, StopInv, AnalysisPc, Joining, Copying, Spoken, Locked, Phrase, Queued,
           Silent, Ended
  <1>17. Locked => inference = "blocking"
    BY DEF Locked
  <1>18. (ui = "joinAnalysis" <=> Joining) /\ (ui # "joinAnalysis" <=> ~Joining)
    BY DEF Joining
  <1> QED
    BY <1>1, <1>2, <1>3, <1>4, <1>5, <1>6, <1>7, <1>8, <1>9, <1>10, <1>11, <1>12, <1>13, <1>14,
       <1>15, <1>16, <1>17, <1>18, QueuedIsOverStep, ThreadsInvCorrect, PTL
       DEF FairSpec, Spec, Fairness, ThreadsEnabled, AnalysisStops

=============================================================================
