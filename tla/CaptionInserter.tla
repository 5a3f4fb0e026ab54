--------------------------- MODULE CaptionInserter ---------------------------
(***************************************************************************)
(* The caption queue of src/src/captions/cea608_caption_inserter.cpp.      *)
(*                                                                         *)
(* Every method and the timer run on the Qt UI thread.  The plugin starts  *)
(* and stops sessions; phrases arrive whenever the recognizer is done with *)
(* them, also before, after and between sessions; the timer comes as late  *)
(* as the UI thread lets it.  Time is counted in ticks; what the code      *)
(* derives from the clock is the distance to now, so that is what the      *)
(* model keeps, up to the distance from which on nothing differs.          *)
(*                                                                         *)
(* Left out: the text, style and placement of a caption (a phrase is the   *)
(* number of screens formatSegments makes of it), and log messages.        *)
(***************************************************************************)
EXTENDS Integers, Sequences

CONSTANTS
    Delay,        \* delays callers configure, in ticks
    Gap,          \* kMinimumCaptionGapMs
    Lateness,     \* kMaximumLatenessMs
    MaxQueued,    \* kMaximumQueuedCaptions
    MaxRecent,    \* kMaximumRecentSegments
    MaxScreens,   \* bound: screens of one phrase
    MaxReceived,  \* bound: phrases received in one session
    MaxSequence   \* bound: screens numbered in one session

ASSUME DelayAssumption == Delay \subseteq Nat
ASSUME LimitAssumption == Gap \in Nat /\ Lateness \in Nat
ASSUME SizeAssumption  == MaxQueued \in Nat \ {0} /\ MaxRecent \in Nat \ {0}
ASSUME BoundAssumption == MaxScreens \in Nat /\ MaxReceived \in Nat /\ MaxSequence \in Nat

VARIABLES
    enabled,    \* Impl::enabled
    active,     \* Impl::active; the timer runs if so
    delay,      \* currentHealth.delayMs
    queue,      \* the screens to insert, oldest first
    next,       \* nextSequence
    since,      \* ticks since lastDelivery, Gap for Gap or more and for none
    state,      \* currentHealth.state
    failed,     \* currentHealth.lastError is not empty
    counts,     \* currentHealth.received, inserted, dropped
    recent,     \* currentHealth.recentSegments
    rejected    \* history: phrases of the session with no text to show

session == <<queue, next, since, counts, recent, rejected>>
vars    == <<enabled, active, delay, state, failed, session>>

State == {"Disabled", "Ready", "Starting", "Healthy", "Degraded", "Error"}

(* due is dueAt - now; at TooLate the caption is past kMaximumLatenessMs.  *)
TooLate == -(Lateness + 1)
Pending == [sequence : Nat \ {0}, due : {d \in Int : d >= TooLate}]
Segment == [sequence : Nat \ {0}, delivered : BOOLEAN]
Counts  == [received : Nat, inserted : Nat, dropped : Nat]

TypeOK ==
    /\ enabled \in BOOLEAN
    /\ active \in BOOLEAN
    /\ delay \in Delay \cup {0}
    /\ queue \in Seq(Pending) /\ Len(queue) <= MaxQueued
    /\ next \in 1..(MaxSequence + 1)
    /\ since \in 0..Gap
    /\ state \in State
    /\ failed \in BOOLEAN
    /\ counts \in Counts
    /\ recent \in Seq(Segment) /\ Len(recent) <= MaxRecent
    /\ rejected \in Nat

NoCounts == [received |-> 0, inserted |-> 0, dropped |-> 0]

Init ==
    /\ enabled = FALSE
    /\ active = FALSE
    /\ delay = 0
    /\ queue = <<>>
    /\ next = 1
    /\ since = Gap
    /\ state = "Disabled"
    /\ failed = FALSE
    /\ counts = NoCounts
    /\ recent = <<>>
    /\ rejected = 0

-----------------------------------------------------------------------------
RestState(on) == IF on THEN "Ready" ELSE "Disabled"

Configure(on, d) ==
    /\ enabled' = on
    /\ delay' = d
    /\ state' = IF active THEN state ELSE RestState(on)
    /\ UNCHANGED <<active, failed, session>>

(* A session starts over: also over one that is running.                   *)
Start ==
    /\ queue' = <<>>
    /\ since' = Gap
    /\ active' = enabled
    /\ counts' = NoCounts
    /\ failed' = FALSE
    /\ recent' = <<>>
    /\ next' = 1
    /\ rejected' = 0
    /\ state' = IF enabled THEN "Starting" ELSE "Disabled"
    /\ UNCHANGED <<enabled, delay>>

Stop ==
    /\ active' = FALSE
    /\ failed' = (failed \/ queue # <<>>)
    /\ counts' = [counts EXCEPT !.dropped = @ + Len(queue)]
    /\ queue' = <<>>
    /\ state' = RestState(enabled)
    /\ UNCHANGED <<enabled, delay, next, since, recent, rejected>>

\* bug: the newest screens are refused, the numbering goes on
SubmitRefusingNewest(n) ==
    LET new   == [i \in 1..n |-> [sequence |-> next + i - 1, due |-> delay]]
        all   == queue \o new
        kept  == IF Len(all) > MaxQueued THEN MaxQueued ELSE Len(all)
    IN  /\ queue' = SubSeq(all, 1, kept)
        /\ next' = next + n
        /\ counts' = [counts EXCEPT !.received = @ + 1, !.dropped = @ + Len(all) - kept]
        /\ failed' = (failed \/ Len(all) > kept)
        /\ state' = IF Len(all) > kept THEN "Degraded" ELSE state
        /\ UNCHANGED rejected

\* bug: the capacity is forgotten
SubmitUnbounded(n) ==
    /\ queue' = queue \o [i \in 1..n |-> [sequence |-> next + i - 1, due |-> delay]]
    /\ next' = next + n
    /\ counts' = [counts EXCEPT !.received = @ + 1]
    /\ UNCHANGED <<state, failed, rejected>>

(* submit of a phrase that makes n screens.  Screens beyond the capacity   *)
(* push out the oldest ones.                                               *)
SubmitScreens(n) ==
    LET new      == [i \in 1..n |-> [sequence |-> next + i - 1, due |-> delay]]
        all      == queue \o new
        overflow == IF Len(all) > MaxQueued THEN Len(all) - MaxQueued ELSE 0
    IN  /\ queue' = SubSeq(all, overflow + 1, Len(all))
        /\ next' = next + n
        /\ counts' = [counts EXCEPT !.received = @ + 1, !.dropped = @ + overflow]
        /\ failed' = (failed \/ overflow > 0)
        /\ state' = IF overflow > 0 THEN "Degraded" ELSE state
        /\ UNCHANGED rejected

\* bug: a phrase without text is not counted
SubmitNothingUncounted ==
    /\ counts' = [counts EXCEPT !.received = @ + 1]
    /\ failed' = TRUE
    /\ state' = "Degraded"
    /\ rejected' = rejected + 1
    /\ UNCHANGED <<queue, next>>

SubmitNothing ==
    /\ counts' = [counts EXCEPT !.received = @ + 1, !.dropped = @ + 1]
    /\ failed' = TRUE
    /\ state' = "Degraded"
    /\ rejected' = rejected + 1
    /\ UNCHANGED <<queue, next>>

Submit(n) ==
    /\ active
    /\ counts.received < MaxReceived /\ next + n <= MaxSequence + 1
    /\ \/ n = 0 /\ SubmitNothing
       \/ n > 0 /\ SubmitScreens(n)
    /\ UNCHANGED <<enabled, active, delay, since, recent>>

SetProviderStatus(error) ==
    /\ failed' = (failed \/ error)
    /\ state' = IF error THEN "Error"
                ELSE IF active /\ state # "Healthy" THEN "Starting"
                ELSE state
    /\ UNCHANGED <<enabled, active, delay, session>>

-----------------------------------------------------------------------------
(* The timer.                                                              *)

Record(delivered) ==
    LET all == Append(recent, [sequence |-> Head(queue).sequence, delivered |-> delivered])
    IN  recent' = IF Len(all) > MaxRecent THEN Tail(all) ELSE all

Deliver ==
    /\ Record(TRUE)
    /\ counts' = [counts EXCEPT !.inserted = @ + 1]
    /\ failed' = FALSE
    /\ state' = "Healthy"
    /\ queue' = Tail(queue)
    /\ since' = 0

\* bug: a screen no output takes is retried for ever
NeverGiveUp ==
    /\ failed' = TRUE
    /\ state' = "Error"
    /\ UNCHANGED <<queue, since, counts, recent>>

(* No output took it and it is too late to try again.                      *)
GiveUp ==
    /\ Head(queue).due = TooLate
    /\ Record(FALSE)
    /\ counts' = [counts EXCEPT !.dropped = @ + 1]
    /\ failed' = TRUE
    /\ state' = "Error"
    /\ queue' = Tail(queue)
    /\ UNCHANGED since

(* The callback may fail without a word.                                   *)
RetryLater ==
    /\ Head(queue).due # TooLate
    /\ failed' \in BOOLEAN
    /\ state' = "Degraded"
    /\ UNCHANGED <<queue, since, counts, recent>>

Tick ==
    /\ active /\ queue # <<>>
    /\ Head(queue).due <= 0
    /\ since >= Gap
    /\ Deliver \/ GiveUp \/ RetryLater
    /\ UNCHANGED <<enabled, active, delay, next, rejected>>

(* steady_clock moves on.                                                  *)
Elapse ==
    /\ since' = IF since < Gap THEN since + 1 ELSE Gap
    /\ queue' = [i \in DOMAIN queue |->
                   [queue[i] EXCEPT !.due = IF @ > TooLate THEN @ - 1 ELSE TooLate]]
    /\ UNCHANGED <<enabled, active, delay, state, failed, next, counts, recent, rejected>>

-----------------------------------------------------------------------------
Next ==
    \/ \E on \in BOOLEAN, d \in Delay : Configure(on, d)
    \/ Start
    \/ Stop
    \/ \E n \in 0..MaxScreens : Submit(n)
    \/ \E error \in BOOLEAN : SetProviderStatus(error)
    \/ Tick
    \/ Elapse

Spec == Init /\ [][Next]_vars

(* The event loop serves the timer and time goes on; nothing is assumed of *)
(* the outputs: every delivery may fail.                                   *)
FairSpec == Spec /\ WF_vars(Tick) /\ WF_vars(Elapse)

-----------------------------------------------------------------------------
(* Nothing is lost without being counted: each screen the session has      *)
(* numbered was inserted, dropped or still waits, also over overflow, late *)
(* failures and the end of the session.                                    *)
CaptionsAccountedFor ==
    counts.inserted + counts.dropped + Len(queue) = (next - 1) + rejected

(* The queue holds the youngest screens of the session without a hole, so  *)
(* a phrase is never shown with its middle missing while both ends wait.   *)
QueueIsContiguous ==
    \A i \in DOMAIN queue : queue[i].sequence = (next - 1 - Len(queue)) + i

(* Screens reach the outputs once each and in the order they were spoken,  *)
(* the monitor lists them so, and those that wait are without a hole.      *)
ShownInOrder ==
    /\ QueueIsContiguous
    /\ \A i, j \in DOMAIN recent : i < j => recent[i].sequence < recent[j].sequence
    /\ \A i \in DOMAIN recent, j \in DOMAIN queue : recent[i].sequence < queue[j].sequence

(* Every screen is shown, dropped or withdrawn in the end, even if no      *)
(* output ever takes one: a failing output cannot block the queue.         *)
Waiting(n) == \E i \in DOMAIN queue : queue[i].sequence = n
ScreensSettle == \A n \in 1..MaxSequence : Waiting(n) ~> ~Waiting(n)

=============================================================================
