------------------------ MODULE CaptionInserterProofs ------------------------
(* Proofs about CaptionInserter, for every delay, limit and capacity.      *)
EXTENDS CaptionInserter, SequenceTheorems, TLAPS

(* The invariant is inductive with one addition: what the monitor lists    *)
(* comes before the whole queue, also before a queue that is empty and     *)
(* will be filled from next on.                                            *)
HistoryBeforeQueue ==
    \A i \in DOMAIN recent : recent[i].sequence < next - Len(queue)

HistoryInOrder ==
    \A i, j \in DOMAIN recent : i < j => recent[i].sequence < recent[j].sequence

(* A stopped inserter keeps no caption: none of an earlier session can     *)
(* appear in the next one.                                                 *)
NothingWaitsUnlessActive == queue # <<>> => active

(* The dock calls captions healthy only in a session that inserted one and *)
(* has reported no error since.                                            *)
HealthyMeansInserted ==
    state = "Healthy" => active /\ counts.inserted > 0 /\ ~failed

Inv ==
    /\ TypeOK
    /\ CaptionsAccountedFor
    /\ QueueIsContiguous
    /\ HistoryInOrder
    /\ HistoryBeforeQueue
    /\ NothingWaitsUnlessActive
    /\ HealthyMeansInserted

(* What the type invariant says of the numbers, element by element.        *)
LEMMA TypeFacts ==
    ASSUME TypeOK
    PROVE  /\ next \in Nat \ {0} /\ rejected \in Nat /\ delay \in Nat
           /\ Gap \in Nat /\ Lateness \in Nat /\ MaxSequence \in Nat
           /\ MaxQueued \in Nat \ {0} /\ MaxRecent \in Nat \ {0}
           /\ counts.received \in Nat /\ counts.inserted \in Nat /\ counts.dropped \in Nat
           /\ counts = [received |-> counts.received, inserted |-> counts.inserted,
                        dropped |-> counts.dropped]
           /\ queue \in Seq(Pending) /\ Len(queue) \in Nat /\ DOMAIN queue = 1..Len(queue)
           /\ recent \in Seq(Segment) /\ Len(recent) \in Nat /\ DOMAIN recent = 1..Len(recent)
           /\ \A i \in DOMAIN queue : queue[i] \in Pending /\ queue[i].sequence \in Nat
           /\ \A i \in DOMAIN recent : recent[i] \in Segment /\ recent[i].sequence \in Nat
<1>1. next \in Nat \ {0} /\ rejected \in Nat /\ MaxSequence \in Nat
    BY BoundAssumption DEF TypeOK
<1>2. delay \in Nat
    BY DelayAssumption DEF TypeOK
<1>3. Gap \in Nat /\ Lateness \in Nat /\ MaxQueued \in Nat \ {0} /\ MaxRecent \in Nat \ {0}
    BY LimitAssumption, SizeAssumption
<1>4. /\ counts.received \in Nat /\ counts.inserted \in Nat /\ counts.dropped \in Nat
      /\ counts = [received |-> counts.received, inserted |-> counts.inserted,
                   dropped |-> counts.dropped]
    BY DEF TypeOK, Counts
<1>5. queue \in Seq(Pending) /\ recent \in Seq(Segment)
    BY DEF TypeOK
<1>6. /\ Len(queue) \in Nat /\ DOMAIN queue = 1..Len(queue)
      /\ Len(recent) \in Nat /\ DOMAIN recent = 1..Len(recent)
    BY <1>5
<1>7. \A i \in DOMAIN queue : queue[i] \in Pending
    BY <1>5
<1>8. \A i \in DOMAIN recent : recent[i] \in Segment
    BY <1>5
<1>9. \A p \in Pending : p.sequence \in Nat
    BY DEF Pending
<1>10. \A p \in Segment : p.sequence \in Nat
    BY DEF Segment
<1> QED BY <1>1, <1>2, <1>3, <1>4, <1>5, <1>6, <1>7, <1>8, <1>9, <1>10

(* The monitor's order follows from the inductive invariant.               *)
LEMMA InvShowsInOrder == Inv => ShownInOrder
<1> SUFFICES ASSUME Inv PROVE ShownInOrder
    OBVIOUS
<1> USE DEF Inv
<1>1. ASSUME NEW i \in DOMAIN recent, NEW j \in DOMAIN queue
      PROVE  recent[i].sequence < queue[j].sequence
  <2>1. recent[i].sequence < next - Len(queue)
      BY DEF HistoryBeforeQueue
  <2>2. queue[j].sequence = (next - 1 - Len(queue)) + j
      BY DEF QueueIsContiguous
  <2>3. recent[i].sequence \in Nat /\ next \in Nat /\ Len(queue) \in Nat /\ j \in 1..Len(queue)
      BY TypeFacts
  <2> QED BY <2>1, <2>2, <2>3
<1> QED BY <1>1 DEF ShownInOrder, HistoryInOrder

(* A fresh inserter satisfies the invariant.                               *)
LEMMA InvInit == Init => Inv
<1> SUFFICES ASSUME Init PROVE Inv
    OBVIOUS
<1> USE DEF Init
<1>1. TypeOK
  <2>1. <<>> \in Seq(Pending) /\ <<>> \in Seq(Segment) /\ Len(<<>>) = 0
      OBVIOUS
  <2>2. NoCounts \in Counts
      BY DEF NoCounts, Counts
  <2>3. queue \in Seq(Pending) /\ Len(queue) <= MaxQueued
      BY <2>1, SizeAssumption
  <2>4. recent \in Seq(Segment) /\ Len(recent) <= MaxRecent
      BY <2>1, SizeAssumption
  <2>5. /\ next \in 1..(MaxSequence + 1) /\ since \in 0..Gap /\ rejected \in Nat
        /\ state \in State /\ counts \in Counts
      BY <2>2, LimitAssumption, BoundAssumption DEF State
  <2> QED
      BY <2>3, <2>4, <2>5 DEF TypeOK
<1>2. CaptionsAccountedFor
    BY DEF CaptionsAccountedFor, NoCounts
<1> QED
    BY <1>1, <1>2 DEF Inv, QueueIsContiguous, HistoryInOrder, HistoryBeforeQueue,
                      NothingWaitsUnlessActive, HealthyMeansInserted

-----------------------------------------------------------------------------
(* Configuration and sessions.                                             *)

(* configure touches neither the queue nor the counts.                     *)
LEMMA ConfigureKeepsInv ==
    ASSUME Inv, NEW on \in BOOLEAN, NEW d \in Delay, Configure(on, d)
    PROVE  Inv'
<1> USE DEF Inv, Configure, session
<1>1. TypeOK'
    BY DEF TypeOK, RestState, State
<1> QED
    BY <1>1 DEF CaptionsAccountedFor, QueueIsContiguous, HistoryInOrder, HistoryBeforeQueue,
                NothingWaitsUnlessActive, HealthyMeansInserted, RestState

(* start forgets the session before, whatever state that one was in.       *)
LEMMA StartKeepsInv ==
    ASSUME Inv, Start
    PROVE  Inv'
<1> USE DEF Inv, Start
<1>1. TypeOK'
  <2>1. <<>> \in Seq(Pending) /\ <<>> \in Seq(Segment) /\ Len(<<>>) = 0
      OBVIOUS
  <2>2. NoCounts \in Counts
      BY DEF NoCounts, Counts
  <2>3. queue' \in Seq(Pending) /\ Len(queue') <= MaxQueued
      BY <2>1, SizeAssumption
  <2>4. recent' \in Seq(Segment) /\ Len(recent') <= MaxRecent
      BY <2>1, SizeAssumption
  <2>5. /\ next' \in 1..(MaxSequence + 1) /\ since' \in 0..Gap /\ rejected' \in Nat
        /\ state' \in State /\ counts' \in Counts
      BY <2>2, LimitAssumption, BoundAssumption DEF State
  <2>6. enabled' \in BOOLEAN /\ active' \in BOOLEAN /\ delay' \in Delay \cup {0}
        /\ failed' \in BOOLEAN
      BY DEF TypeOK
  <2> QED
      BY <2>3, <2>4, <2>5, <2>6 DEF TypeOK
<1> QED
    BY <1>1 DEF CaptionsAccountedFor, QueueIsContiguous, HistoryInOrder, HistoryBeforeQueue,
                NothingWaitsUnlessActive, HealthyMeansInserted, NoCounts

(* stop counts what it throws away.                                        *)
LEMMA StopKeepsInv ==
    ASSUME Inv, Stop
    PROVE  Inv'
<1> USE DEF Inv, Stop
<1>0. Len(queue) \in Nat /\ counts \in Counts
    BY DEF TypeOK
<1>1. TypeOK'
  <2>1. <<>> \in Seq(Pending) /\ Len(<<>>) = 0
      OBVIOUS
  <2>2. counts' \in Counts
      BY <1>0 DEF Counts
  <2>3. queue' \in Seq(Pending) /\ Len(queue') <= MaxQueued
      BY <2>1, SizeAssumption
  <2>4. state' \in State /\ failed' \in BOOLEAN
      BY DEF TypeOK, State, RestState
  <2> QED
      BY <2>2, <2>3, <2>4 DEF TypeOK
<1>2. CaptionsAccountedFor'
    BY <1>0 DEF CaptionsAccountedFor, Counts, TypeOK
<1>3. HistoryBeforeQueue'
  <2> SUFFICES ASSUME NEW i \in DOMAIN recent PROVE recent[i].sequence < next
      BY DEF HistoryBeforeQueue, TypeOK
  <2>1. recent[i].sequence < next - Len(queue)
      BY DEF HistoryBeforeQueue
  <2>2. recent[i].sequence \in Nat /\ next \in Nat
      BY TypeFacts
  <2> QED BY <2>1, <2>2, <1>0
<1> QED
    BY <1>1, <1>2, <1>3 DEF QueueIsContiguous, HistoryInOrder,
                            NothingWaitsUnlessActive, HealthyMeansInserted, RestState

-----------------------------------------------------------------------------
(* Phrases.                                                                *)

(* The queue after n screens were numbered and the oldest pushed out still *)
(* is the contiguous tail of the numbering.                                *)
LEMMA SubmitScreensKeepsInv ==
    ASSUME Inv, NEW n \in 1..MaxScreens, active, next + n <= MaxSequence + 1,
           SubmitScreens(n), UNCHANGED <<enabled, active, delay, since, recent>>
    PROVE  Inv'
<1> DEFINE new      == [i \in 1..n |-> [sequence |-> next + i - 1, due |-> delay]]
           all      == queue \o new
           overflow == IF Len(all) > MaxQueued THEN Len(all) - MaxQueued ELSE 0
<1> USE DEF Inv
<1>1. /\ next \in Nat \ {0} /\ n \in Nat \ {0} /\ MaxQueued \in Nat \ {0}
      /\ delay \in Nat /\ Lateness \in Nat /\ MaxSequence \in Nat
    BY DelayAssumption, LimitAssumption, SizeAssumption, BoundAssumption DEF TypeOK
<1>2. queue \in Seq(Pending) /\ Len(queue) \in Nat
    BY DEF TypeOK
<1>3. new \in Seq(Pending) /\ Len(new) = n /\ \A i \in 1..n : new[i].sequence = next + i - 1
  <2>1. \A i \in 1..n : [sequence |-> next + i - 1, due |-> delay] \in Pending
      BY <1>1 DEF Pending, TooLate
  <2> QED BY <1>1, <2>1
<1> HIDE DEF new
<1>4. /\ all \in Seq(Pending) /\ Len(all) = Len(queue) + n
      /\ \A i \in 1..Len(all) : all[i] = IF i <= Len(queue) THEN queue[i] ELSE new[i - Len(queue)]
    BY <1>1, <1>2, <1>3
<1>5. \A i \in 1..Len(all) : all[i].sequence = (next - 1 - Len(queue)) + i
  <2> SUFFICES ASSUME NEW i \in 1..Len(all)
               PROVE  all[i].sequence = (next - 1 - Len(queue)) + i
      OBVIOUS
  <2>1. CASE i <= Len(queue)
    <3>1. i \in DOMAIN queue /\ all[i] = queue[i]
        BY <2>1, <1>2, <1>4
    <3> QED BY <3>1 DEF QueueIsContiguous
  <2>2. CASE ~(i <= Len(queue))
    <3> DEFINE k == i - Len(queue)
    <3>1. k \in 1..n
        BY <2>2, <1>1, <1>2, <1>4
    <3>2. all[i] = new[k]
        BY <2>2, <1>4
    <3>3. new[k].sequence = next + k - 1
        BY <3>1, <1>3
    <3> HIDE DEF all
    <3> QED BY <3>1, <3>2, <3>3, <1>1, <1>2
  <2> QED BY <2>1, <2>2
<1>6. /\ queue' = SubSeq(all, overflow + 1, Len(all))
      /\ next' = next + n
      /\ counts' = [counts EXCEPT !.received = @ + 1, !.dropped = @ + overflow]
      /\ failed' = (failed \/ overflow > 0)
      /\ state' = IF overflow > 0 THEN "Degraded" ELSE state
      /\ UNCHANGED <<rejected, enabled, active, delay, since, recent>>
    BY DEF SubmitScreens, new
<1>7. /\ overflow \in Nat /\ overflow <= Len(all)
      /\ Len(all) - overflow <= MaxQueued
    BY <1>1, <1>2, <1>4
<1> HIDE DEF all, overflow
<1>8. /\ queue' \in Seq(Pending) /\ Len(queue') = Len(all) - overflow
      /\ \A i \in 1..Len(queue') : queue'[i] = all[overflow + i]
  <2>1. Len(all) \in Nat
      BY <1>4
  <2>2. \A i \in (overflow + 1)..Len(all) : all[i] \in Pending
      BY <1>4, <1>7, <2>1
  <2>3. SubSeq(all, overflow + 1, Len(all)) \in Seq(Pending)
      BY <1>4, <1>7, <2>1, <2>2
  <2>4. /\ Len(SubSeq(all, overflow + 1, Len(all))) = Len(all) - overflow
        /\ \A i \in 1..(Len(all) - overflow) :
             SubSeq(all, overflow + 1, Len(all))[i] = all[overflow + i]
      BY <1>4, <1>7, <2>1
  <2> QED BY <1>6, <2>3, <2>4
<1>9. /\ counts'.received = counts.received + 1 /\ counts'.inserted = counts.inserted
      /\ counts'.dropped = counts.dropped + overflow
      /\ counts' \in Counts
  <2>1. /\ counts.received \in Nat /\ counts.inserted \in Nat /\ counts.dropped \in Nat
        /\ counts = [received |-> counts.received, inserted |-> counts.inserted,
                     dropped |-> counts.dropped]
      BY TypeFacts
  <2>2. counts' = [received |-> counts.received + 1, inserted |-> counts.inserted,
                   dropped |-> counts.dropped + overflow]
      BY <1>6, <2>1
  <2> QED BY <1>7, <2>1, <2>2 DEF Counts
<1>10. TypeOK'
  <2>1. queue' \in Seq(Pending) /\ Len(queue') <= MaxQueued
      BY <1>7, <1>8
  <2>2. next' \in 1..(MaxSequence + 1)
      BY <1>1, <1>6
  <2>3. state' \in State /\ failed' \in BOOLEAN
      BY <1>6 DEF TypeOK, State
  <2> QED BY <1>6, <1>9, <2>1, <2>2, <2>3 DEF TypeOK
<1>a. CaptionsAccountedFor'
  <2>1. counts.inserted + counts.dropped + Len(queue) = (next - 1) + rejected
      BY DEF CaptionsAccountedFor
  <2>2. Len(queue') = Len(queue) + n - overflow
      BY <1>1, <1>2, <1>4, <1>7, <1>8
  <2>3. counts.inserted \in Nat /\ counts.dropped \in Nat /\ rejected \in Nat
      BY TypeFacts
  <2>4. next' = next + n /\ rejected' = rejected /\ overflow \in Nat
      BY <1>6, <1>7
  <2>5. counts'.inserted + counts'.dropped + Len(queue') = (next' - 1) + rejected'
    <3> HIDE DEF Inv
    <3>1. counts'.inserted + counts'.dropped + Len(queue')
            = (counts.inserted + counts.dropped + Len(queue)) + n
        BY <1>1, <1>2, <1>9, <2>2, <2>3, <2>4
    <3> QED BY <1>1, <2>1, <2>3, <2>4, <3>1
  <2> QED BY <2>5 DEF CaptionsAccountedFor
<1>11. QueueIsContiguous'
  <2> SUFFICES ASSUME NEW i \in DOMAIN queue'
               PROVE  queue'[i].sequence = (next' - 1 - Len(queue')) + i
      BY DEF QueueIsContiguous
  <2>1. i \in 1..Len(queue') /\ overflow + i \in 1..Len(all)
      BY <1>2, <1>4, <1>7, <1>8, <1>1
  <2>2. queue'[i].sequence = (next - 1 - Len(queue)) + (overflow + i)
      BY <2>1, <1>5, <1>8
  <2>3. Len(queue') = Len(queue) + n - overflow
      BY <1>1, <1>2, <1>4, <1>7, <1>8
  <2>4. next' = next + n /\ overflow \in Nat /\ i \in Nat
      BY <1>6, <1>7, <2>1
  <2> HIDE DEF Inv
  <2> QED BY <2>2, <2>3, <2>4, <1>1, <1>2
<1>12. HistoryBeforeQueue'
  <2> SUFFICES ASSUME NEW i \in DOMAIN recent
               PROVE  recent[i].sequence < next' - Len(queue')
      BY <1>6 DEF HistoryBeforeQueue
  <2>1. recent[i].sequence < next - Len(queue) /\ recent[i].sequence \in Nat
      BY TypeFacts DEF HistoryBeforeQueue
  <2>2. Len(queue') = Len(queue) + n - overflow
      BY <1>1, <1>2, <1>4, <1>7, <1>8
  <2>3. next' = next + n /\ overflow \in Nat
      BY <1>6, <1>7
  <2>4. next' - Len(queue') = next - Len(queue) + overflow
      BY <2>2, <2>3, <1>1, <1>2
  <2>5. next - Len(queue) \in Int /\ Len(queue) \in Nat
      BY <1>1, <1>2
  <2> HIDE DEF Inv
  <2> QED BY <2>1, <2>3, <2>4, <2>5
<1>13. HistoryInOrder' /\ NothingWaitsUnlessActive'
    BY <1>6 DEF HistoryInOrder, NothingWaitsUnlessActive
<1>14. HealthyMeansInserted'
    BY <1>6, <1>7 DEF HealthyMeansInserted, TypeOK, Counts
<1> QED BY <1>10, <1>a, <1>11, <1>12, <1>13, <1>14

(* A phrase without text is dropped and counted.                           *)
LEMMA SubmitNothingKeepsInv ==
    ASSUME Inv, SubmitNothing, UNCHANGED <<enabled, active, delay, since, recent>>
    PROVE  Inv'
<1> USE DEF Inv, SubmitNothing
<1>0. /\ counts.received \in Nat /\ counts.inserted \in Nat /\ counts.dropped \in Nat
      /\ rejected \in Nat /\ Len(queue) \in Nat /\ next \in Nat
      /\ counts' = [received |-> counts.received + 1, inserted |-> counts.inserted,
                    dropped |-> counts.dropped + 1]
    BY TypeFacts
<1>1. TypeOK'
  <2>1. counts' \in Counts /\ rejected' \in Nat
      BY <1>0 DEF Counts
  <2>2. state' \in State
      BY DEF State
  <2> QED BY <2>1, <2>2 DEF TypeOK
<1>2. CaptionsAccountedFor'
  <2>1. counts.inserted + counts.dropped + Len(queue) = (next - 1) + rejected
      BY DEF CaptionsAccountedFor
  <2>2. /\ counts'.inserted = counts.inserted /\ counts'.dropped = counts.dropped + 1
        /\ Len(queue') = Len(queue) /\ next' = next /\ rejected' = rejected + 1
      BY <1>0
  <2>3. counts'.inserted + counts'.dropped + Len(queue') = (next' - 1) + rejected'
    <3> HIDE DEF SubmitNothing, Inv
    <3> QED BY <1>0, <2>1, <2>2
  <2> QED BY <2>3 DEF CaptionsAccountedFor
<1> QED
    BY <1>1, <1>2 DEF QueueIsContiguous, HistoryInOrder, HistoryBeforeQueue,
                      NothingWaitsUnlessActive, HealthyMeansInserted

(* The recognizer's status never makes the captions healthy.               *)
LEMMA SetProviderStatusKeepsInv ==
    ASSUME Inv, NEW error \in BOOLEAN, SetProviderStatus(error)
    PROVE  Inv'
<1> USE DEF Inv, SetProviderStatus, session
<1>1. TypeOK'
    BY DEF TypeOK, State
<1>2. HealthyMeansInserted'
    BY DEF HealthyMeansInserted
<1> QED
    BY <1>1, <1>2 DEF CaptionsAccountedFor, QueueIsContiguous, HistoryInOrder,
                      HistoryBeforeQueue, NothingWaitsUnlessActive

-----------------------------------------------------------------------------
(* The timer and the clock.                                                *)

(* Time changes when captions are due, not which ones there are.           *)
LEMMA ElapseKeepsInv ==
    ASSUME Inv, Elapse
    PROVE  Inv'
<1> USE DEF Inv, Elapse
<1>0. Lateness \in Nat /\ Gap \in Nat
    BY LimitAssumption
<1>1. queue \in Seq(Pending) /\ DOMAIN queue = 1..Len(queue) /\ Len(queue) \in Nat
    BY DEF TypeOK
<1> DEFINE Aged(p) == [p EXCEPT !.due = IF @ > TooLate THEN @ - 1 ELSE TooLate]
<1>2. ASSUME NEW p \in Pending PROVE Aged(p) \in Pending /\ Aged(p).sequence = p.sequence
  <2>1. TooLate \in Int
      BY <1>0 DEF TooLate
  <2>2. /\ p.sequence \in Nat \ {0} /\ p.due \in Int /\ p.due >= TooLate
        /\ p = [sequence |-> p.sequence, due |-> p.due]
      BY DEF Pending
  <2>3. Aged(p) = [sequence |-> p.sequence,
                   due |-> IF p.due > TooLate THEN p.due - 1 ELSE TooLate]
      BY <2>2
  <2> QED BY <2>1, <2>2, <2>3 DEF Pending
<1>3. queue' = [i \in 1..Len(queue) |-> Aged(queue[i])]
    BY <1>1
<1> HIDE DEF Aged
<1>4. /\ queue' \in Seq(Pending) /\ Len(queue') = Len(queue)
      /\ \A i \in DOMAIN queue' : i \in DOMAIN queue /\ queue'[i].sequence = queue[i].sequence
  <2>1. \A i \in 1..Len(queue) : queue[i] \in Pending
      BY <1>1
  <2> QED BY <1>1, <1>2, <1>3, <2>1
<1>5. TypeOK'
    BY <1>0, <1>4 DEF TypeOK
<1>6. HealthyMeansInserted' /\ NothingWaitsUnlessActive'
    BY <1>1, <1>4 DEF HealthyMeansInserted, NothingWaitsUnlessActive
<1> QED
    BY <1>4, <1>5, <1>6 DEF CaptionsAccountedFor, QueueIsContiguous, HistoryInOrder,
          HistoryBeforeQueue

(* The screen at the head of the queue can be listed next.                 *)
LEMMA RecordKeepsOrder ==
    ASSUME Inv, queue # <<>>, NEW delivered \in BOOLEAN, Record(delivered)
    PROVE  /\ recent' \in Seq(Segment) /\ Len(recent') <= MaxRecent
           /\ \A i, j \in DOMAIN recent' : i < j => recent'[i].sequence < recent'[j].sequence
           /\ \A i \in DOMAIN recent' : recent'[i].sequence < next - (Len(queue) - 1)
<1> DEFINE item == [sequence |-> Head(queue).sequence, delivered |-> delivered]
           all  == Append(recent, item)
<1> USE DEF Inv
<1>1. /\ queue \in Seq(Pending) /\ recent \in Seq(Segment)
      /\ Len(queue) \in Nat \ {0} /\ Len(recent) \in Nat
      /\ Len(recent) <= MaxRecent /\ MaxRecent \in Nat \ {0}
      /\ next \in Int
    BY SizeAssumption DEF TypeOK
<1>2. item \in Segment
  <2>1. Head(queue) \in Pending
      BY <1>1
  <2> QED BY <2>1 DEF Segment, Pending
<1>3. item.sequence = next - Len(queue)
  <2>1. Head(queue) = queue[1] /\ 1 \in DOMAIN queue
      BY <1>1
  <2> QED BY <2>1, <1>1 DEF QueueIsContiguous
<1> HIDE DEF item
<1>4. /\ all \in Seq(Segment) /\ Len(all) = Len(recent) + 1
      /\ \A i \in 1..Len(all) : all[i] = IF i <= Len(recent) THEN recent[i] ELSE item
    BY <1>1, <1>2
<1>5. \A i \in 1..Len(recent) : recent[i].sequence < item.sequence /\ recent[i].sequence \in Int
    BY <1>1, <1>3, TypeFacts DEF HistoryBeforeQueue
<1>6. item.sequence \in Int
    BY <1>2 DEF Segment
<1>7. \A i, j \in 1..Len(all) : i < j => all[i].sequence < all[j].sequence
  <2> SUFFICES ASSUME NEW i \in 1..Len(all), NEW j \in 1..Len(all), i < j
               PROVE  all[i].sequence < all[j].sequence
      OBVIOUS
  <2>1. i \in 1..Len(recent) /\ all[i] = recent[i]
      BY <1>1, <1>4
  <2>2. CASE j <= Len(recent)
      BY <2>1, <2>2, <1>1, <1>4 DEF HistoryInOrder
  <2>3. CASE ~(j <= Len(recent))
      BY <2>1, <2>3, <1>4, <1>5
  <2> QED BY <2>2, <2>3
<1>8. \A i \in 1..Len(all) : all[i].sequence < next - (Len(queue) - 1)
    BY <1>1, <1>3, <1>4, <1>5, <1>6
<1>9. recent' = IF Len(all) > MaxRecent THEN Tail(all) ELSE all
    BY DEF Record, item
<1> HIDE DEF all
<1>10. CASE Len(all) > MaxRecent
  <2>1. /\ recent' \in Seq(Segment) /\ Len(recent') = Len(all) - 1
        /\ \A i \in 1..Len(recent') : recent'[i] = all[i + 1]
      BY <1>4, <1>9, <1>10, <1>1
  <2>2. recent' \in Seq(Segment) /\ Len(recent') <= MaxRecent
      BY <2>1, <1>1, <1>4
  <2>3. DOMAIN recent' = 1..Len(recent') /\ Len(recent') \in Nat
      BY <2>2
  <2>4. \A i \in DOMAIN recent' : i \in Nat /\ i + 1 \in 1..Len(all) /\ recent'[i] = all[i + 1]
      BY <2>1, <2>3, <1>1, <1>4
  <2>5. ASSUME NEW i \in DOMAIN recent', NEW j \in DOMAIN recent', i < j
        PROVE  recent'[i].sequence < recent'[j].sequence
    <3>1. i + 1 < j + 1
        BY <2>4, <2>5
    <3> QED BY <3>1, <2>4, <1>7
  <2>6. ASSUME NEW i \in DOMAIN recent'
        PROVE  recent'[i].sequence < next - (Len(queue) - 1)
      BY <2>4, <1>8
  <2> QED BY <2>2, <2>5, <2>6
<1>11. CASE ~(Len(all) > MaxRecent)
    BY <1>1, <1>4, <1>7, <1>8, <1>9, <1>11
<1> QED BY <1>10, <1>11

(* Taking the head off the queue keeps the rest contiguous.                *)
LEMMA TailIsContiguous ==
    ASSUME Inv, queue # <<>>
    PROVE  /\ Tail(queue) \in Seq(Pending) /\ Len(Tail(queue)) = Len(queue) - 1
           /\ Len(queue) \in Nat \ {0}
           /\ \A i \in DOMAIN Tail(queue) :
                Tail(queue)[i].sequence = (next - 1 - (Len(queue) - 1)) + i
<1> USE DEF Inv
<1>1. queue \in Seq(Pending) /\ Len(queue) \in Nat \ {0} /\ next \in Int
    BY DEF TypeOK
<1>2. /\ Tail(queue) \in Seq(Pending) /\ Len(Tail(queue)) = Len(queue) - 1
      /\ \A i \in 1..(Len(queue) - 1) : Tail(queue)[i] = queue[i + 1]
    BY <1>1
<1>3. ASSUME NEW i \in DOMAIN Tail(queue)
      PROVE  Tail(queue)[i].sequence = (next - 1 - (Len(queue) - 1)) + i
  <2>1. i \in 1..(Len(queue) - 1) /\ i + 1 \in DOMAIN queue
      BY <1>1, <1>2
  <2>2. queue[i + 1].sequence = (next - 1 - Len(queue)) + (i + 1)
      BY <2>1 DEF QueueIsContiguous
  <2> QED BY <1>1, <1>2, <2>1, <2>2
<1> QED BY <1>1, <1>2, <1>3

(* The timer settles the head of the queue or leaves everything waiting.   *)
LEMMA TickKeepsInv ==
    ASSUME Inv, Tick
    PROVE  Inv'
<1> USE DEF Inv, Tick
<1>0. /\ counts \in Counts /\ next \in Int /\ Gap \in Nat /\ since \in 0..Gap /\ rejected \in Nat
      /\ MaxQueued \in Nat
    BY LimitAssumption, SizeAssumption DEF TypeOK
<1>1. CASE Deliver
  <2>1. Record(TRUE) /\ queue' = Tail(queue)
      BY <1>1 DEF Deliver
  <2>2. /\ recent' \in Seq(Segment) /\ Len(recent') <= MaxRecent
        /\ \A i, j \in DOMAIN recent' : i < j => recent'[i].sequence < recent'[j].sequence
        /\ \A i \in DOMAIN recent' : recent'[i].sequence < next - (Len(queue) - 1)
      BY <2>1, RecordKeepsOrder
  <2>3. /\ queue' \in Seq(Pending) /\ Len(queue') = Len(queue) - 1
        /\ Len(queue) \in Nat \ {0}
        /\ \A i \in DOMAIN queue' : queue'[i].sequence = (next - 1 - (Len(queue) - 1)) + i
      BY <2>1, TailIsContiguous
  <2>4. TypeOK'
    <3>1. counts' \in Counts /\ state' \in State /\ since' \in 0..Gap /\ failed' \in BOOLEAN
      <4>1. counts' \in Counts
          BY <1>0, <1>1 DEF Deliver, Counts
      <4>2. state' \in State /\ since' \in 0..Gap /\ failed' \in BOOLEAN
        <5>1. state' = "Healthy" /\ since' = 0 /\ failed' = FALSE
            BY <1>1 DEF Deliver
        <5>2. 0 \in 0..Gap
            BY <1>0
        <5> QED BY <5>1, <5>2 DEF State
      <4> QED BY <4>1, <4>2
    <3>2. Len(queue') <= MaxQueued
        BY <2>3, <1>0 DEF TypeOK
    <3> QED BY <2>2, <2>3, <3>1, <3>2 DEF TypeOK
  <2>5. CaptionsAccountedFor'
      BY <1>0, <1>1, <2>3 DEF CaptionsAccountedFor, Deliver, Counts
  <2>6. QueueIsContiguous' /\ HistoryInOrder' /\ HistoryBeforeQueue'
      BY <2>2, <2>3 DEF QueueIsContiguous, HistoryInOrder, HistoryBeforeQueue
  <2>7. NothingWaitsUnlessActive' /\ HealthyMeansInserted'
      BY <1>0, <1>1 DEF NothingWaitsUnlessActive, HealthyMeansInserted, Deliver, Counts
  <2> QED BY <2>4, <2>5, <2>6, <2>7
<1>2. CASE GiveUp
  <2>1. Record(FALSE) /\ queue' = Tail(queue)
      BY <1>2 DEF GiveUp
  <2>2. /\ recent' \in Seq(Segment) /\ Len(recent') <= MaxRecent
        /\ \A i, j \in DOMAIN recent' : i < j => recent'[i].sequence < recent'[j].sequence
        /\ \A i \in DOMAIN recent' : recent'[i].sequence < next - (Len(queue) - 1)
      BY <2>1, RecordKeepsOrder
  <2>3. /\ queue' \in Seq(Pending) /\ Len(queue') = Len(queue) - 1
        /\ Len(queue) \in Nat \ {0}
        /\ \A i \in DOMAIN queue' : queue'[i].sequence = (next - 1 - (Len(queue) - 1)) + i
      BY <2>1, TailIsContiguous
  <2>4. TypeOK'
    <3>1. counts' \in Counts /\ state' \in State /\ since' \in 0..Gap /\ failed' \in BOOLEAN
        BY <1>0, <1>2 DEF GiveUp, Counts, State
    <3>2. Len(queue') <= MaxQueued
        BY <2>3, <1>0 DEF TypeOK
    <3> QED BY <2>2, <2>3, <3>1, <3>2 DEF TypeOK
  <2>5. CaptionsAccountedFor'
      BY <1>0, <1>2, <2>3 DEF CaptionsAccountedFor, GiveUp, Counts
  <2>6. QueueIsContiguous' /\ HistoryInOrder' /\ HistoryBeforeQueue'
      BY <2>2, <2>3 DEF QueueIsContiguous, HistoryInOrder, HistoryBeforeQueue
  <2>7. NothingWaitsUnlessActive' /\ HealthyMeansInserted'
      BY <1>2 DEF NothingWaitsUnlessActive, HealthyMeansInserted, GiveUp
  <2> QED BY <2>4, <2>5, <2>6, <2>7
<1>3. CASE RetryLater
  <2>1. TypeOK'
      BY <1>3 DEF TypeOK, RetryLater, State
  <2> QED
      BY <1>3, <2>1 DEF RetryLater, CaptionsAccountedFor, QueueIsContiguous, HistoryInOrder,
            HistoryBeforeQueue, NothingWaitsUnlessActive, HealthyMeansInserted
<1> QED BY <1>1, <1>2, <1>3

-----------------------------------------------------------------------------
(* Every step keeps the invariant.                                         *)
LEMMA InvStep == Inv /\ [Next]_vars => Inv'
<1> SUFFICES ASSUME Inv, [Next]_vars PROVE Inv'
    OBVIOUS
<1>1. ASSUME NEW on \in BOOLEAN, NEW d \in Delay, Configure(on, d) PROVE Inv'
    BY <1>1, ConfigureKeepsInv
<1>2. CASE Start
    BY <1>2, StartKeepsInv
<1>3. CASE Stop
    BY <1>3, StopKeepsInv
<1>4. ASSUME NEW n \in 0..MaxScreens, Submit(n) PROVE Inv'
  <2>1. /\ active /\ next + n <= MaxSequence + 1
        /\ UNCHANGED <<enabled, active, delay, since, recent>>
        /\ \/ n = 0 /\ SubmitNothing
           \/ n > 0 /\ SubmitScreens(n)
      BY <1>4 DEF Submit
  <2>2. CASE n = 0 /\ SubmitNothing
      BY <2>1, <2>2, SubmitNothingKeepsInv
  <2>3. CASE n > 0 /\ SubmitScreens(n)
    <3>1. n \in 1..MaxScreens
        BY <2>3, BoundAssumption
    <3> QED BY <2>1, <2>3, <3>1, SubmitScreensKeepsInv
  <2> QED BY <2>1, <2>2, <2>3
<1>5. ASSUME NEW error \in BOOLEAN, SetProviderStatus(error) PROVE Inv'
    BY <1>5, SetProviderStatusKeepsInv
<1>6. CASE Tick
    BY <1>6, TickKeepsInv
<1>7. CASE Elapse
    BY <1>7, ElapseKeepsInv
<1>8. CASE UNCHANGED vars
    BY <1>8 DEF vars, session, Inv, TypeOK, CaptionsAccountedFor, QueueIsContiguous,
                HistoryInOrder, HistoryBeforeQueue, NothingWaitsUnlessActive, HealthyMeansInserted
<1> QED BY <1>1, <1>2, <1>3, <1>4, <1>5, <1>6, <1>7, <1>8 DEF Next

(* The invariant holds throughout.                                         *)
THEOREM InvCorrect == Spec => []Inv
BY InvInit, InvStep, PTL DEF Spec

(* The state keeps its type; the queue and the monitor's list their limit. *)
THEOREM CaptionTypeCorrect == Spec => []TypeOK
<1>1. Inv => TypeOK
    BY DEF Inv
<1> QED BY <1>1, InvCorrect, PTL

(* Every screen was inserted, dropped or waits: no path through overflow,  *)
(* failure and the end of a session loses one silently.                    *)
THEOREM CaptionsAlwaysAccountedFor == Spec => []CaptionsAccountedFor
<1>1. Inv => CaptionsAccountedFor
    BY DEF Inv
<1> QED BY <1>1, InvCorrect, PTL

(* The queue is the youngest part of the numbering, and screens are shown  *)
(* once each and in order.                                                 *)
THEOREM ScreensAlwaysInOrder == Spec => []ShownInOrder
<1> QED BY InvShowsInOrder, InvCorrect, PTL

(* No caption crosses from one session to the next.                        *)
THEOREM NothingEverWaitsUnlessActive == Spec => []NothingWaitsUnlessActive
<1>1. Inv => NothingWaitsUnlessActive
    BY DEF Inv
<1> QED BY <1>1, InvCorrect, PTL

(* Healthy is shown only in a session that inserted a caption and has      *)
(* reported no error since.                                                *)
THEOREM HealthyAlwaysMeansInserted == Spec => []HealthyMeansInserted
<1>1. Inv => HealthyMeansInserted
    BY DEF Inv
<1> QED BY <1>1, InvCorrect, PTL

-----------------------------------------------------------------------------
(* No output can block the queue: a screen that is past its time at the    *)
(* head, with the gap kept, is gone when the timer comes, taken or not.    *)

Overdue(n) == /\ active /\ queue # <<>>
              /\ Head(queue).sequence = n
              /\ Head(queue).due = TooLate
              /\ since = Gap

LEMMA OverdueFacts ==
    ASSUME Inv, NEW n, Overdue(n)
    PROVE  /\ queue \in Seq(Pending) /\ Len(queue) \in Nat \ {0} /\ queue[1] = Head(queue)
           /\ next \in Nat /\ n \in Nat /\ n = next - Len(queue)
           /\ Gap \in Nat /\ since = Gap /\ TooLate \in Int /\ TooLate <= 0
<1>1. queue \in Seq(Pending) /\ queue # <<>> /\ next \in Nat
    BY DEF Inv, Overdue, TypeOK
<1>2. Len(queue) \in Nat \ {0} /\ queue[1] = Head(queue) /\ 1 \in DOMAIN queue
    BY <1>1
<1>3. queue[1].sequence = (next - 1 - Len(queue)) + 1 /\ queue[1].sequence \in Nat
    BY <1>2, TypeFacts DEF Inv, QueueIsContiguous
<1>4. n = next - Len(queue) /\ n \in Nat
    BY <1>1, <1>2, <1>3 DEF Overdue
<1>5. Gap \in Nat /\ since = Gap /\ TooLate \in Int /\ TooLate <= 0
    BY LimitAssumption DEF Overdue, TooLate
<1> QED BY <1>1, <1>2, <1>4, <1>5

(* New screens leave it at the head, or push it out.                       *)
LEMMA OverdueAtSubmit ==
    ASSUME Inv, Inv', NEW n, Overdue(n), NEW k \in Nat \ {0},
           SubmitScreens(k), UNCHANGED <<active, since>>
    PROVE  Overdue(n)' \/ ~Waiting(n)'
<1> DEFINE new      == [i \in 1..k |-> [sequence |-> next + i - 1, due |-> delay]]
           all      == queue \o new
           overflow == IF Len(all) > MaxQueued THEN Len(all) - MaxQueued ELSE 0
<1>1. /\ queue \in Seq(Pending) /\ Len(queue) \in Nat \ {0} /\ queue[1] = Head(queue)
      /\ next \in Nat /\ n \in Nat /\ n = next - Len(queue) /\ MaxQueued \in Nat
    BY OverdueFacts, SizeAssumption
<1>2. new \in Seq(Pending) /\ Len(new) = k
  <2>1. next \in Nat \ {0} /\ delay \in Nat /\ Lateness \in Nat
      BY TypeFacts DEF Inv
  <2>2. \A i \in 1..k : [sequence |-> next + i - 1, due |-> delay] \in Pending
      BY <2>1 DEF Pending, TooLate
  <2> QED BY <2>2
<1>3. queue' = SubSeq(all, overflow + 1, Len(all)) /\ next' = next + k
    BY DEF SubmitScreens
<1> HIDE DEF new
<1>4. Len(all) = Len(queue) + k /\ all[1] = queue[1]
    BY <1>1, <1>2
<1>5. overflow \in Nat /\ overflow <= Len(all)
    BY <1>1, <1>4
<1> HIDE DEF all, overflow
<1>6. Len(queue') = Len(all) - overflow /\ Len(all) \in Nat \ {0}
    BY <1>1, <1>3, <1>4, <1>5
<1>7. CASE overflow = 0
  <2>1. queue'[1] = queue[1] /\ queue' # <<>>
      BY <1>3, <1>4, <1>6, <1>7
  <2>2. queue' \in Seq(Pending)
      BY DEF Inv, TypeOK
  <2>3. Head(queue') = Head(queue)
      BY <1>1, <2>1, <2>2
  <2> QED BY <2>1, <2>3 DEF Overdue
<1>8. CASE overflow > 0
  <2>1. ASSUME NEW i \in DOMAIN queue'
        PROVE  queue'[i].sequence # n
    <3>1. queue'[i].sequence = (next' - 1 - Len(queue')) + i
        BY DEF Inv, QueueIsContiguous
    <3>2. i \in Nat \ {0}
        BY DEF Inv, TypeOK
    <3>3. Len(queue) \in Nat /\ next \in Nat /\ overflow \in Nat /\ n = next - Len(queue)
        BY <1>1, <1>5
    <3>4. Len(queue') = Len(queue) + k - overflow /\ next' = next + k
        BY <1>3, <1>4, <1>6, <3>3
    <3> QED BY <1>8, <3>1, <3>2, <3>3, <3>4
  <2> QED BY <2>1 DEF Waiting
<1> QED BY <1>5, <1>7, <1>8

LEMMA OverdueAtTick ==
    ASSUME Inv, NEW n, Overdue(n), Tick
    PROVE  ~Waiting(n)'
<1>1. queue' = Tail(queue)
    BY DEF Tick, Deliver, GiveUp, RetryLater, Overdue
<1>2. /\ Len(queue) \in Nat \ {0} /\ next \in Nat /\ n = next - Len(queue)
    BY OverdueFacts
<1>3. ASSUME NEW i \in DOMAIN queue'
      PROVE  queue'[i].sequence # n
  <2>1. queue'[i].sequence = (next - 1 - (Len(queue) - 1)) + i
      BY <1>1, TailIsContiguous DEF Overdue
  <2>2. i \in Nat \ {0}
      BY <1>1, TailIsContiguous DEF Overdue
  <2> QED BY <1>2, <2>1, <2>2
<1> QED BY <1>3 DEF Waiting

LEMMA OverdueAtElapse ==
    ASSUME Inv, NEW n, Overdue(n), Elapse
    PROVE  Overdue(n)'
<1>1. /\ queue \in Seq(Pending) /\ Len(queue) \in Nat \ {0} /\ queue[1] = Head(queue)
      /\ Gap \in Nat /\ since = Gap /\ TooLate \in Int
    BY OverdueFacts
<1>2. since' = Gap /\ active' = active
    BY <1>1 DEF Elapse
<1>3. /\ DOMAIN queue = 1..Len(queue) /\ 1 \in DOMAIN queue
      /\ queue' = [i \in DOMAIN queue |->
                     [queue[i] EXCEPT !.due = IF @ > TooLate THEN @ - 1 ELSE TooLate]]
    BY <1>1 DEF Elapse
<1>4. queue'[1] = [queue[1] EXCEPT !.due = TooLate]
    BY <1>1, <1>3 DEF Overdue
<1>5. queue[1] \in Pending
    BY <1>1, <1>3
<1>6. queue'[1].sequence = n /\ queue'[1].due = TooLate
    BY <1>1, <1>4, <1>5 DEF Pending, Overdue
<1>7. queue' # <<>> /\ Head(queue') = queue'[1]
    BY <1>1, <1>3
<1> QED BY <1>2, <1>6, <1>7 DEF Overdue

LEMMA OverdueStep ==
    ASSUME Inv, Inv', NEW n, Overdue(n), [Next]_vars
    PROVE  Overdue(n)' \/ ~Waiting(n)'
<1>1. ASSUME NEW on, NEW d, Configure(on, d) PROVE Overdue(n)'
    BY <1>1 DEF Configure, session, Overdue
<1>2. CASE Start \/ Stop
  <2>1. queue' = <<>>
      BY <1>2 DEF Start, Stop
  <2> QED BY <2>1 DEF Waiting
<1>3. ASSUME NEW k \in 0..MaxScreens, Submit(k) PROVE Overdue(n)' \/ ~Waiting(n)'
  <2>1. CASE k = 0 /\ SubmitNothing
      BY <1>3, <2>1 DEF Submit, SubmitNothing, Overdue
  <2>2. CASE k > 0 /\ SubmitScreens(k)
    <3>1. k \in Nat \ {0} /\ UNCHANGED <<active, since>>
        BY <1>3, <2>2 DEF Submit
    <3> QED BY <2>2, <3>1, OverdueAtSubmit
  <2> QED BY <1>3, <2>1, <2>2 DEF Submit
<1>4. ASSUME NEW error, SetProviderStatus(error) PROVE Overdue(n)'
    BY <1>4 DEF SetProviderStatus, session, Overdue
<1>5. CASE UNCHANGED vars
    BY <1>5 DEF vars, session, Overdue
<1> QED BY <1>1, <1>2, <1>3, <1>4, <1>5, OverdueAtTick, OverdueAtElapse DEF Next

(* The timer can act whenever it finds the head due and the gap kept.      *)
TickEnabled ==
    active /\ queue # <<>> /\ Head(queue).due <= 0 /\ since >= Gap => ENABLED <<Tick>>_vars

(* The last step of ScreensSettle, for every limit: whatever the outputs   *)
(* do, a screen that is past its time does not keep the head.              *)
OverdueLeaves(n) == Overdue(n) ~> ~Waiting(n)

THEOREM OverdueAlwaysLeaves ==
    ASSUME NEW n \in Nat
    PROVE  FairSpec /\ []TickEnabled => OverdueLeaves(n)
<1>1. Inv /\ Inv' /\ Overdue(n) /\ [Next]_vars => Overdue(n)' \/ ~Waiting(n)'
    BY OverdueStep
<1>2. Inv /\ Overdue(n) /\ <<Tick>>_vars => ~Waiting(n)'
    BY OverdueAtTick
<1>3. Inv /\ Overdue(n) /\ TickEnabled => ENABLED <<Tick>>_vars
  <2>1. Inv /\ Overdue(n) => active /\ queue # <<>> /\ Head(queue).due <= 0 /\ since >= Gap
      BY OverdueFacts DEF Overdue
  <2> QED BY <2>1 DEF TickEnabled
<1> QED BY <1>1, <1>2, <1>3, InvCorrect, PTL DEF FairSpec, Spec, OverdueLeaves

=============================================================================
