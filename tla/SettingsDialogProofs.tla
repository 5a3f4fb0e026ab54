------------------------- MODULE SettingsDialogProofs -------------------------
(* Proofs of the invariants of SettingsDialog, for any sessions, entries,  *)
(* filters and bounds.                                                     *)
EXTENDS SettingsDialog, TLAPS

Query == [session |-> validated, page |-> page, filter |-> filter]

(* What makes ListIsWhatItSays inductive: an answer that counts is the     *)
(* answer to what the fields say, so it can be shown whenever it comes.    *)
CurrentLoadIsQuery ==
    \A l \in loads : l.current => /\ validated # NoSession
                                  /\ l.list = Query
                                  /\ ~previous /\ ~next /\ ~refresh

ShownIsQuery == shown # NoList => validated # NoSession /\ shown = Query

SessionIsText ==
    /\ validated # NoSession => validated = text
    /\ validating # NoSession => validating = text

(* What makes QuestionIsOfSelection inductive.                             *)
CurrentCallIsSelection ==
    \A c \in calls : c.current => selected \in {c.selection, NoSelection}

Inv ==
    /\ TypeOK
    /\ SessionIsText
    /\ CurrentLoadIsQuery
    /\ ShownIsQuery
    /\ SelectionIsOfSession
    /\ CurrentCallIsSelection
    /\ QuestionIsOfSelection

USE DEF Selection, List, Load, Call, Query

-----------------------------------------------------------------------------
(* Requests.                                                               *)

(* An outdated request asks the same and no longer counts.                 *)
LEMMA OutdatedLoads ==
    ASSUME NEW S \in SUBSET Load
    PROVE  /\ Outdated(S) \in SUBSET Load
           /\ \A l \in Outdated(S) : l.current = FALSE
  <1> SUFFICES ASSUME NEW l \in Outdated(S)
               PROVE  l \in Load /\ l.current = FALSE
    OBVIOUS
  <1>1. PICK r \in S : l = [r EXCEPT !.current = FALSE]
    BY DEF Outdated
  <1>2. r \in Load
    OBVIOUS
  <1> QED  BY <1>1, <1>2

LEMMA OutdatedCalls ==
    ASSUME NEW S \in SUBSET Call
    PROVE  /\ Outdated(S) \in SUBSET Call
           /\ \A c \in Outdated(S) : c.current = FALSE
  <1> SUFFICES ASSUME NEW c \in Outdated(S)
               PROVE  c \in Call /\ c.current = FALSE
    OBVIOUS
  <1>1. PICK r \in S : c = [r EXCEPT !.current = FALSE]
    BY DEF Outdated
  <1>2. r \in Call
    OBVIOUS
  <1> QED  BY <1>1, <1>2

(* Issuing a request leaves it the only one that counts.                   *)
LEMMA Issued ==
    ASSUME NEW request, NEW S, NEW T \in Issue(request, S)
    PROVE  \A r \in T : r = request \/ r \in Outdated(S)
  <1>1. PICK open \in {s \in SUBSET Outdated(S) : Cardinality(s) < MaxOpen} :
           T = {request} \cup open
    BY DEF Issue
  <1> QED  BY <1>1

USE DEF UserActs
-----------------------------------------------------------------------------
(* Init satisfies the invariant.                                           *)
LEMMA InitInv == Init => Inv
  <1> SUFFICES ASSUME Init PROVE Inv
    OBVIOUS
  <1>1. 1 \in 1 .. MaxPages
    BY BoundAssumption
  <1>2. TypeOK
    <2> HIDE DEF Load, Call, List, Selection
    <2> QED  BY <1>1 DEF Init, TypeOK
  <1>3. /\ SessionIsText /\ CurrentLoadIsQuery /\ ShownIsQuery
        /\ CurrentCallIsSelection /\ QuestionIsOfSelection /\ SelectionIsOfSession
    BY DEF Init, SessionIsText, CurrentLoadIsQuery, ShownIsQuery,
           SelectionIsOfSession, CurrentCallIsSelection, QuestionIsOfSelection
  <1> QED  BY <1>2, <1>3 DEF Inv

(* A load of a page of the validated session keeps the invariant.          *)
LEMMA StartEntryLoadInv ==
    ASSUME Inv, NEW session \in Sessions, NEW p \in 1 .. MaxPages, NEW f \in Filters,
           StartEntryLoad(session, p, f), validated' = session, filter' = f
    PROVE  /\ page' \in 1 .. MaxPages
           /\ loads' \in SUBSET Load
           /\ shown' = NoList
           /\ refresh' = FALSE /\ previous' = FALSE /\ next' = FALSE
           /\ CurrentLoadIsQuery'
  <1> DEFINE q == [session |-> session, page |-> p, filter |-> f]
             new == [list |-> q, current |-> TRUE]
  <1>1. /\ page' = p /\ shown' = NoList
        /\ refresh' = FALSE /\ previous' = FALSE /\ next' = FALSE
        /\ loads' \in Issue(new, loads)
    BY DEF StartEntryLoad
  <1>2. new \in Load
    OBVIOUS
  <1>3. loads \in SUBSET Load
    BY DEF Inv, TypeOK
  <1>4. \A l \in loads' : l = new \/ (l \in Load /\ l.current = FALSE)
    <2> HIDE DEF new, Load
    <2> QED  BY <1>1, <1>3, Issued, OutdatedLoads
  <1>5. loads' \in SUBSET Load
    <2> HIDE DEF new, Load
    <2> QED  BY <1>2, <1>4
  <1>6. Query' = q
    BY <1>1
  <1>7. session # NoSession
    BY SessionAssumption
  <1>8. ASSUME NEW l \in loads', l.current
        PROVE  validated' # NoSession /\ l.list = Query' /\ ~previous' /\ ~next' /\ ~refresh'
    <2>1. l = new
      BY <1>4, <1>8
    <2>2. l.list = q
      BY <2>1
    <2> QED  BY <2>2, <1>1, <1>6, <1>7
  <1> QED  BY <1>1, <1>5, <1>8 DEF CurrentLoadIsQuery

-----------------------------------------------------------------------------
(* Every step preserves the invariant.                                     *)

(* A load, the rest of the dialog as it was.                               *)
LEMMA TurnInv ==
    ASSUME Inv, NEW p \in 1 .. MaxPages, NEW f \in Filters, Turn(p, f)
    PROVE  Inv'
  <1>1. /\ question = NoSelection /\ validated # NoSession
        /\ StartEntryLoad(validated, p, f) /\ filter' = f
        /\ UNCHANGED <<text, validated, validating, debounce, selected, calls, question>>
    BY DEF Turn
  <1>2. validated \in Sessions
    BY <1>1 DEF Inv, TypeOK
  <1>3. /\ page' \in 1 .. MaxPages /\ loads' \in SUBSET Load /\ shown' = NoList
        /\ refresh' = FALSE /\ previous' = FALSE /\ next' = FALSE
        /\ CurrentLoadIsQuery'
    <2> HIDE DEF Load, List, Query
    <2> QED  BY <1>1, <1>2, StartEntryLoadInv
  <1>4. TypeOK'
    <2> HIDE DEF Load, List, Call, Selection
    <2> QED  BY <1>1, <1>3 DEF Inv, TypeOK
  <1>5. SessionIsText' /\ ShownIsQuery' /\ SelectionIsOfSession'
        /\ CurrentCallIsSelection' /\ QuestionIsOfSelection'
    BY <1>1, <1>3 DEF Inv, SessionIsText, ShownIsQuery, SelectionIsOfSession,
                      CurrentCallIsSelection, QuestionIsOfSelection
  <1> QED  BY <1>3, <1>4, <1>5 DEF Inv

LEMMA EditSessionInv ==
    ASSUME Inv, NEW s \in Sessions \cup {NoSession}, EditSession(s)
    PROVE  Inv'
  <1>1. loads' \in SUBSET Load /\ \A l \in loads' : l.current = FALSE
    <2>1. loads \in SUBSET Load /\ loads' = Outdated(loads)
      BY DEF Inv, TypeOK, EditSession
    <2> HIDE DEF Load, List
    <2> QED  BY <2>1, OutdatedLoads
  <1>2. TypeOK'
    <2>1. 1 \in 1 .. MaxPages
      BY BoundAssumption
    <2> HIDE DEF Load, List, Call, Selection
    <2> QED  BY <1>1, <2>1 DEF Inv, TypeOK, EditSession
  <1>3. CurrentLoadIsQuery'
    BY <1>1 DEF CurrentLoadIsQuery
  <1>4. SessionIsText' /\ ShownIsQuery' /\ SelectionIsOfSession'
        /\ CurrentCallIsSelection' /\ QuestionIsOfSelection'
    BY DEF EditSession, Inv, SessionIsText, ShownIsQuery, SelectionIsOfSession,
           CurrentCallIsSelection, QuestionIsOfSelection
  <1> QED  BY <1>2, <1>3, <1>4 DEF Inv

LEMMA ValidateSessionInv == Inv /\ ValidateSession => Inv'
  <1> SUFFICES ASSUME Inv, ValidateSession PROVE Inv'
    OBVIOUS
  <1>1. TypeOK'
    <2> HIDE DEF Load, List, Call, Selection
    <2> QED  BY DEF Inv, TypeOK, ValidateSession, listVars
  <1>2. /\ SessionIsText' /\ CurrentLoadIsQuery' /\ ShownIsQuery'
        /\ SelectionIsOfSession' /\ CurrentCallIsSelection' /\ QuestionIsOfSelection'
    BY DEF ValidateSession, listVars, Inv, SessionIsText, CurrentLoadIsQuery, ShownIsQuery,
           SelectionIsOfSession, CurrentCallIsSelection, QuestionIsOfSelection
  <1> QED  BY <1>1, <1>2 DEF Inv

LEMMA SessionValidatedInv == Inv /\ SessionValidated => Inv'
  <1> SUFFICES ASSUME Inv, SessionValidated PROVE Inv'
    OBVIOUS
  <1>1. /\ validating \in Sessions /\ validating = text /\ validating' = NoSession
        /\ UNCHANGED <<text, selected, calls, question>>
    BY DEF Inv, TypeOK, SessionIsText, SessionValidated
  <1>2. CASE UNCHANGED <<validated, listVars>>
    <2>1. TypeOK'
      <3> HIDE DEF Load, List, Call, Selection
      <3> QED  BY <1>1, <1>2 DEF Inv, TypeOK, listVars
    <2>2. /\ SessionIsText' /\ CurrentLoadIsQuery' /\ ShownIsQuery'
          /\ SelectionIsOfSession' /\ CurrentCallIsSelection' /\ QuestionIsOfSelection'
      BY <1>1, <1>2 DEF listVars, Inv, SessionIsText, CurrentLoadIsQuery, ShownIsQuery,
                        SelectionIsOfSession, CurrentCallIsSelection, QuestionIsOfSelection
    <2> QED  BY <2>1, <2>2 DEF Inv
  <1>3. CASE /\ validated' = validating /\ StartEntryLoad(validating, 1, filter)
             /\ UNCHANGED <<filter, debounce>>
    <2>1. 1 \in 1 .. MaxPages /\ filter \in Filters
      BY BoundAssumption DEF Inv, TypeOK
    <2>2. /\ page' \in 1 .. MaxPages /\ loads' \in SUBSET Load /\ shown' = NoList
          /\ refresh' = FALSE /\ previous' = FALSE /\ next' = FALSE
          /\ CurrentLoadIsQuery'
      <3> HIDE DEF Load, List, Query
      <3> QED  BY <1>1, <1>3, <2>1, StartEntryLoadInv
    <2>3. TypeOK'
      <3> HIDE DEF Load, List, Call, Selection
      <3> QED  BY <1>1, <1>3, <2>2 DEF Inv, TypeOK
    <2>4. SessionIsText' /\ ShownIsQuery' /\ SelectionIsOfSession'
          /\ CurrentCallIsSelection' /\ QuestionIsOfSelection'
      BY <1>1, <1>3, <2>2 DEF Inv, SessionIsText, ShownIsQuery, SelectionIsOfSession,
                              CurrentCallIsSelection, QuestionIsOfSelection
    <2> QED  BY <2>2, <2>3, <2>4 DEF Inv
  <1> QED  BY <1>2, <1>3 DEF SessionValidated

LEMMA SearchInv ==
    ASSUME Inv, NEW f \in Filters, Search(f)
    PROVE  Inv'
  <1>1. loads' \in SUBSET Load /\ \A l \in loads' : l.current = FALSE
    <2>1. loads \in SUBSET Load /\ loads' = Outdated(loads)
      BY DEF Inv, TypeOK, Search
    <2> HIDE DEF Load, List
    <2> QED  BY <2>1, OutdatedLoads
  <1>2. TypeOK'
    <2>1. 1 \in 1 .. MaxPages
      BY BoundAssumption
    <2> HIDE DEF Load, List, Call, Selection
    <2> QED  BY <1>1, <2>1 DEF Inv, TypeOK, Search
  <1>3. CurrentLoadIsQuery'
    BY <1>1 DEF CurrentLoadIsQuery
  <1>4. SessionIsText' /\ ShownIsQuery' /\ SelectionIsOfSession'
        /\ CurrentCallIsSelection' /\ QuestionIsOfSelection'
    BY DEF Search, Inv, SessionIsText, ShownIsQuery, SelectionIsOfSession,
           CurrentCallIsSelection, QuestionIsOfSelection
  <1> QED  BY <1>2, <1>3, <1>4 DEF Inv

(* The timer reloads the page, or does nothing without a session.          *)
LEMMA DebounceInv == Inv /\ DebounceFires => Inv'
  <1> SUFFICES ASSUME Inv, DebounceFires PROVE Inv'
    OBVIOUS
  <1>1. /\ debounce' = FALSE
        /\ UNCHANGED <<text, validated, validating, filter, selected, calls, question>>
    BY DEF DebounceFires
  <1>2. CASE validated = NoSession /\ UNCHANGED <<page, shown, refresh, previous, next, loads>>
    <2>1. TypeOK'
      <3> HIDE DEF Load, List, Call, Selection
      <3> QED  BY <1>1, <1>2 DEF Inv, TypeOK
    <2>2. /\ SessionIsText' /\ CurrentLoadIsQuery' /\ ShownIsQuery'
          /\ SelectionIsOfSession' /\ CurrentCallIsSelection' /\ QuestionIsOfSelection'
      BY <1>1, <1>2 DEF Inv, SessionIsText, CurrentLoadIsQuery, ShownIsQuery,
                        SelectionIsOfSession, CurrentCallIsSelection, QuestionIsOfSelection
    <2> QED  BY <2>1, <2>2 DEF Inv
  <1>3. CASE validated # NoSession /\ StartEntryLoad(validated, page, filter)
    <2>1. validated \in Sessions /\ page \in 1 .. MaxPages /\ filter \in Filters
      BY <1>3 DEF Inv, TypeOK
    <2>2. /\ page' \in 1 .. MaxPages /\ loads' \in SUBSET Load /\ shown' = NoList
          /\ refresh' = FALSE /\ previous' = FALSE /\ next' = FALSE
          /\ CurrentLoadIsQuery'
      <3> HIDE DEF Load, List, Query
      <3> QED  BY <1>1, <1>3, <2>1, StartEntryLoadInv
    <2>3. TypeOK'
      <3> HIDE DEF Load, List, Call, Selection
      <3> QED  BY <1>1, <2>2 DEF Inv, TypeOK
    <2>4. SessionIsText' /\ ShownIsQuery' /\ SelectionIsOfSession'
          /\ CurrentCallIsSelection' /\ QuestionIsOfSelection'
      BY <1>1, <2>2 DEF Inv, SessionIsText, ShownIsQuery, SelectionIsOfSession,
                        CurrentCallIsSelection, QuestionIsOfSelection
    <2> QED  BY <2>2, <2>3, <2>4 DEF Inv
  <1> QED  BY <1>2, <1>3 DEF DebounceFires

(* Two loads that count are the same, so after the answer to one nothing   *)
(* that counts is under way and the buttons may be enabled.                *)
LEMMA LoadAnsweredInv ==
    ASSUME Inv, NEW l \in loads, LoadAnswered(l)
    PROVE  Inv'
  <1>1. /\ loads' = loads \ {l}
        /\ UNCHANGED <<text, validated, validating, page, filter, debounce, selected, calls,
                       question>>
    BY DEF LoadAnswered
  <1>2. loads \in SUBSET Load /\ l \in Load
    BY DEF Inv, TypeOK
  <1>3. CASE ~l.current /\ UNCHANGED <<shown, refresh, previous, next>>
    <2>1. TypeOK'
      <3> HIDE DEF Load, List, Call, Selection
      <3> QED  BY <1>1, <1>3 DEF Inv, TypeOK
    <2>2. /\ SessionIsText' /\ CurrentLoadIsQuery' /\ ShownIsQuery'
          /\ SelectionIsOfSession' /\ CurrentCallIsSelection' /\ QuestionIsOfSelection'
      BY <1>1, <1>3 DEF Inv, SessionIsText, CurrentLoadIsQuery, ShownIsQuery,
                        SelectionIsOfSession, CurrentCallIsSelection, QuestionIsOfSelection
    <2> QED  BY <2>1, <2>2 DEF Inv
  <1>4. CASE l.current
    <2>1. validated # NoSession /\ l.list = Query
      BY <1>4 DEF Inv, CurrentLoadIsQuery
    <2>2. /\ refresh' = TRUE /\ previous' = (page > 1)
          /\ \/ UNCHANGED <<shown, next>>
             \/ shown' = l.list /\ next' \in {FALSE, page < MaxPages}
      BY <1>4 DEF LoadAnswered
    <2>3. \A other \in loads' : ~other.current
      <3> SUFFICES ASSUME NEW other \in loads', other.current
                   PROVE  FALSE
        OBVIOUS
      <3>1. other \in Load /\ other \in loads /\ other # l
        BY <1>1, <1>2
      <3>2. other.list = l.list
        BY <2>1, <3>1 DEF Inv, CurrentLoadIsQuery
      <3>3. other.current = TRUE /\ l.current = TRUE
        BY <1>2, <1>4, <3>1
      <3>4. other = l
        BY <1>2, <3>1, <3>2, <3>3
      <3> QED  BY <3>1, <3>4
    <2>4. TypeOK'
      <3>1. l.list \in List
        BY <1>2
      <3>2. loads' \in SUBSET Load
        BY <1>1, <1>2
      <3>3. refresh' \in BOOLEAN
        BY <2>2
      <3>4. previous' \in BOOLEAN
        BY <2>2
      <3>5. next' \in BOOLEAN
        <4>1. next \in BOOLEAN
          BY DEF Inv, TypeOK
        <4>2. next' = next \/ next' = FALSE \/ next' = (page < MaxPages)
          BY <2>2
        <4>3. next' = (page < MaxPages) => next' \in BOOLEAN
          OBVIOUS
        <4>4. next' = FALSE => next' \in BOOLEAN
          OBVIOUS
        <4>5. next' = next => next' \in BOOLEAN
          BY <4>1
        <4> HIDE DEF Query, UserActs
        <4> QED  BY <4>2, <4>3, <4>4, <4>5, Zenon
      <3> HIDE DEF Load, List, Call, Selection
      <3> QED  BY <1>1, <2>2, <3>1, <3>2, <3>3, <3>4, <3>5 DEF Inv, TypeOK
    <2>5. CurrentLoadIsQuery'
      BY <2>3 DEF CurrentLoadIsQuery
    <2>6. ShownIsQuery'
      BY <1>1, <2>1, <2>2 DEF Inv, ShownIsQuery
    <2>7. /\ SessionIsText' /\ SelectionIsOfSession'
          /\ CurrentCallIsSelection' /\ QuestionIsOfSelection'
      BY <1>1 DEF Inv, SessionIsText, SelectionIsOfSession, CurrentCallIsSelection,
                  QuestionIsOfSelection
    <2> QED  BY <2>4, <2>5, <2>6, <2>7 DEF Inv
  <1> QED  BY <1>3, <1>4 DEF LoadAnswered

LEMMA SelectEntryInv ==
    ASSUME Inv, NEW e \in Entries, SelectEntry(e)
    PROVE  Inv'
  <1> DEFINE new == [session |-> shown.session, entry |-> e]
             call == [selection |-> new, current |-> TRUE]
  <1>1. /\ question = NoSelection /\ shown # NoList
        /\ selected' = new /\ calls' \in Issue(call, calls)
        /\ UNCHANGED <<text, validated, validating, listVars, question>>
    BY DEF SelectEntry
  <1>2. shown = Query /\ validated # NoSession /\ validated = text /\ validated \in Sessions
    BY <1>1 DEF Inv, TypeOK, ShownIsQuery, SessionIsText
  <1>3. new.session = text /\ new \in Selection
    BY <1>2
  <1>4. call \in Call
    BY <1>3
  <1>5. calls \in SUBSET Call
    BY DEF Inv, TypeOK
  <1>6. \A c \in calls' : c = call \/ (c \in Call /\ c.current = FALSE)
    <2> HIDE DEF call, Call
    <2> QED  BY <1>1, <1>5, Issued, OutdatedCalls
  <1>7. calls' \in SUBSET Call
    <2> HIDE DEF call, Call
    <2> QED  BY <1>4, <1>6
  <1>8. TypeOK'
    <2> HIDE DEF new, Load, List, Call, Selection
    <2> QED  BY <1>1, <1>3, <1>7 DEF Inv, TypeOK, listVars
  <1>9. CurrentCallIsSelection'
    <2> SUFFICES ASSUME NEW c \in calls', c.current
                 PROVE  selected' = c.selection
      BY DEF CurrentCallIsSelection
    <2>1. c = call
      BY <1>6
    <2> QED  BY <1>1, <2>1
  <1>10. SelectionIsOfSession'
    BY <1>1, <1>3 DEF SelectionIsOfSession
  <1>11. SessionIsText' /\ CurrentLoadIsQuery' /\ ShownIsQuery' /\ QuestionIsOfSelection'
    BY <1>1 DEF listVars, Inv, SessionIsText, CurrentLoadIsQuery, ShownIsQuery,
                QuestionIsOfSelection
  <1> QED  BY <1>8, <1>9, <1>10, <1>11 DEF Inv

LEMMA StreamConfigurationAnsweredInv ==
    ASSUME Inv, NEW c \in calls, StreamConfigurationAnswered(c)
    PROVE  Inv'
  <1>1. /\ calls' = calls \ {c}
        /\ question' \in IF c.current THEN {question, c.selection} ELSE {question}
        /\ UNCHANGED <<text, validated, validating, listVars, selected>>
    BY DEF StreamConfigurationAnswered
  <1>2. calls \in SUBSET Call /\ c \in Call
    BY DEF Inv, TypeOK
  <1>3. question' = question \/ (c.current /\ question' = c.selection)
    BY <1>1
  <1>4. TypeOK'
    <2>1. c.selection \in Selection /\ calls' \in SUBSET Call
      BY <1>1, <1>2
    <2> HIDE DEF Load, List, Call, Selection
    <2> QED  BY <1>1, <1>3, <2>1 DEF Inv, TypeOK, listVars
  <1>5. QuestionIsOfSelection'
    BY <1>1, <1>3 DEF Inv, QuestionIsOfSelection, CurrentCallIsSelection
  <1>6. /\ SessionIsText' /\ CurrentLoadIsQuery' /\ ShownIsQuery'
        /\ SelectionIsOfSession' /\ CurrentCallIsSelection'
    BY <1>1 DEF listVars, Inv, SessionIsText, CurrentLoadIsQuery, ShownIsQuery,
                SelectionIsOfSession, CurrentCallIsSelection
  <1> QED  BY <1>4, <1>5, <1>6 DEF Inv

LEMMA AnswerQuestionInv == Inv /\ AnswerQuestion => Inv'
  <1> SUFFICES ASSUME Inv, AnswerQuestion PROVE Inv'
    OBVIOUS
  <1>1. TypeOK'
    <2> HIDE DEF Load, List, Call, Selection
    <2> QED  BY DEF Inv, TypeOK, AnswerQuestion, listVars
  <1>2. /\ SessionIsText' /\ CurrentLoadIsQuery' /\ ShownIsQuery'
        /\ SelectionIsOfSession' /\ CurrentCallIsSelection' /\ QuestionIsOfSelection'
    BY DEF AnswerQuestion, listVars, Inv, SessionIsText, CurrentLoadIsQuery, ShownIsQuery,
           SelectionIsOfSession, CurrentCallIsSelection, QuestionIsOfSelection
  <1> QED  BY <1>1, <1>2 DEF Inv

(* Buttons and page size lead to a page that exists.                       *)
LEMMA ButtonsInv == Inv /\ (Refresh \/ ChangePageSize \/ PreviousPage \/ NextPage) => Inv'
  <1> SUFFICES ASSUME Inv, Refresh \/ ChangePageSize \/ PreviousPage \/ NextPage
               PROVE  Inv'
    OBVIOUS
  <1>1. /\ page \in 1 .. MaxPages /\ filter \in Filters /\ 1 \in 1 .. MaxPages
        /\ page > 1 => page - 1 \in 1 .. MaxPages
        /\ page < MaxPages => page + 1 \in 1 .. MaxPages
    BY BoundAssumption DEF Inv, TypeOK
  <1>2. PICK p \in 1 .. MaxPages, f \in Filters : Turn(p, f)
    BY <1>1 DEF Refresh, ChangePageSize, PreviousPage, NextPage
  <1> QED  BY <1>2, TurnInv

LEMMA StepInv == Inv /\ [Next]_vars => Inv'
  <1> SUFFICES ASSUME Inv, [Next]_vars PROVE Inv'
    OBVIOUS
  <1>1. CASE \E s \in Sessions \cup {NoSession} : EditSession(s)
    BY <1>1, EditSessionInv
  <1>2. CASE ValidateSession
    BY <1>2, ValidateSessionInv
  <1>3. CASE SessionValidated
    BY <1>3, SessionValidatedInv
  <1>4. CASE \E f \in Filters : Search(f)
    BY <1>4, SearchInv
  <1>5. CASE DebounceFires
    BY <1>5, DebounceInv
  <1>6. CASE Refresh \/ ChangePageSize \/ PreviousPage \/ NextPage
    BY <1>6, ButtonsInv
  <1>7. CASE \E l \in loads : LoadAnswered(l)
    BY <1>7, LoadAnsweredInv
  <1>8. CASE \E e \in Entries : SelectEntry(e)
    BY <1>8, SelectEntryInv
  <1>9. CASE \E c \in calls : StreamConfigurationAnswered(c)
    BY <1>9, StreamConfigurationAnsweredInv
  <1>10. CASE AnswerQuestion
    BY <1>10, AnswerQuestionInv
  <1>11. CASE UNCHANGED vars
    <2>1. TypeOK'
      <3> HIDE DEF Load, List, Call, Selection
      <3> QED  BY <1>11 DEF Inv, TypeOK, vars, listVars
    <2>2. /\ SessionIsText' /\ CurrentLoadIsQuery' /\ ShownIsQuery'
          /\ SelectionIsOfSession' /\ CurrentCallIsSelection' /\ QuestionIsOfSelection'
      BY <1>11 DEF vars, listVars, Inv, SessionIsText, CurrentLoadIsQuery, ShownIsQuery,
                   SelectionIsOfSession, CurrentCallIsSelection, QuestionIsOfSelection
    <2> QED  BY <2>1, <2>2 DEF Inv
  <1> QED  BY <1>1, <1>2, <1>3, <1>4, <1>5, <1>6, <1>7, <1>8, <1>9, <1>10, <1>11 DEF Next

-----------------------------------------------------------------------------
(* The inductive invariant: what the fields say, the list, the answers     *)
(* that still count, the selection and the question agree.                 *)
THEOREM DialogInvCorrect == Spec => []Inv
  <1> QED  BY InitInv, StepInv, PTL DEF Spec

(* Every variable of the dialog keeps its type; in particular no button    *)
(* leads to a page before the first one.                                   *)
THEOREM DialogTypeCorrect == Spec => []TypeOK
  <1>1. Inv => TypeOK
    BY DEF Inv
  <1> QED  BY <1>1, DialogInvCorrect, PTL

(* The entries shown are those of the session, page and search the fields  *)
(* say, however late and in whatever order the answers come.               *)
THEOREM ListAlwaysIsWhatItSays == Spec => []ListIsWhatItSays
  <1>1. Inv => ListIsWhatItSays
    BY DEF Inv, SessionIsText, ShownIsQuery, CurrentLoadIsQuery, ListIsWhatItSays
  <1> QED  BY <1>1, DialogInvCorrect, PTL

(* No entry found with another session stays in the draft.                 *)
THEOREM SelectionAlwaysOfSession == Spec => []SelectionIsOfSession
  <1>1. Inv => SelectionIsOfSession
    BY DEF Inv
  <1> QED  BY <1>1, DialogInvCorrect, PTL

(* The question is about the entry selected last.                          *)
THEOREM QuestionAlwaysOfSelection == Spec => []QuestionIsOfSelection
  <1>1. Inv => QuestionIsOfSelection
    BY DEF Inv
  <1> QED  BY <1>1, DialogInvCorrect, PTL

-----------------------------------------------------------------------------
(* The list comes back.                                                    *)

(* A list that is still expected is on its way.  The buttons for other     *)
(* pages are enabled with the refresh button only, so they cannot replace  *)
(* the load that is waited for.                                            *)
WayBack ==
    /\ previous \/ next => refresh
    /\ validated # NoSession /\ ~refresh => debounce \/ \E l \in loads : l.current

(* A load that was just started counts.                                    *)
LEMMA StartedLoadCounts ==
    ASSUME NEW session, NEW p, NEW f, StartEntryLoad(session, p, f)
    PROVE  (\E l \in loads' : l.current) /\ ~previous' /\ ~next'
  <1> DEFINE new == [list |-> [session |-> session, page |-> p, filter |-> f],
                     current |-> TRUE]
  <1>1. loads' \in Issue(new, loads) /\ previous' = FALSE /\ next' = FALSE
    BY DEF StartEntryLoad
  <1>2. new \in loads'
    <2> HIDE DEF new
    <2> QED  BY <1>1 DEF Issue
  <1> QED  BY <1>1, <1>2

LEMMA WayBackStep == Inv /\ WayBack /\ [Next]_vars => WayBack'
  <1> SUFFICES ASSUME Inv, WayBack, [Next]_vars PROVE WayBack'
    OBVIOUS
  <1> USE DEF WayBack
  <1>1. CASE \E s \in Sessions \cup {NoSession} : EditSession(s)
    BY <1>1 DEF EditSession
  <1>2. CASE ValidateSession
    BY <1>2 DEF ValidateSession, listVars
  <1>3. CASE SessionValidated
    BY <1>3, StartedLoadCounts DEF SessionValidated, listVars
  <1>4. CASE \E f \in Filters : Search(f)
    BY <1>4 DEF Search
  <1>5. CASE DebounceFires
    BY <1>5, StartedLoadCounts DEF DebounceFires
  <1>6. CASE Refresh \/ ChangePageSize \/ PreviousPage \/ NextPage
    BY <1>6, StartedLoadCounts DEF Refresh, ChangePageSize, PreviousPage, NextPage, Turn
  <1>7. CASE \E l \in loads : LoadAnswered(l)
    <2>1. PICK l \in loads : LoadAnswered(l)
      BY <1>7
    <2>2. CASE l.current
      BY <2>1, <2>2 DEF LoadAnswered
    <2>3. CASE ~l.current
      <3>1. \A m \in loads : m.current => m \in loads'
        BY <2>1, <2>3 DEF LoadAnswered
      <3>2. UNCHANGED <<validated, debounce, refresh, previous, next>>
        BY <2>1, <2>3 DEF LoadAnswered
      <3> QED  BY <3>1, <3>2
    <2> QED  BY <2>2, <2>3
  <1>8. CASE \E e \in Entries : SelectEntry(e)
    BY <1>8 DEF SelectEntry, listVars
  <1>9. CASE \E c \in calls : StreamConfigurationAnswered(c)
    BY <1>9 DEF StreamConfigurationAnswered, listVars
  <1>10. CASE AnswerQuestion
    BY <1>10 DEF AnswerQuestion, listVars
  <1>11. CASE UNCHANGED vars
    BY <1>11 DEF vars, listVars
  <1> QED  BY <1>1, <1>2, <1>3, <1>4, <1>5, <1>6, <1>7, <1>8, <1>9, <1>10, <1>11 DEF Next

(* The dialog never waits for nothing: when its buttons are disabled, a    *)
(* load that counts is under way or the search timer will start one.       *)
THEOREM NeverWaitsForNothing == Spec => []WayBack
  <1>1. Init => WayBack
    BY DEF Init, WayBack
  <1> QED  BY <1>1, WayBackStep, DialogInvCorrect, PTL DEF Spec

(* The user waits for load l.                                              *)
WaitsFor(l) == l \in loads /\ l.current /\ ~refresh /\ ~StartsOver

(* Only the answer to l, or the user, ends the wait for it.                *)
LEMMA WaitEnds ==
    ASSUME NEW l \in Load, WayBack, WaitsFor(l), [Next]_vars
    PROVE  /\ WaitsFor(l)' \/ refresh' \/ StartsOver'
           /\ LoadAnswered(l) => refresh'
  <1> USE DEF WaitsFor, StartsOver, WayBack
  <1>1. CASE \E s \in Sessions \cup {NoSession} : EditSession(s)
    BY <1>1 DEF EditSession, LoadAnswered
  <1>2. CASE ValidateSession
    BY <1>2 DEF ValidateSession, LoadAnswered
  <1>3. CASE SessionValidated
    BY <1>3 DEF SessionValidated
  <1>4. CASE \E f \in Filters : Search(f)
    BY <1>4 DEF Search, LoadAnswered
  <1>5. CASE DebounceFires
    BY <1>5 DEF DebounceFires
  <1>6. CASE Refresh \/ ChangePageSize \/ PreviousPage \/ NextPage
    BY <1>6 DEF Refresh, ChangePageSize, PreviousPage, NextPage
  <1>7. CASE \E other \in loads : LoadAnswered(other)
    BY <1>7 DEF LoadAnswered
  <1>8. CASE \E e \in Entries : SelectEntry(e)
    BY <1>8 DEF SelectEntry, listVars, LoadAnswered
  <1>9. CASE \E c \in calls : StreamConfigurationAnswered(c)
    BY <1>9 DEF StreamConfigurationAnswered, listVars, LoadAnswered
  <1>10. CASE AnswerQuestion
    BY <1>10 DEF AnswerQuestion, listVars, LoadAnswered
  <1>11. CASE UNCHANGED vars
    BY <1>11 DEF vars, listVars, LoadAnswered
  <1> QED  BY <1>1, <1>2, <1>3, <1>4, <1>5, <1>6, <1>7, <1>8, <1>9, <1>10, <1>11 DEF Next

(* What TLAPS has no rule for: an unanswered load can be answered.         *)
LoadsEnabled == \A l \in Load : (l \in loads => ENABLED <<LoadAnswered(l)>>_vars)

LEMMA EveryLoadFair == FairSpec => \A l \in Load : LoadFair(l)
  BY PTL DEF FairSpec, Fairness

(* The wait for a given load ends.                                         *)
LEMMA LoadEnds ==
    ASSUME NEW l \in Load
    PROVE  FairSpec /\ []LoadsEnabled => [](WaitsFor(l) => <>(refresh \/ StartsOver))
  <1>1. FairSpec => LoadFair(l)
    BY EveryLoadFair
  <1>2. LoadsEnabled => (WaitsFor(l) => ENABLED <<LoadAnswered(l)>>_vars)
    BY DEF LoadsEnabled, WaitsFor
  <1>3. WayBack /\ WaitsFor(l) /\ [Next]_vars => (WaitsFor(l)' \/ (refresh \/ StartsOver)')
    BY WaitEnds
  <1>4. WayBack /\ WaitsFor(l) /\ [Next]_vars /\ <<LoadAnswered(l)>>_vars
          => (refresh \/ StartsOver)'
    BY WaitEnds
  <1> QED  BY <1>1, <1>2, <1>3, <1>4, NeverWaitsForNothing, PTL
          DEF FairSpec, Spec, LoadFair

LEMMA SomeLoadEnds ==
    (\A l \in Load : (WaitsFor(l) => <>(refresh \/ StartsOver)))
      => ((\E l \in Load : WaitsFor(l)) => <>(refresh \/ StartsOver))
  OBVIOUS

(* Buttons that were disabled for a load are enabled again, whichever      *)
(* answers come, fail or are outdated, unless the user starts over.        *)
THEOREM ListAlwaysComesBack == FairSpec /\ []LoadsEnabled => ListComesBack
  <1>1. FairSpec /\ []LoadsEnabled
          => \A l \in Load : [](WaitsFor(l) => <>(refresh \/ StartsOver))
    BY LoadEnds
  <1>2. (\A l \in Load : [](WaitsFor(l) => <>(refresh \/ StartsOver)))
          => [](\A l \in Load : (WaitsFor(l) => <>(refresh \/ StartsOver)))
    OBVIOUS
  <1>3. Inv /\ WayBack => \/ ~(validated # NoSession /\ ~refresh)
                          \/ (\E l \in Load : WaitsFor(l))
                          \/ (refresh \/ StartsOver)
    BY DEF Inv, TypeOK, WayBack, WaitsFor, StartsOver
  <1> QED
    BY <1>1, <1>2, <1>3, SomeLoadEnds, DialogInvCorrect, NeverWaitsForNothing, PTL
       DEF FairSpec, ListComesBack

=============================================================================
