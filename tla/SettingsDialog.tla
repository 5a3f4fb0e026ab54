---------------------------- MODULE SettingsDialog ----------------------------
(***************************************************************************)
(* The asynchronous part of src/src/settings_dialog.cpp: validating the    *)
(* Kaltura session, listing its live entries page by page, selecting one   *)
(* and asking whether OBS should be configured for it.  Every call of the  *)
(* API is answered later, in any order; the dialog tells answers apart by  *)
(* request ids that are compared with the latest one.                      *)
(*                                                                         *)
(* A request is kept until its answer and marked outdated when its id is   *)
(* no longer the latest.  The module follows one dialog from its opening;  *)
(* closing it makes all later answers void (QPointer).  Left out: layout,  *)
(* texts, thumbnails, the local status filter, the caption dictionary, the *)
(* partner id, and radio buttons and boxes that are read on OK.            *)
(***************************************************************************)
EXTENDS Naturals, FiniteSets

CONSTANTS
    Sessions,   \* session texts that pass the local validation
    NoSession,  \* any other text
    Entries,    \* ids of live entries
    Filters,    \* search text and page size
    MaxPages,   \* bound: pages of a list
    MaxOpen,    \* bound: requests of a kind that are not answered yet
    NoSelection,
    NoList

ASSUME SessionAssumption   == NoSession \notin Sessions
ASSUME BoundAssumption     == MaxPages \in Nat \ {0} /\ MaxOpen \in Nat \ {0}
ASSUME SelectionAssumption == NoSelection \notin [session : Sessions, entry : Entries]
ASSUME ListAssumption ==
    NoList \notin [session : Sessions, page : 1 .. MaxPages, filter : Filters]

VARIABLES
    text,        \* the session field
    validated,   \* validatedSession_; the entries are visible only with one
    validating,  \* the session of a validation that is under way
    page,        \* currentPage_
    filter,      \* what the search and page size fields say
    shown,       \* the query liveEntries_ is the answer to
    debounce,    \* the search timer runs
    refresh,     \* refresh button and page size are enabled
    previous,    \* the buttons for the other pages are enabled
    next,
    loads,       \* listLiveEntries calls
    selected,    \* the entry selected in the draft
    calls,       \* getStreamConfiguration calls
    question     \* the confirmation box, which blocks the dialog but no answers

listVars == <<page, filter, shown, debounce, refresh, previous, next, loads>>
vars == <<text, validated, validating, listVars, selected, calls, question>>

Selection == [session : Sessions, entry : Entries]
List      == [session : Sessions, page : 1 .. MaxPages, filter : Filters]
Load      == [list : List, current : BOOLEAN]
Call      == [selection : Selection, current : BOOLEAN]

TypeOK ==
    /\ text \in Sessions \cup {NoSession}
    /\ validated \in Sessions \cup {NoSession}
    /\ validating \in Sessions \cup {NoSession}
    /\ page \in 1 .. MaxPages
    /\ filter \in Filters
    /\ shown \in List \cup {NoList}
    /\ debounce \in BOOLEAN
    /\ refresh \in BOOLEAN /\ previous \in BOOLEAN /\ next \in BOOLEAN
    /\ loads \in SUBSET Load
    /\ selected \in Selection \cup {NoSelection}
    /\ calls \in SUBSET Call
    /\ question \in Selection \cup {NoSelection}

(* The draft is a copy of the settings.  Their entry was selected with     *)
(* their session, which may be missing when it could not be read.          *)
Init ==
    /\ text \in Sessions \cup {NoSession}
    /\ selected \in Selection \cup {NoSelection}
    /\ selected # NoSelection /\ text # NoSession => selected.session = text
    /\ validated = NoSession
    /\ validating = NoSession
    /\ page = 1
    /\ filter \in Filters
    /\ shown = NoList
    /\ debounce = FALSE
    /\ refresh = TRUE /\ previous = TRUE /\ next = TRUE
    /\ loads = {}
    /\ calls = {}
    /\ question = NoSelection

-----------------------------------------------------------------------------
Outdated(requests) == {[r EXCEPT !.current = FALSE] : r \in requests}

(* A request with the latest id.  Of more outdated ones than the bound     *)
(* allows, some have been answered before.                                 *)
Issue(request, requests) ==
    {{request} \cup open : open \in {s \in SUBSET Outdated(requests) : Cardinality(s) < MaxOpen}}

UserActs == question = NoSelection

StartEntryLoad(session, p, f) ==
    /\ page' = p
    /\ loads' \in Issue([list |-> [session |-> session, page |-> p, filter |-> f],
                         current |-> TRUE], loads)
    /\ shown' = NoList
    /\ refresh' = FALSE /\ previous' = FALSE /\ next' = FALSE

-----------------------------------------------------------------------------
(* The session.                                                            *)

\* bug: the selection stays
EditSessionKeepingSelection(s) ==
    /\ UserActs
    /\ validating = NoSession
    /\ s # text
    /\ text' = s
    /\ validated' = NoSession
    /\ loads' = Outdated(loads)
    /\ shown' = NoList
    /\ page' = 1
    /\ UNCHANGED <<validating, filter, debounce, refresh, previous, next, selected, calls,
                   question>>

(* The field is disabled while a validation is under way, so the answer of *)
(* a validation is always for the text.  A call for the configuration of   *)
(* an entry is not outdated.                                               *)
EditSession(s) ==
    /\ UserActs
    /\ validating = NoSession
    /\ s # text
    /\ text' = s
    /\ validated' = NoSession
    /\ loads' = Outdated(loads)
    /\ shown' = NoList
    /\ page' = 1
    /\ selected' = NoSelection
    /\ UNCHANGED <<validating, filter, debounce, refresh, previous, next, calls, question>>

(* Also on its own when the dialog opens with a session.                   *)
ValidateSession ==
    /\ UserActs
    /\ validating = NoSession
    /\ text # NoSession
    /\ validating' = text
    /\ UNCHANGED <<text, validated, listVars, selected, calls, question>>

(* A failure leaves a session that was validated before as it was.         *)
SessionValidated ==
    /\ validating # NoSession
    /\ validating' = NoSession
    /\ \/ UNCHANGED <<validated, listVars>>
       \/ /\ validated' = validating
          /\ StartEntryLoad(validating, 1, filter)
          /\ UNCHANGED <<filter, debounce>>
    /\ UNCHANGED <<text, selected, calls, question>>

-----------------------------------------------------------------------------
(* The list of entries.                                                    *)

\* bug: a load under way still counts
SearchKeepingLoads(f) ==
    /\ UserActs
    /\ validated # NoSession
    /\ f # filter
    /\ filter' = f
    /\ page' = 1
    /\ shown' = NoList
    /\ previous' = FALSE /\ next' = FALSE
    /\ debounce' = TRUE
    /\ UNCHANGED <<text, validated, validating, refresh, loads, selected, calls, question>>

(* Every change of the search text starts the timer again.                 *)
Search(f) ==
    /\ UserActs
    /\ validated # NoSession
    /\ f # filter
    /\ filter' = f
    /\ loads' = Outdated(loads)
    /\ page' = 1
    /\ shown' = NoList
    /\ previous' = FALSE /\ next' = FALSE
    /\ debounce' = TRUE
    /\ UNCHANGED <<text, validated, validating, refresh, selected, calls, question>>

DebounceFires ==
    /\ debounce
    /\ debounce' = FALSE
    /\ \/ validated = NoSession /\ UNCHANGED <<page, shown, refresh, previous, next, loads>>
       \/ validated # NoSession /\ StartEntryLoad(validated, page, filter)
    /\ UNCHANGED <<text, validated, validating, filter, selected, calls, question>>

(* The buttons and the page size.                                          *)
Turn(p, f) ==
    /\ UserActs
    /\ validated # NoSession
    /\ StartEntryLoad(validated, p, f)
    /\ filter' = f
    /\ UNCHANGED <<text, validated, validating, debounce, selected, calls, question>>

\* bug: the first page has one before it
PreviousPageUnchecked == Turn(page - 1, filter)

Refresh        == refresh /\ Turn(page, filter)
ChangePageSize == refresh /\ \E f \in Filters \ {filter} : Turn(1, f)
PreviousPage   == previous /\ page > 1 /\ Turn(page - 1, filter)
NextPage       == next /\ page < MaxPages /\ Turn(page + 1, filter)

\* bug: after a failure everything stays disabled
LoadAnsweredOnlySuccess(l) ==
    /\ l \in loads
    /\ loads' = loads \ {l}
    /\ \/ UNCHANGED <<shown, refresh, previous, next>>
       \/ /\ l.current
          /\ shown' = l.list
          /\ refresh' = TRUE
          /\ previous' = (page > 1)
          /\ next' \in {FALSE, page < MaxPages}
    /\ UNCHANGED <<text, validated, validating, page, filter, debounce, selected, calls, question>>

(* Failed or not, a current answer enables the buttons; whether there is a *)
(* next page depends on the number of entries in the answer.               *)
LoadAnswered(l) ==
    /\ l \in loads
    /\ loads' = loads \ {l}
    /\ \/ ~l.current /\ UNCHANGED <<shown, refresh, previous, next>>
       \/ /\ l.current
          /\ refresh' = TRUE
          /\ previous' = (page > 1)
          /\ \/ UNCHANGED <<shown, next>>
             \/ shown' = l.list /\ next' \in {FALSE, page < MaxPages}
    /\ UNCHANGED <<text, validated, validating, page, filter, debounce, selected, calls, question>>

-----------------------------------------------------------------------------
(* The selection.                                                          *)

\* bug: an earlier call still counts
SelectKeepingCalls(e) ==
    /\ UserActs
    /\ shown # NoList
    /\ LET new == [session |-> shown.session, entry |-> e]
       IN  /\ selected' = new
           /\ Cardinality(calls) < MaxOpen
           /\ calls' = calls \cup {[selection |-> new, current |-> TRUE]}
    /\ UNCHANGED <<text, validated, validating, listVars, question>>

(* The entry may be the selected one: when its row is deselected and       *)
(* selected again, the dialog asks for its configuration again.            *)
SelectEntry(e) ==
    /\ UserActs
    /\ shown # NoList
    /\ LET new == [session |-> shown.session, entry |-> e]
       IN  /\ selected' = new
           /\ calls' \in Issue([selection |-> new, current |-> TRUE], calls)
    /\ UNCHANGED <<text, validated, validating, listVars, question>>

(* An answer without a usable configuration is only reported.              *)
StreamConfigurationAnswered(c) ==
    /\ c \in calls
    /\ calls' = calls \ {c}
    /\ question' \in IF c.current THEN {question, c.selection} ELSE {question}
    /\ UNCHANGED <<text, validated, validating, listVars, selected>>

(* Yes makes the plugin apply the configuration (applyObsStreamSettings).  *)
AnswerQuestion ==
    /\ question # NoSelection
    /\ question' = NoSelection
    /\ UNCHANGED <<text, validated, validating, listVars, selected, calls>>

-----------------------------------------------------------------------------
Next ==
    \/ \E s \in Sessions \cup {NoSession} : EditSession(s)
    \/ ValidateSession
    \/ SessionValidated
    \/ \E f \in Filters : Search(f)
    \/ DebounceFires
    \/ Refresh
    \/ ChangePageSize
    \/ PreviousPage
    \/ NextPage
    \/ \E l \in loads : LoadAnswered(l)
    \/ \E e \in Entries : SelectEntry(e)
    \/ \E c \in calls : StreamConfigurationAnswered(c)
    \/ AnswerQuestion

Spec == Init /\ [][Next]_vars

(* Calls of the API complete (ApiClient) and the timer fires.              *)
LoadFair(l) == WF_vars(LoadAnswered(l))

Fairness ==
    /\ \A l \in Load : LoadFair(l)
    /\ WF_vars(DebounceFires)

FairSpec == Spec /\ Fairness

-----------------------------------------------------------------------------
(* What the dialog shows is what its fields say: entries of the validated  *)
(* session, which is the one in the field, on this page and for this       *)
(* search, although an answer may be to an earlier session or search; and  *)
(* while a list is on its way no button leads on from the old one.         *)
ListIsWhatItSays ==
    /\ validated # NoSession => validated = text
    /\ shown # NoList => shown = [session |-> validated, page |-> page, filter |-> filter]
    /\ validated # NoSession /\ (\E l \in loads : l.current)
         => ~previous /\ ~next /\ ~refresh

(* OK saves session and entry of one account: an entry found with another  *)
(* session is never kept in the draft (settings_dialog.cpp textChanged).   *)
SelectionIsOfSession ==
    selected # NoSelection /\ text # NoSession => selected.session = text

(* OBS is configured for the entry selected last, not for one whose answer *)
(* came late.  Only after an edit of the session, which drops the          *)
(* selection, a question about the dropped entry may still come.           *)
QuestionIsOfSelection ==
    question # NoSelection => selected \in {question, NoSelection}

(* The user starts over: a search, a validation or another session.        *)
StartsOver == debounce \/ validating # NoSession \/ validated = NoSession

(* The list can be loaded again: after any failure, outdated answer or     *)
(* change of session the buttons come back, unless the user starts over.   *)
ListComesBack == (validated # NoSession /\ ~refresh) ~> (refresh \/ StartsOver)

=============================================================================
