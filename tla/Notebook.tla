------------------------------ MODULE Notebook ------------------------------
(***************************************************************************)
(* A month of the daily notebook of one business: columns of income and    *)
(* expense, a cell for each day.  The first opening makes the notebook and *)
(* its standard columns, one statement each; every opening copies what the *)
(* completed appointments of each day brought in into the column           *)
(* "Randevular", reads the cells again and answers.  Owner and managers    *)
(* open it, edit cells and columns at the same time.                       *)
(*                                                                         *)
(* Sources: services/domain/dailyNotebook/dailyNotebookService.ts,         *)
(* repositories/dailyNotebookRepository.ts.                                *)
(***************************************************************************)
EXTENDS Integers

CONSTANTS
  Columns,  \* ids of revenue_columns
  NoColumn,
  BookDays, \* days of the month
  Amounts,
  Blank,    \* no cell; no completed appointment
  Visits    \* requests in flight

ASSUME NotebookAssumption == NoColumn \notin Columns /\ Blank \notin Amounts

VARIABLES
  notebook, \* the row of the month is there
  column,   \* columns: "Randevular", which is a system column, or another
  cell,     \* daily_entries
  revenue,  \* what the completed appointments of each day sum up to
  visit,    \* the next statement of each request and what it has read
  muddled   \* history: a column was stored where there was none for a request
            \* that made the standard columns, or before there were any

notebookVars == <<notebook, column, cell, revenue, visit, muddled>>

Away == [at |-> "away"]
Month == [BookDays -> Amounts \cup {Blank}]
NoAmounts == [d \in BookDays |-> Blank]

NotebookTypeOK ==
  /\ notebook \in BOOLEAN
  /\ column \in [Columns -> {"none", "Randevular", "other"}]
  /\ cell \in [Columns -> Month]
  /\ revenue \in Month
  /\ visit \in [Visits -> {Away} \cup
       [at : {"create", "look", "first", "rest", "columns", "edit"},
        for : {"month", "columns"}, again : BOOLEAN] \cup
       [at : {"revenue", "sync"}, to : Columns \cup {NoColumn}, of : Month,
        left : SUBSET BookDays, calm : BOOLEAN]]
  /\ muddled \in BOOLEAN

NotebookInit ==
  /\ notebook = FALSE
  /\ column = [c \in Columns |-> "none"]
  /\ cell = [c \in Columns |-> NoAmounts]
  /\ revenue = NoAmounts
  /\ visit = [v \in Visits |-> Away]
  /\ muddled = FALSE

Present == {c \in Columns : column[c] # "none"}
Randevular == {c \in Columns : column[c] = "Randevular"}
VisitTurns(v, state) == visit' = [visit EXCEPT ![v] = state]
VisitGoes(v, from, at) ==
  visit[v].at = from /\ visit' = [visit EXCEPT ![v].at = at]

-----------------------------------------------------------------------------
(* getOrCreateNotebook, getColumns *)

Open(v) ==
  /\ visit[v] = Away
  /\ VisitTurns(v, [at |-> IF notebook THEN "columns" ELSE "create", for |-> "month", again |-> FALSE])
  /\ UNCHANGED <<notebook, column, cell, revenue, muddled>>

GetColumns(v) ==
  /\ visit[v] = Away
  /\ VisitTurns(v, [at |-> "columns", for |-> "columns", again |-> FALSE])
  /\ UNCHANGED <<notebook, column, cell, revenue, muddled>>

\* There is one row for a month: a second request fails.
CreateNotebook(v) ==
  /\ visit[v].at = "create"
  /\ IF notebook THEN VisitTurns(v, Away) ELSE VisitGoes(v, "create", "look")
  /\ notebook' = TRUE
  /\ UNCHANGED <<column, cell, revenue, muddled>>

\* initializeDefaultColumns, if no column is found.
Look(v) ==
  /\ VisitGoes(v, "look", IF Present = {} THEN "first" ELSE "columns")
  /\ UNCHANGED <<notebook, column, cell, revenue, muddled>>

StoreColumn(kind) ==
  /\ \E c \in Columns \ Present : column' = [column EXCEPT ![c] = kind]
  /\ UNCHANGED <<notebook, cell, revenue>>

\* "Randevular" is the first of DEFAULT_COLUMNS, ...
FirstDefault(v) ==
  /\ VisitGoes(v, "first", "rest")
  /\ StoreColumn("Randevular")
  /\ muddled' = (muddled \/ Present # {})

\* ... the others stand for one, or for as many as there are ids.
OtherDefaults(v) ==
  /\ VisitGoes(v, "rest", "columns")
  /\ IF Present = Columns THEN UNCHANGED <<notebook, column, cell, revenue>>
                          ELSE StoreColumn("other")
  /\ UNCHANGED muddled

\* findColumnsByBusinessId; without any, the standard ones are made and it is
\* asked again.  Of two columns of one name and place any may come first.
FindColumns(v) ==
  /\ visit[v].at = "columns"
  /\ IF Present = {} /\ ~visit[v].again
     THEN VisitTurns(v, [visit[v] EXCEPT !.at = "look", !.again = TRUE])
     ELSE
     \/ visit[v].for = "columns" /\ VisitTurns(v, Away)
     \/ /\ visit[v].for = "month"
        /\ \E c \in IF Randevular = {} THEN {NoColumn} ELSE Randevular :
             VisitTurns(v, [at |-> "revenue", to |-> c, of |-> NoAmounts,
                            left |-> {}, calm |-> FALSE])
  /\ UNCHANGED <<notebook, column, cell, revenue, muddled>>

\* getAppointmentRevenue, which names the days with completed appointments.
GetAppointmentRevenue(v) ==
  /\ visit[v].at = "revenue"
  /\ VisitTurns(v, [visit[v] EXCEPT !.at = "sync", !.of = revenue, !.calm = TRUE,
       !.left = IF visit[v].to = NoColumn THEN {}
                  ELSE {d \in BookDays : revenue[d] # Blank}])
  /\ UNCHANGED <<notebook, column, cell, revenue, muddled>>

\* The other openings that have yet to answer may not find what they copied.
Disturbed(v, state) ==
  visit' = [u \in Visits |->
    IF u = v THEN state
    ELSE IF visit[u].at = "sync" THEN [visit[u] EXCEPT !.calm = FALSE] ELSE visit[u]]

\* Fault: nothing to copy, it seems, for a day that brought in nothing.
FaultUpsertEntry(v, d) ==
  /\ visit[v].at = "sync"
  /\ d \in visit[v].left
  /\ cell' = IF visit[v].of[d] = 0 THEN cell
             ELSE [cell EXCEPT ![visit[v].to][d] = visit[v].of[d]]
  /\ Disturbed(v, [visit[v] EXCEPT !.left = @ \ {d}])
  /\ UNCHANGED <<notebook, column, revenue, muddled>>

\* syncAppointmentRevenue, a day at a time.
UpsertEntry(v, d) ==
  /\ visit[v].at = "sync"
  /\ d \in visit[v].left
  /\ cell' = [cell EXCEPT ![visit[v].to][d] = visit[v].of[d]]
  /\ Disturbed(v, [visit[v] EXCEPT !.left = @ \ {d}])
  /\ UNCHANGED <<notebook, column, revenue, muddled>>

\* The cells are read again and the answer is made of them.
AnswerNotebook(v) ==
  /\ visit[v].at = "sync" /\ visit[v].left = {}
  /\ VisitTurns(v, Away)
  /\ UNCHANGED <<notebook, column, cell, revenue, muddled>>

-----------------------------------------------------------------------------
(* Edits *)

\* updateSingleEntry and updateDailyEntries make the notebook without columns.
Edit(v) ==
  /\ visit[v] = Away
  /\ VisitTurns(v, [at |-> "edit", for |-> "month", again |-> FALSE])
  /\ notebook' = TRUE
  /\ UNCHANGED <<column, cell, revenue, muddled>>

\* The cells of one request in one transaction, then the notebook is opened.
EditEntries(v, cs, ds, x) ==
  /\ visit[v].at = "edit"
  /\ cs \subseteq Present
  /\ cell' = [c \in Columns |-> [d \in BookDays |->
       IF c \in cs /\ d \in ds THEN x ELSE cell[c][d]]]
  /\ Disturbed(v, [at |-> "columns", for |-> "month", again |-> FALSE])
  /\ UNCHANGED <<notebook, column, revenue, muddled>>

CreateColumn ==
  /\ StoreColumn("other")
  /\ muddled' = (muddled \/ Present = {})
  /\ UNCHANGED visit

\* The entries, then the column, or that fails; system columns stay.  An entry
\* stored in between goes with the column.
DeleteColumn(c) ==
  /\ column[c] = "other"
  /\ column' \in {column, [column EXCEPT ![c] = "none"]}
  /\ cell' = [cell EXCEPT ![c] = NoAmounts]
  /\ UNCHANGED <<notebook, revenue, visit, muddled>>

\* Appointments are completed, or marked otherwise.
RevenueChanges(d, x) ==
  /\ revenue' = [revenue EXCEPT ![d] = x]
  /\ UNCHANGED <<notebook, column, cell, visit, muddled>>

\* A statement fails, or the instance stops.
VisitFails(v) ==
  /\ visit[v] # Away
  /\ VisitTurns(v, Away)
  /\ UNCHANGED <<notebook, column, cell, revenue, muddled>>

NotebookNext ==
  \/ \E v \in Visits :
       \/ Open(v) \/ GetColumns(v) \/ CreateNotebook(v) \/ Look(v) \/ FirstDefault(v)
       \/ OtherDefaults(v) \/ FindColumns(v) \/ GetAppointmentRevenue(v)
       \/ (\E d \in BookDays : UpsertEntry(v, d)) \/ AnswerNotebook(v)
       \/ Edit(v) \/ VisitFails(v)
       \/ \E cs \in SUBSET Columns, ds \in SUBSET BookDays, x \in Amounts :
            EditEntries(v, cs, ds, x)
  \/ CreateColumn
  \/ \E c \in Columns : DeleteColumn(c)
  \/ \E d \in BookDays, x \in Amounts \cup {Blank} : RevenueChanges(d, x)

NotebookSpec == NotebookInit /\ [][NotebookNext]_notebookVars

-----------------------------------------------------------------------------
(* Properties *)

\* An opening answers, for every day with completed appointments, what it read
\* that they brought in, in the one column made for it: after failures at any
\* statement, edits by hand and openings before it, unless another request
\* wrote cells after that, or the column was not the first one or was made twice.
NotebookTellsRevenue ==
  [][\A v \in Visits : AnswerNotebook(v) /\ visit[v].calm /\ ~muddled =>
       \E c \in Columns :
         /\ Randevular = {c}
         /\ \A d \in BookDays : visit[v].of[d] # Blank => cell[c][d] = visit[v].of[d]
    ]_notebookVars
=============================================================================
