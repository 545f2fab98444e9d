-------------------------- MODULE ConversationTable --------------------------
(***************************************************************************)
(* The Conversations table (conversation_table.cpp): the rows of the       *)
(* capture's latest summary, in the order the user sorts them, with one    *)
(* row behind them for the streams past the cap; the row that is selected  *)
(* stays selected as they are sorted and replaced.                         *)
(***************************************************************************)
EXTENDS Integers, Sequences, FiniteSets, SequencesExt, FiniteSetsExt

CONSTANTS
    Snapshots,  \* the summaries: rows, in stream order, and the packets past the cap
    Columns,    \* the columns: "stream", and values of a row
    MaxResorts  \* bound: the sorts and the summaries shown

\* Rows are of different conversations, which are numbered in stream order from 1, and
\* have a value in each column.
Distinct(rows) ==
    /\ rows \in Seq(ToSet(rows))
    /\ \A i \in DOMAIN rows :
        /\ rows[i].id \in Nat \ {0} /\ \A c \in Columns \ {"stream"} : rows[i][c] \in Nat
        /\ \A j \in DOMAIN rows : rows[i].id = rows[j].id => i = j

ASSUME TableAssumption ==
    /\ "stream" \in Columns /\ MaxResorts \in Nat
    /\ \A s \in Snapshots : Distinct(s.rows)

NoSnapshot == [rows |-> <<>>, other |-> 0]

VARIABLES
    snapshot,   \* rows_ and the other streams
    order,      \* order_
    sortColumn, descending,
    current,    \* the view's current row; 0: none
    hidden,     \* the columns hidden
    saved,      \* the columns hidden, in the settings file
    picked,     \* the conversation the user selected; 0: none
    resorts     \* bound

tableVars == <<snapshot, order, sortColumn, descending, current, hidden, saved, picked, resorts>>

RowCount == Len(order) + (IF snapshot.other > 0 THEN 1 ELSE 0)

TableTypeOK ==
    /\ snapshot \in Snapshots \cup {NoSnapshot} /\ sortColumn \in Columns /\ descending \in BOOLEAN
    /\ current \in 0..RowCount /\ hidden \subseteq Columns /\ saved \subseteq Columns

\* before(): by the column, and by the stream where that tells nothing.
before(a, b, column) ==
    IF column = "stream" \/ a[column] = b[column] THEN a.id < b.id ELSE a[column] < b[column]

\* applySort(): a row comes behind those that it sorts behind.
Ahead(row, rows, column, down) ==
    {r \in ToSet(rows) : IF down THEN before(row, r, column) ELSE before(r, row, column)}
Sorted(rows, column, down) ==
    [i \in 1..Len(rows) |->
        CHOOSE row \in ToSet(rows) : Cardinality(Ahead(row, rows, column, down)) = i - 1]

\* conversationAt() and rowOf()
conversationAt(row) == IF row \in DOMAIN order THEN order[row].id ELSE 0
rowOf(rows, id) == IF \E i \in DOMAIN rows : rows[i].id = id THEN CHOOSE i \in DOMAIN rows : rows[i].id = id ELSE 0

\* A settings file that hides them all: the header, and its menu, must stay.
TableInit ==
    /\ snapshot = NoSnapshot /\ order = <<>> /\ sortColumn = "stream" /\ descending = FALSE
    /\ current = 0 /\ picked = 0 /\ resorts = 0
    /\ saved \in SUBSET Columns
    /\ hidden = IF saved = Columns THEN Columns \ {"stream"} ELSE saved

Resorted == resorts < MaxResorts /\ resorts' = resorts + 1

\* Variant: the current row stays where it is.
SortUnder(column, down) ==
    /\ Resorted
    /\ sortColumn' = column /\ descending' = down
    /\ order' = Sorted(order, column, down)
    /\ UNCHANGED <<snapshot, current, hidden, saved, picked>>

\* ConversationModel::sort(): the current row follows its conversation.
Sort(column, down) ==
    /\ Resorted
    /\ sortColumn' = column /\ descending' = down
    /\ order' = Sorted(order, column, down)
    /\ current' = IF conversationAt(current) # 0 THEN rowOf(order', conversationAt(current)) ELSE current
    /\ UNCHANGED <<snapshot, hidden, saved, picked>>

\* ConversationModel::setConversations(), which resets the view's current row.
setConversations(s) == snapshot' = s /\ order' = Sorted(s.rows, sortColumn, descending)

\* setSummary(): the same rows again change nothing, whatever else the summary says.
setSummary(s) ==
    /\ s # snapshot /\ Resorted
    /\ setConversations(s)
    /\ current' = rowOf(order', conversationAt(current))
    /\ picked' = IF \E i \in DOMAIN s.rows : s.rows[i].id = picked THEN picked ELSE 0
    /\ UNCHANGED <<sortColumn, descending, hidden, saved>>

Select(row) ==
    /\ row \in 1..RowCount /\ row # current
    /\ current' = row /\ picked' = conversationAt(row)
    /\ UNCHANGED <<snapshot, order, sortColumn, descending, hidden, saved, resorts>>

\* updateColumnEntries(): the only column shown cannot be hidden.
CanToggle(column) == column \in hidden \/ Cardinality(Columns \ hidden) > 1

showColumn(column) ==
    /\ CanToggle(column)
    /\ hidden' = IF column \in hidden THEN hidden \ {column} ELSE hidden \cup {column}
    /\ saved' \in {hidden', saved}  \* the file may not be written
    /\ UNCHANGED <<snapshot, order, sortColumn, descending, current, picked, resorts>>

TableNext ==
    \/ \E c \in Columns : showColumn(c) \/ \E down \in BOOLEAN : Sort(c, down)
    \/ \E s \in Snapshots \cup {NoSnapshot} : setSummary(s)
    \/ \E row \in 1..RowCount : Select(row)

TableSpec == TableInit /\ [][TableNext]_tableVars

-----------------------------------------------------------------------------

\* The row selected is the conversation the user selected, as long as the rows have it,
\* wherever sorts and snapshots move it: filterOn() takes that row's conversation.
SelectedIsPicked == conversationAt(current) = picked

\* The table is the snapshot, each of its conversations once; at least one column stays
\* shown, whatever the settings file says, so that its menu can show the others.
TableIsTheSnapshot ==
    /\ ToSet(order) = ToSet(snapshot.rows) /\ Len(order) = Len(snapshot.rows)
    /\ hidden # Columns

\* The table shows the latest summary, with the row selected that the user selected.
TableShowsTheSnapshot == TableTypeOK /\ SelectedIsPicked /\ TableIsTheSnapshot
=============================================================================
