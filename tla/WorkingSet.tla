------------------------------ MODULE WorkingSet ------------------------------
(***************************************************************************)
(* working_set_tasks and next_candidates of mission-center-workspace: which *)
(* rows of tasks.md the derived views and the command line put forward.    *)
(* The table is edited row by row; both choices are functions of it.       *)
(*                                                                         *)
(* Task ids are numbers, ordered like the ids; the rows of the table come  *)
(* in any order.  A priority is its number, 99 when it has none.           *)
(***************************************************************************)
EXTENDS Naturals, Sequences, SequencesExt, TaskStatuses

CONSTANTS
    MaxRow,         \* number of tasks
    RowStatuses,    \* statuses that tasks may have
    Priorities,     \* priorities that tasks may have
    WorkingLimit,   \* WORKING_SET_LIMIT
    NextLimit       \* candidates that are shown

ASSUME WorkingSetAssumption ==
    /\ {MaxRow, NextLimit} \subseteq Nat /\ WorkingLimit \in Nat \ {0}
    /\ Priorities \subseteq Nat /\ 0 \in Priorities
    /\ RowStatuses \subseteq TaskStatus /\ "Backlog" \in RowStatuses

VARIABLES
    order,  \* the ids in the order of the rows
    taskRows    \* the rows

workingVars == <<order, taskRows>>

TaskIds == 1 .. MaxRow

TaskRow == [status : RowStatuses, priority : Priorities, needs : SUBSET TaskIds]

WorkingTypeOK == /\ order \in SetToSeqs(TaskIds)
                 /\ taskRows \in [TaskIds -> TaskRow]

-------------------------------------------------------------------------------
\* These ids in the order of the pairs in R.
Arranged(ids, R) ==
    CHOOSE s \in SetToSeqs(ids) : \A m, n \in DOMAIN s : m < n => <<s[m], s[n]>> \in R

RowOrder == {p \in TaskIds \X TaskIds :
                \E m, n \in TaskIds : m < n /\ p = <<order[m], order[n]>>}

\* The rows with one of these ids, in their order.
RowsOf(ids) == Arranged(ids, RowOrder)

WithStatus(s) == RowsOf({i \in TaskIds : taskRows[i].status = s})

MoreUrgent(i, j) == \/ taskRows[i].priority < taskRows[j].priority
                    \/ taskRows[i].priority = taskRows[j].priority /\ i < j

ByPriority(ids) == Arranged(ids, {p \in TaskIds \X TaskIds : MoreUrgent(p[1], p[2])})

\* The first row in progress, if there is one.
Anchor == LET active == WithStatus("InProgress")
          IN  IF active = <<>> THEN <<>> ELSE <<Head(active)>>

Urgent == RowsOf({i \in TaskIds : taskRows[i].priority = 0})

Needed == RowsOf(UNION {taskRows[i].needs : i \in ToSet(Anchor)})

Ready == ByPriority({i \in TaskIds : taskRows[i].status = "Ready"})

\* Everything that is considered, in the order in which it is.
Queue == Anchor \o Urgent \o Needed \o WithStatus("InProgress")
             \o WithStatus("Review") \o WithStatus("Blocked") \o Ready

Approved(i) == taskRows[i].status \notin {"Done", "Backlog"}

\* admit_working_task
Admit(selected, i) == IF Len(selected) < WorkingLimit /\ Approved(i)
                         /\ ~Contains(selected, i)
                      THEN Append(selected, i) ELSE selected

\* Once the limit is reached nothing more is admitted.
Working == FoldLeft(Admit, <<>>, Queue)

\* Tasks that could be approved next.
NextCandidates ==
    LET done == {i \in TaskIds : taskRows[i].status = "Done"}
        open == {i \in TaskIds : taskRows[i].status = "Backlog" /\ taskRows[i].needs \subseteq done}
        all == ByPriority(open)
    IN  SubSeq(all, 1, IF Len(all) < NextLimit THEN Len(all) ELSE NextLimit)

\* What is said when the working set is empty.
EmptyReason ==
    IF \A i \in TaskIds : taskRows[i].status = "Done" THEN "all work complete"
    ELSE IF \E i \in TaskIds : taskRows[i].status = "Blocked" THEN "blocked"
    ELSE "dependency unresolved"

-------------------------------------------------------------------------------
WorkingEmpty ==
    /\ order = [n \in TaskIds |-> n]
    /\ taskRows = [i \in TaskIds |-> [status |-> "Backlog", priority |-> 0, needs |-> {}]]

WorkingInit == WorkingEmpty

EditTask(i, row) == /\ taskRows[i] # row
                    /\ taskRows' = [taskRows EXCEPT ![i] = row]
                    /\ UNCHANGED order

\* A row changes places with the next one.
MoveRow(n) == /\ order' = [order EXCEPT ![n] = order[n + 1], ![n + 1] = order[n]]
              /\ UNCHANGED taskRows

WorkingNext ==
    \/ \E i \in TaskIds :
          \/ \E s \in RowStatuses : EditTask(i, [taskRows[i] EXCEPT !.status = s])
          \/ \E p \in Priorities : EditTask(i, [taskRows[i] EXCEPT !.priority = p])
          \/ \E needs \in SUBSET (TaskIds \ {i}) :
                EditTask(i, [taskRows[i] EXCEPT !.needs = needs])
    \/ \E n \in 1 .. MaxRow - 1 : MoveRow(n)

WorkingSpec == WorkingInit /\ [][WorkingNext]_workingVars

-------------------------------------------------------------------------------
LeftOut(i) == Approved(i) /\ ~Contains(Working, i)

\* Room is never left while approved work is left out; and whoever is left out
\* gives way only to what comes first: the row that is being worked on, urgent
\* rows, what the former depends on, and for a ready row what is more urgent.
WorkingSetFair ==
    \A i \in TaskIds : LeftOut(i) =>
        LET first == ToSet(Anchor) \cup ToSet(Urgent)
        IN  /\ Len(Working) = WorkingLimit
            /\ i \notin ToSet(Anchor)
            /\ i \in ToSet(Urgent) => ToSet(Working) \subseteq first
            /\ i \in ToSet(Needed) => ToSet(Working) \subseteq first \cup ToSet(Needed)
            /\ taskRows[i].status = "Ready" =>
                  \A j \in ToSet(Working) \ (first \cup ToSet(Needed)) :
                     taskRows[j].status = "Ready" => MoreUrgent(j, i)
===============================================================================
