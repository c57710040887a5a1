---------------------------- MODULE NormalizeTasks ----------------------------
(***************************************************************************)
(* The Markdown of tasks.md as two crates understand it: mission-center-   *)
(* core locates and parses the rows of the task tables, and the operation  *)
(* normalize_tasks of mission-center-workspace rewrites the spelling of    *)
(* cells.  The two do not agree on where a table ends: the parser goes on  *)
(* after blank lines, and after headings when the next block begins with a *)
(* row that looks like a task; the normaliser stops at the first line that *)
(* is not a row.                                                           *)
(*                                                                         *)
(* A document is a sequence of lines; the header of a task table and its   *)
(* separator count as one.  Tables of other kinds, priorities, labels and  *)
(* the remaining cells are left out.  People append lines at any time.     *)
(***************************************************************************)
EXTENDS LockedOperation, Sequences, TaskStatuses

CONSTANTS
    NormalizeOps,   \* operation ids
    RowIds,         \* task ids
    Spellings,      \* how statuses are spelled
    Header,         \* header and separator of a task table
    Torn,           \* a row with too few or too many cells
    Blank,          \* a blank line
    Prose,          \* a heading, or another line that is no row
    Unparsed,       \* the document is refused
    MaxLines        \* bound on the number of lines

ASSUME MaxLinesAssumption == MaxLines \in Nat

VARIABLE document   \* tasks.md

Row == [id : RowIds, status : Spellings]

Line == Row \cup {Header, Torn, Blank, Prose}

Documents == UNION {[1 .. n -> Line] : n \in 0 .. MaxLines}

NormalizeCalls == [id : NormalizeOps, digest : Documents]

NormalizeSteps == {"begin", "write", "commit", "abort", "release"}

NormalizeTypeOK ==
    /\ OpTypeOK(NormalizeOps, Documents, NormalizeCalls, NormalizeSteps)
    /\ document \in Documents

\* A line is one thing only.
ASSUME LinesAssumption ==
    /\ {Header, Torn, Blank, Prose} \cap Row = {}
    /\ Header \notin {Torn, Blank, Prose} /\ Torn \notin {Blank, Prose} /\ Blank # Prose

IsRow(line) == line \in Row \cup {Torn}

-------------------------------------------------------------------------------
(* parse_tasks_markdown *)

\* TaskStatus::parse ignores case; everything else must be spelled out.
Parsed(spelling) == IF spelling = "ready" THEN "Ready" ELSE spelling

Parseable(line) == line \in Row /\ Parsed(line.status) \in TaskStatus

\* A row of a task table is taken up, or the document is refused.
TakeRow(tasks, line) ==
    IF tasks = Unparsed \/ ~Parseable(line) THEN Unparsed
    ELSE IF \E n \in DOMAIN tasks : tasks[n].id = line.id THEN Unparsed
    ELSE Append(tasks, [id |-> line.id, status |-> Parsed(line.status)])

\* Where the parser is: in a block of task rows, in a block that it passes
\* over, or between blocks; seen: there was a task table.
Reading(place, seen, tasks) == [place |-> place, seen |-> seen, tasks |-> tasks]

ReadLine(r, line) ==
    CASE line = Blank -> r
      [] line = Prose -> Reading("between", r.seen, r.tasks)
      [] line = Header /\ r.place # "passed" -> Reading("rows", TRUE, r.tasks)
      [] IsRow(line) /\ r.place = "rows" -> Reading("rows", TRUE, TakeRow(r.tasks, line))
      [] IsRow(line) /\ r.place = "between" ->
            IF r.seen /\ Parseable(line)
            THEN Reading("rows", TRUE, TakeRow(r.tasks, line))
            ELSE Reading("passed", r.seen, IF r.seen THEN r.tasks ELSE Unparsed)
      [] OTHER -> r

ReadTasks(d) ==
    LET read[n \in 0 .. Len(d)] ==
          IF n = 0 THEN Reading("between", FALSE, <<>>) ELSE ReadLine(read[n - 1], d[n])
    IN  IF read[Len(d)].seen THEN read[Len(d)].tasks ELSE Unparsed

-------------------------------------------------------------------------------
(* normalize_markdown_tasks *)

NormalStatus(spelling) ==
    CASE spelling = "ready" -> "Ready"
      [] spelling = "doing" -> "InProgress"
      [] spelling = "todo" -> "Backlog"
      [] OTHER -> spelling

\* Whatever is written for a status is one of the spellings.
ASSUME SpellingsAssumption == \A s \in Spellings : NormalStatus(s) \in Spellings

TableLines(d) == {n \in DOMAIN d : IsRow(d[n]) \/ d[n] = Header}

FirstLine(d) == CHOOSE n \in TableLines(d) : \A m \in TableLines(d) : n <= m

\* The first table must have a second line of the same width as the first.
Normalizable(d) ==
    /\ TableLines(d) # {}
    /\ LET n == FirstLine(d)
       IN  \/ d[n] = Header
           \/ n + 1 \in TableLines(d) /\ (d[n] = Torn <=> d[n + 1] = Torn)

\* Only under the header of a task table is there a column to change.

Normalized(d) ==
    [n \in DOMAIN d |->
        IF /\ d[n] \in Row
           /\ d[FirstLine(d)] = Header
           /\ FirstLine(d) .. n \subseteq TableLines(d)
        THEN [d[n] EXCEPT !.status = NormalStatus(@)]
        ELSE d[n]]

-------------------------------------------------------------------------------
NormalizeEmpty == document = <<>>

NormalizeInit == OpInit(NormalizeOps) /\ NormalizeEmpty

\* The document is read under the lock; its digest is that of the receipt.
StartNormalize(o) == /\ Enter([id |-> o, digest |-> document], "begin", "none")
                     /\ UNCHANGED document

\* A document that cannot be normalised is found out after the receipt: the
\* call leaves it started.
BeginNormalize(outcome) ==
    /\ Begin(outcome, "write")
    /\ UNCHANGED document

BeginNormalizeRefused == BeginRefused("replay") /\ UNCHANGED document

NormalizeRefused == /\ step = "write"
                    /\ ~Normalizable(call.digest)
                    /\ step' = "release"
                    /\ answer' = "error"
                    /\ UNCHANGED <<receipts, lock, call, faults, document>>

\* What was appended since the document was read is lost.
WriteNormalized(outcome) ==
    /\ step = "write"
    /\ Normalizable(call.digest)
    /\ Write(outcome)
    /\ document' = Written(outcome, document, Normalized(call.digest))
    /\ Continue(outcome, "commit", "abort")
    /\ UNCHANGED <<receipts, lock, call>>

\* When the commit fails the receipt is aborted; the document stays normalised.
CommitNormalize(outcome) == Commit(outcome, "abort") /\ UNCHANGED document

AbortNormalize(outcome) == Abort("abort", outcome, answer) /\ UNCHANGED document

AbortNormalizeRefused == AbortRefused("abort", answer) /\ UNCHANGED document

ReleaseNormalize == (Release \/ ReleaseFails) /\ UNCHANGED document

CrashNormalize == Crash /\ UNCHANGED document

ReconcileNormalizeLock == ReconcileLock /\ UNCHANGED document

AbortNormalizeOperation(o) == AbortOperation(o) /\ UNCHANGED document

AppendLine(line) == /\ Len(document) < MaxLines
                    /\ document' = Append(document, line)
                    /\ UNCHANGED opVars

-------------------------------------------------------------------------------
NormalizeWrites(outcome) == \/ BeginNormalize(outcome) \/ WriteNormalized(outcome)
                            \/ CommitNormalize(outcome) \/ AbortNormalize(outcome)

NormalizeNext ==
    \/ \E o \in NormalizeOps : StartNormalize(o) \/ AbortNormalizeOperation(o)
    \/ \E outcome \in Outcomes : NormalizeWrites(outcome)
    \/ BeginNormalizeRefused \/ NormalizeRefused \/ AbortNormalizeRefused
    \/ ReleaseNormalize \/ CrashNormalize \/ ReconcileNormalizeLock
    \/ \E line \in Line : AppendLine(line)

NormalizeSpec == NormalizeInit /\ [][NormalizeNext]_<<opVars, document>>

-------------------------------------------------------------------------------
\* Whatever the normaliser does to a document that could be read, the same tasks
\* with the same statuses are read from it afterwards, and doing it again does
\* nothing more.
RewritesSameTasks ==
    step = "write" /\ step' # "write" /\ document' # document =>
        /\ ReadTasks(call.digest) # Unparsed
              => ReadTasks(document') = ReadTasks(call.digest)
        /\ Normalized(document') = document'

SameTasksRead == [][RewritesSameTasks]_document
===============================================================================
