------------------------------- MODULE Evidence -------------------------------
(***************************************************************************)
(* inspect_evidence and commitments_report of mission-center-cli: the      *)
(* evidence envelopes of output/mission-center-evidence are read in the    *)
(* order of their names and judged against the files they speak of, and    *)
(* every task with a verification requirement is told where it stands.     *)
(*                                                                         *)
(* Nobody is locked out: agents rewrite the files while the inspection is  *)
(* under way.  A file is read once for all envelopes and then looked up.   *)
(* An envelope is about one scope file; the digest it carries is the       *)
(* version it was recorded against.  Whatever else can be wrong with an    *)
(* envelope whose ids can be read is one flaw.                             *)
(***************************************************************************)
EXTENDS Naturals, FiniteSets

CONSTANTS
    Required,       \* tasks of tasks.md, each with a requirement
    Strangers,      \* task ids that envelopes name and tasks.md does not
    Checks,         \* check ids
    Envelopes,      \* envelope ids
    Supersedable,   \* envelope ids that supersedes fields name
    NoEnvelope,     \* an envelope that supersedes nothing
    Given,          \* results that envelopes report
    Locators,       \* scope files
    Vacant,         \* there is no file under a name
    Garbled,        \* an envelope file that nothing can be made of
    Missing,        \* there is no such scope file
    Unread,         \* the inspection has not met it
    Flaw,           \* what an invalid envelope has for a digest
    MaxVersion,     \* bound on the versions of a scope file
    MaxFiles        \* number of names for envelope files

ASSUME EvidenceAssumption ==
    /\ NoEnvelope \notin Envelopes
    /\ Given \subseteq {"pass", "fail", "unknown"}
    /\ MaxVersion \in Nat /\ MaxFiles \in Nat

VARIABLES
    directory,  \* the envelope files, by their place in the order of names
    versions,   \* what is in the scope files
    reading,    \* the file that the inspection reads next; 0: none is running
    cache,      \* the scope files it has read
    judged      \* the state of every envelope that it has read

evidenceVars == <<directory, versions, reading, cache, judged>>

Files == 1 .. MaxFiles

Versions == 0 .. MaxVersion

Contents == Versions \cup {Missing}

ASSUME UnreadAssumption == Unread \notin Contents

Envelope == [id : Envelopes, task : Required \cup Strangers, check : Checks,
             status : {"current", "superseded"}, result : Given,
             supersedes : Supersedable \cup {NoEnvelope},
             scope : Locators, digest : Versions \cup {Flaw}]

\* What becomes of a file: invalid envelopes count as stale when a file they
\* name is missing, as unknown otherwise.
Judgements == {"unread", "valid", "stale", "outdated", "unknown"}

EvidenceTypeOK == /\ DOMAIN directory = Files
                  /\ \A n \in Files : directory[n] \in Envelope \cup {Vacant, Garbled}
                  /\ versions \in [Locators -> Contents]
                  /\ reading \in 0 .. MaxFiles + 1
                  /\ cache \in [Locators -> Contents \cup {Unread}]
                  /\ judged \in [Files -> Judgements]

-------------------------------------------------------------------------------
IsEnvelope(n) == directory[n] \notin {Vacant, Garbled}

\* The envelopes that the inspection has on record.
Records == {n \in Files : IsEnvelope(n) /\ judged[n] # "unread"}

\* Mutant of ReadScope: the file is read for every envelope.
ReadScopeAgain(l) == versions[l]

\* What the inspection takes a scope file to be: the first reading stands.
ReadScope(l) == IF cache[l] = Unread THEN versions[l] ELSE cache[l]

\* Only the digest of a current envelope without flaws is compared.
Judge(e) ==
    LET found == ReadScope(e.scope)
    IN  IF found = Missing THEN "stale"
        ELSE IF e.digest = Flaw THEN "unknown"
        ELSE IF e.status = "current" /\ e.digest # found THEN "outdated"
        ELSE "valid"

IsStale(n) == judged[n] \in {"stale", "outdated"}

-------------------------------------------------------------------------------
(* The status of the evidence as a whole. *)

Current(t) == {n \in Records : /\ directory[n].task = t
                               /\ directory[n].status = "current"}

SameCheck(m, n) == directory[m].check = directory[n].check

Duplicate(n) ==
    \E m \in Records : m < n /\ directory[m].id = directory[n].id

Doubled(t) == \E m, n \in Current(t) : m # n /\ SameCheck(m, n)

\* supersedes must name an envelope of the same task and check that says it
\* was superseded; of envelopes with one id the first is looked at.
Supersedes(n) ==
    LET targets == {m \in Records : directory[m].id = directory[n].supersedes}
    IN  \E m \in targets : /\ \A k \in targets : m <= k
                           /\ directory[m].status = "superseded"
                           /\ directory[m].task = directory[n].task
                           /\ SameCheck(m, n)

Replaced(n) == \E m \in Records : /\ directory[m].status = "current"
                                  /\ directory[m].supersedes = directory[n].id

Conflicting(n) == \/ Duplicate(n)
                  \/ directory[n].task \in Strangers
                  \/ directory[n].status = "current" /\ directory[n].result = "fail"
                  \/ directory[n].supersedes # NoEnvelope /\ ~Supersedes(n)
                  \/ directory[n].status = "superseded" /\ ~Replaced(n)

Garbage == {n \in Files : directory[n] = Garbled /\ judged[n] # "unread"}

NoneFound == \A n \in Files : judged[n] = "unread"

\* Every complaint about the set; there is none when all is well.
Complaints ==
    {s \in {"unknown", "stale", "conflict", "corrupt"} :
       CASE s = "corrupt" -> \/ Garbage # {}
                             \/ \E n \in Records : judged[n] \in {"stale", "unknown"}
         [] s = "conflict" -> \/ \E n \in Records : Conflicting(n)
                              \/ \E t \in Required \cup Strangers : Doubled(t)
         [] s = "stale" -> \E n \in Records : judged[n] = "outdated"
         [] s = "unknown" -> \/ \E t \in Required : Current(t) = {}
                             \/ \E n \in Records : /\ directory[n].status = "current"
                                                   /\ directory[n].result = "unknown"}

\* The worst of them; an empty directory is unknown before anything is read.
EvidenceStatus ==
    IF NoneFound THEN "unknown"
    ELSE IF Complaints = {} THEN "pass"
    ELSE IF "corrupt" \in Complaints THEN "corrupt"
    ELSE IF "conflict" \in Complaints THEN "conflict"
    ELSE IF "stale" \in Complaints THEN "stale"
    ELSE "unknown"

-------------------------------------------------------------------------------
(* Where a requirement stands: the first of these that applies. *)

SomeResult(t, result) == \E n \in Current(t) : directory[n].result = result

Commitment(t) ==
    IF Garbage # {} \/ Doubled(t) THEN "unknown"
    ELSE IF \E n \in Current(t) : IsStale(n) THEN "stale"
    ELSE IF \E n \in Current(t) : judged[n] = "unknown" THEN "unknown"
    ELSE IF SomeResult(t, "fail") THEN "failed"
    ELSE IF SomeResult(t, "unknown") THEN "unknown"
    ELSE IF Current(t) # {} THEN "satisfied"
    ELSE "missing"

-------------------------------------------------------------------------------
EvidenceEmpty == /\ directory = [n \in Files |-> Vacant]
                 /\ versions = [l \in Locators |-> 0]
                 /\ reading = 0
                 /\ cache = [l \in Locators |-> Unread]
                 /\ judged = [n \in Files |-> "unread"]

EvidenceInit == EvidenceEmpty

\* inspect_evidence lists the directory; what it has read before is forgotten.
StartInspection == /\ reading = 0
                   /\ reading' = 1
                   /\ cache' = [l \in Locators |-> Unread]
                   /\ judged' = [n \in Files |-> "unread"]
                   /\ UNCHANGED <<directory, versions>>

\* One envelope file and, the first time, the file it speaks of.
Inspect == /\ reading \in Files
           /\ reading' = reading + 1
           /\ IF IsEnvelope(reading)
              THEN LET e == directory[reading]
                   IN  /\ judged' = [judged EXCEPT ![reading] = Judge(e)]
                       /\ cache' = [cache EXCEPT ![e.scope] = ReadScope(e.scope)]
              ELSE /\ judged' = [judged EXCEPT ![reading] =
                                   IF directory[reading] = Vacant
                                   THEN "unread" ELSE "unknown"]
                   /\ UNCHANGED cache
           /\ UNCHANGED <<directory, versions>>

\* All files are read: this state is the one that is reported about.
Reported == reading = MaxFiles + 1

EndInspection == /\ Reported
                 /\ reading' = 0
                 /\ cache' = [l \in Locators |-> Unread]
                 /\ judged' = [n \in Files |-> "unread"]
                 /\ UNCHANGED <<directory, versions>>

(* The agents.  The directory has been listed when the inspection begins,    *)
(* and every envelope is read once: one that is written, rewritten or        *)
(* removed meanwhile is either too late or might as well have been like that *)
(* before.                                                                   *)

Put(n, content) == /\ directory[n] = Vacant
                   /\ reading = 0
                   /\ directory' = [directory EXCEPT ![n] = content]
                   /\ UNCHANGED <<versions, reading, cache, judged>>

Clear(n) == /\ directory[n] # Vacant
            /\ reading = 0
            /\ directory' = [directory EXCEPT ![n] = Vacant]
            /\ UNCHANGED <<versions, reading, cache, judged>>

Edit(l, content) == /\ versions[l] # content
                    /\ versions' = [versions EXCEPT ![l] = content]
                    /\ UNCHANGED <<directory, reading, cache, judged>>

EvidenceNext ==
    \/ StartInspection \/ Inspect \/ EndInspection
    \/ \E n \in Files, e \in Envelope \cup {Garbled} : Put(n, e)
    \/ \E n \in Files : Clear(n)
    \/ \E l \in Locators, content \in Contents : Edit(l, content)

EvidenceSpec == EvidenceInit /\ [][EvidenceNext]_evidenceVars

-------------------------------------------------------------------------------
\* Evidence that passes leaves no requirement open: the two reports, which
\* follow different rules, do not contradict each other.
PassSatisfies == Reported /\ EvidenceStatus = "pass" =>
                     \A t \in Required : Commitment(t) = "satisfied"

\* A requirement is satisfied by evidence about one state of the files: no two
\* of its envelopes were recorded against different versions of a file, also
\* when the file is rewritten while they are judged, and none of them is
\* flawed, fails or is shadowed by garbage.
SatisfiedByOneState ==
    Reported => \A t \in Required : Commitment(t) = "satisfied" =>
        /\ Current(t) # {}
        /\ \A m, n \in Current(t) :
              directory[m].scope = directory[n].scope
                => directory[m].digest = directory[n].digest
        /\ \A n \in Current(t) : directory[n].digest # Flaw
===============================================================================
