----------------------------- MODULE ResumePacket -----------------------------
(***************************************************************************)
(* resume_packet of mission-center-cli: what an agent that takes up work   *)
(* again is given.  The packet is put together from files that are read    *)
(* one after the other, without the writer lock, while people edit the     *)
(* sources and a sync rewrites the views; then its sections are cut, the   *)
(* least important first, until it fits the budget.                        *)
(*                                                                         *)
(* others stands for the sources besides tasks.md.  A view is known by    *)
(* the fingerprint that it carries: brief.md by that of all sources,       *)
(* working-set.md by that of tasks.md.  What the other files hold is        *)
(* chosen when they are read.  A size counts names in readNext, which are  *)
(* taken to be equally long and to fit the slack of a cut.  The routing of *)
(* older clients is left out.                                              *)
(***************************************************************************)
EXTENDS Naturals, FiniteSets, FiniteSetsExt

CONSTANTS
    MaxEdits,       \* bound on the edits of tasks.md and of the other sources
    Sizes,          \* sizes that sections have
    Overheads,      \* sizes of what every packet has besides its sections
    PacketLimit,    \* RESUME_MAX_BYTES
    NoText,         \* a file that is missing or cannot be read
    NoPacket        \* no packet is being made

ASSUME ResumeAssumption == /\ {MaxEdits, PacketLimit} \subseteq Nat
                           /\ Sizes \subseteq Nat \ {0} /\ Overheads \subseteq Nat

VARIABLES
    others,     \* version of the sources besides tasks.md
    board,      \* version of tasks.md
    syncRead,   \* the sources that the latest sync has read
    brief,      \* the fingerprint in brief.md
    working,    \* the fingerprint in working-set.md
    packet,     \* the packet that is being made
    moments     \* history: the sources as they were since it was begun

resumeVars == <<others, board, syncRead, brief, working, packet, moments>>

Boards == 0 .. MaxEdits

Sources == [project : 0 .. MaxEdits, board : Boards]

\* handoff, brief, workingSet, activeCriticalLessons, contextCards, snapshot
Sections == 1 .. 6

PacketSteps == {"print", "board", "missing", "brief", "working", "others", "ledger",
                "snapshot", "assemble", "fit", "told", "refused"}

\* 0 stands for the ledger.
Names == Sections \cup {0}

Packet == [step : PacketSteps, print : Sources, boardPrint : Boards, missing : BOOLEAN,
           brief : Sources \cup {NoText}, working : Boards \cup {NoText},
           found : SUBSET Sections, bad : BOOLEAN,
           readNext : SUBSET Names, overhead : Overheads \cup {0}, object : Nat,
           full : [Sections -> Nat], sizes : [Sections -> Nat], cut : SUBSET Sections]

SourcesNow == [project |-> others, board |-> board]

ResumeTypeOK == /\ SourcesNow \in Sources
                /\ syncRead \in Sources
                /\ brief \in Sources \cup {NoText}
                /\ working \in Boards \cup {NoText}
                /\ packet \in Packet \cup {NoPacket}
                /\ moments \subseteq Sources

-------------------------------------------------------------------------------
\* Mutant of Fresh: a brief with any fingerprint will do.
FreshIfMarked(p) == ~p.missing /\ p.brief # NoText /\ p.working = p.boardPrint

Fresh(p) == ~p.missing /\ p.brief = p.print /\ p.working = p.boardPrint

Fallback(p) == ~Fresh(p) \/ p.bad

\* What the sections take up.
TextSize(sizes) == MapThenSumSet(LAMBDA s : sizes[s], Sections)

\* The handoff is there twice, as text and as an object.
Total(p) == p.overhead + p.object + Cardinality(p.readNext \cup p.cut) + TextSize(p.sizes)

Filled(p) == {s \in Sections : p.sizes[s] > 0}

LastFilled(p) == CHOOSE s \in Filled(p) : \A r \in Filled(p) : r <= s

-------------------------------------------------------------------------------
ResumeEmpty == /\ others = 0
               /\ board = 0
               /\ syncRead = SourcesNow
               /\ brief = NoText
               /\ working = NoText
               /\ packet = NoPacket
               /\ moments = {}

ResumeInit == ResumeEmpty

UnreadPacket == [step |-> "print", print |-> [project |-> 0, board |-> 0], boardPrint |-> 0,
           missing |-> FALSE, brief |-> NoText, working |-> NoText, found |-> {},
           bad |-> FALSE, readNext |-> {}, overhead |-> 0, object |-> 0,
           full |-> [s \in Sections |-> 0], sizes |-> [s \in Sections |-> 0], cut |-> {}]

StartPacket == /\ packet = NoPacket
               /\ packet' = UnreadPacket
               /\ moments' = {SourcesNow}
               /\ UNCHANGED <<others, board, syncRead, brief, working>>

At(s) == packet # NoPacket /\ packet.step = s

Proceed(p) == packet' = p /\ UNCHANGED <<others, board, syncRead, brief, working, moments>>

ReadPrint == /\ At("print")
             /\ Proceed([packet EXCEPT !.step = "board", !.print = SourcesNow])

ReadBoard == /\ At("board")
             /\ Proceed([packet EXCEPT !.step = "missing", !.boardPrint = board])

\* gone: one of the other required files is missing.
FindMissing(gone) ==
    /\ At("missing")
    /\ Proceed([packet EXCEPT !.step = "brief",
                              !.missing = gone \/ NoText \in {brief, working}])

\* read_optional_context: section s is there, or it is to be read next.
Take(p, s, there) == IF there THEN [p EXCEPT !.found = @ \cup {s}]
                     ELSE [p EXCEPT !.readNext = @ \cup {s}]

ReadBrief == /\ At("brief")
             /\ Proceed(Take([packet EXCEPT !.step = "working", !.brief = brief],
                             2, brief # NoText))

ReadWorking == /\ At("working")
               /\ Proceed(Take([packet EXCEPT !.step = "others", !.working = working],
                               3, working # NoText))

\* The lessons, the day the log was organised, and the context cards.
ReadOthers(lessons, dated, cards) ==
    /\ At("others")
    /\ LET p == Take([packet EXCEPT !.step = "ledger"], 4, lessons)
       IN  Proceed([p EXCEPT
               !.found = @ \cup (IF cards = "absent" THEN {} ELSE {5}),
               !.bad = ~dated \/ cards = "invalid"])

\* A ledger that does not validate, or gives no handoff, is corrupt.
ReadLedger(found) ==
    /\ At("ledger")
    /\ Proceed(CASE found = "absent" -> [packet EXCEPT !.step = "snapshot"]
                 [] found = "ready" -> [packet EXCEPT !.step = "snapshot", !.found = @ \cup {1}]
                 [] found = "invalid" ->
                      [packet EXCEPT !.step = "snapshot", !.bad = TRUE,
                                     !.readNext = @ \cup {0, 1}])

\* A snapshot that is not active counts as absent.
ReadSnapshot(found) ==
    /\ At("snapshot")
    /\ Proceed(CASE found = "absent" -> [packet EXCEPT !.step = "assemble"]
                 [] found = "ready" -> [packet EXCEPT !.step = "assemble", !.found = @ \cup {6}]
                 [] found = "invalid" ->
                      [packet EXCEPT !.step = "assemble", !.bad = TRUE,
                                     !.readNext = @ \cup {6}])

Assemble(size, overhead) ==
    /\ At("assemble")
    /\ LET full == [s \in Sections |-> IF s \in packet.found THEN size[s] ELSE 0]
       IN  Proceed([packet EXCEPT !.step = "fit", !.overhead = overhead, !.full = full,
                                  !.sizes = full, !.object = full[1]])

\* One turn of the loop that shortens the last section that is left.
CutSection ==
    /\ At("fit")
    /\ Total(packet) > PacketLimit
    /\ Filled(packet) # {}
    /\ LET s == LastFilled(packet)
           gone == Total(packet) - PacketLimit + 1
       IN  Proceed([packet EXCEPT !.cut = @ \cup {s},
                                  !.sizes[s] = IF @ > gone THEN @ - gone ELSE 0])

\* When every section is empty the object goes as well; what is left may still
\* be too long.
Tell ==
    /\ At("fit")
    /\ Total(packet) <= PacketLimit \/ Filled(packet) = {}
    /\ LET p == IF Total(packet) > PacketLimit THEN [packet EXCEPT !.object = 0] ELSE packet
       IN  Proceed([p EXCEPT !.step = IF Total(p) > PacketLimit THEN "refused" ELSE "told"])

ForgetPacket == /\ At("told") \/ At("refused")
                /\ packet' = NoPacket
                /\ moments' = {}
                /\ UNCHANGED <<others, board, syncRead, brief, working>>

-------------------------------------------------------------------------------
\* The packet reads no more of the sources and the two views once it has read
\* the second view: what is edited later is left to the next packet.
Watched == packet # NoPacket => packet.step \in {"print", "board", "missing", "brief", "working"}

Witness == moments' = IF packet = NoPacket THEN {} ELSE moments \cup {SourcesNow'}

EditInput == /\ Watched
             /\ others + board < MaxEdits
             /\ \/ others' = others + 1 /\ UNCHANGED board
                \/ board' = board + 1 /\ UNCHANGED others
             /\ Witness
             /\ UNCHANGED <<syncRead, brief, working, packet>>

\* sync reads the sources and writes the two views one after the other; people
\* may remove either.
SyncReads == /\ Watched
             /\ syncRead' = SourcesNow
             /\ UNCHANGED <<others, board, brief, working, packet, moments>>

WriteBrief == /\ Watched
              /\ brief' \in {syncRead, NoText}
              /\ UNCHANGED <<others, board, syncRead, working, packet, moments>>

WriteWorking == /\ Watched
                /\ working' \in {syncRead.board, NoText}
                /\ UNCHANGED <<others, board, syncRead, brief, packet, moments>>

Findings == {"absent", "ready", "invalid"}

ReadContext == \/ ReadPrint \/ ReadBoard \/ ReadBrief \/ ReadWorking
               \/ \E b \in BOOLEAN : FindMissing(b)
               \/ \E lessons, dated \in BOOLEAN, cards \in Findings :
                     ReadOthers(lessons, dated, cards)
               \/ \E found \in Findings : ReadLedger(found) \/ ReadSnapshot(found)

ResumeNext ==
    \/ StartPacket \/ ReadContext \/ CutSection \/ Tell \/ ForgetPacket
    \/ \E size \in [Sections -> Sizes], overhead \in Overheads : Assemble(size, overhead)
    \/ EditInput \/ SyncReads \/ WriteBrief \/ WriteWorking

ResumeSpec == ResumeInit /\ [][ResumeNext]_resumeVars

-------------------------------------------------------------------------------
\* A packet that is told fits its budget, names every section it left out or cut
\* in readNext, and cut none while a less important one was left.  If it calls
\* its views fresh, each of them shows the sources as they were while the packet
\* was made; and if nobody edited the sources meanwhile, the two agree.
PacketHonest ==
    At("told") =>
        LET short == {s \in Sections : packet.sizes[s] < packet.full[s]}
        IN  /\ Total(packet) <= PacketLimit
            /\ short \cup ({2, 3, 4} \ packet.found) \subseteq packet.readNext \cup packet.cut
            /\ packet.object < packet.full[1] => 1 \in packet.cut
            /\ \A s \in short, r \in Filled(packet) : r <= s
            /\ Fresh(packet) =>
                  /\ packet.brief \in moments
                  /\ \E m \in moments : m.board = packet.working
                  /\ Cardinality(moments) = 1 => packet.brief.board = packet.working
            /\ 1 \in packet.readNext => Fallback(packet)
===============================================================================
