--------------------------- MODULE OperationsProofs ---------------------------
(***************************************************************************)
(* Proofs about operations on the workspace, for any number of ids, files, *)
(* records, attempts, lines and failing writes: init (Scaffold.tla) never  *)
(* touches a tasks.md, the journal of external operations and the          *)
(* execution ledger keep what they have told and the ledger tells true     *)
(* histories, the retry gate opens and closes for a reason, sync and       *)
(* closeout lose nothing, a project map that is written shows what was     *)
(* there, and a normalised tasks.md holds the same tasks.                  *)
(*                                                                         *)
(* The first part is induction over numbers and finite sets, for folds and *)
(* recursive functions.  The second shows once for all that the steps of   *)
(* LockedOperation.tla preserve the types of the receipts, the lock and    *)
(* the call; the last one takes the results to MCMissionCenter.tla, where  *)
(* every component stands next to the others.                              *)
(***************************************************************************)
EXTENDS MCMissionCenter, FiniteSetTheorems, SequenceTheorems, WellFoundedInduction, TLAPS

-------------------------------------------------------------------------------
(* Induction, without operators as parameters: the sets of the numbers and of
   the subsets for which something holds. *)

\* A set of numbers that is not empty has a least one.
LEMMA LeastNatural ==
    ASSUME NEW S, S \subseteq Nat, S # {}
    PROVE  \E n \in S : \A m \in S : n <= m
<1>. DEFINE R == {p \in Nat \X Nat : p[1] < p[2]}
<1>1. IsWellFoundedOn(R, Nat)
  BY NatLessThanWellFounded DEF OpToRel
<1>2. \E n \in S : \A m \in S : <<m, n>> \notin R
  <2>. HIDE DEF R
  <2>. QED BY <1>1, WFMin
<1>3. \A m, n \in S : <<m, n>> \notin R => n <= m
  OBVIOUS
<1>. QED BY <1>2, <1>3

\* A set that has zero, and with every number its successor, has them all.
LEMMA NatSetInduction ==
    ASSUME NEW S, 0 \in S, \A n \in Nat : n \in S => n + 1 \in S
    PROVE  Nat \subseteq S
<1>. SUFFICES ASSUME Nat \ S # {} PROVE FALSE
  OBVIOUS
<1>1. PICK n \in Nat \ S : \A m \in Nat \ S : n <= m
  BY LeastNatural
<1>2. n # 0 /\ n - 1 \in Nat /\ n = (n - 1) + 1
  BY <1>1
<1>3. n - 1 \in S
  BY <1>1, <1>2
<1>. QED BY <1>1, <1>2, <1>3

\* A set of numbers with a bound has a greatest one.
LEMMA GreatestNatural ==
    ASSUME NEW n \in Nat, NEW S, S \subseteq 0 .. n, S # {}
    PROVE  \E m \in S : \A k \in S : k <= m
<1>. DEFINE T == {n - k : k \in S}
<1>1. T \subseteq Nat /\ T # {}
  <2>1. \A k \in 0 .. n : n - k \in Nat
    OBVIOUS
  <2>. QED  BY <2>1
<1>2. PICK t \in T : \A s \in T : t <= s
  BY <1>1, LeastNatural
<1>3. PICK m \in S : t = n - m
  BY <1>2
<1>4. \A k \in S : k <= m
  BY <1>2, <1>3
<1>. QED  BY <1>3, <1>4

\* What a fold computes, without the operators it is given: f adds an element.
IsFold(g, S, pick, base, f) ==
    \A T \in SUBSET S : g[T] = IF T = {} THEN base ELSE f[<<pick[T], g[T \ {pick[T]}]>>]

\* A fold over a finite set that picks its elements one by one is defined.
LEMMA FoldExists ==
    ASSUME NEW S, IsFiniteSet(S), NEW pick, \A T \in SUBSET S : T # {} => pick[T] \in T,
           NEW B, NEW base \in B, NEW f \in [S \X B -> B]
    PROVE  \E g \in [SUBSET S -> B] : IsFold(g, S, pick, base, f)
<1>. DEFINE Small(k) == {T \in SUBSET S : Cardinality(T) <= k}
            Def(g, k) == /\ g \in [Small(k) -> B]
                         /\ \A T \in Small(k) :
                               g[T] = IF T = {} THEN base ELSE f[<<pick[T], g[T \ {pick[T]}]>>]
            N == {k \in Nat : \E g : Def(g, k)}
<1>1. ASSUME NEW T \in SUBSET S
      PROVE  /\ Cardinality(T) \in Nat /\ (Cardinality(T) = 0 => T = {})
             /\ T # {} => Cardinality(T \ {pick[T]}) = Cardinality(T) - 1
  <2>1. IsFiniteSet(T)
    BY FS_Subset
  <2>. QED  BY <2>1, FS_CardinalityType, FS_EmptySet, FS_RemoveElement
<1>2. 0 \in N
  <2>. DEFINE g == [T \in Small(0) |-> base]
  <2>1. ASSUME NEW T \in Small(0)  PROVE  T = {}
    <3>1. T \in SUBSET S /\ Cardinality(T) <= 0
      OBVIOUS
    <3>2. Cardinality(T) \in Nat
      BY <1>1, <3>1
    <3>3. Cardinality(T) = 0
      BY <3>1, <3>2
    <3>. HIDE DEF Small
    <3>. QED  BY <1>1, <3>1, <3>3
  <2>2. g \in [Small(0) -> B] /\ \A T \in Small(0) : g[T] = base
    <3>. HIDE DEF Small
    <3>. QED  OBVIOUS
  <2>3. Def(g, 0)
    <3>. HIDE DEF Small, g
    <3>. QED  BY <2>1, <2>2
  <2>. HIDE DEF Def
  <2>. QED  BY <2>3
<1>3. ASSUME NEW k \in Nat, k \in N  PROVE  k + 1 \in N
  <2>1. PICK g : Def(g, k)
    BY <1>3
  <2>. DEFINE h == [T \in Small(k + 1) |-> IF T = {} THEN base
                                           ELSE f[<<pick[T], g[T \ {pick[T]}]>>]]
  <2>2. ASSUME NEW T \in Small(k + 1), T # {}
        PROVE  T \ {pick[T]} \in Small(k)
    BY <1>1, <2>2
  <2>3. h \in [Small(k + 1) -> B]
    <3>1. ASSUME NEW T \in Small(k + 1), T # {}  PROVE  f[<<pick[T], g[T \ {pick[T]}]>>] \in B
      <4>1. g[T \ {pick[T]}] \in B /\ pick[T] \in S
        BY <2>1, <2>2, <3>1
      <4>. QED  BY <4>1
    <3>. HIDE DEF Small
    <3>. QED  BY <3>1
  <2>4. ASSUME NEW T \in Small(k)  PROVE  T \in Small(k + 1) /\ h[T] = g[T]
    <3>1. T \in SUBSET S /\ Cardinality(T) <= k /\ Cardinality(T) \in Nat
      BY <1>1, <2>4
    <3>2. T \in Small(k + 1)
      BY <3>1
    <3>. QED  BY <2>1, <3>2
  <2>5. Def(h, k + 1)
    <3>1. ASSUME NEW T \in Small(k + 1), T # {}  PROVE h[T] = f[<<pick[T], h[T \ {pick[T]}]>>]
      <4>1. h[T \ {pick[T]}] = g[T \ {pick[T]}]
        BY <2>2, <2>4, <3>1
      <4>2. h[T] = f[<<pick[T], g[T \ {pick[T]}]>>]
        BY <3>1
      <4>. QED  BY <4>1, <4>2
    <3>2. ASSUME NEW T \in Small(k + 1), T = {}  PROVE h[T] = base
      BY <3>2
    <3>. HIDE DEF Small, h
    <3>. QED  BY <2>3, <3>1, <3>2
  <2>. HIDE DEF Def
  <2>. QED  BY <2>5
<1>4. \A n \in Nat : n \in N
  <2>. HIDE DEF N
  <2>. QED  BY <1>2, <1>3, NatSetInduction
<1>5. Cardinality(S) \in Nat /\ Small(Cardinality(S)) = SUBSET S
  BY FS_Subset, FS_CardinalityType
<1>6. \E g : Def(g, Cardinality(S))
  <2>. HIDE DEF Def
  <2>. QED  BY <1>4, <1>5
<1>. QED  BY <1>5, <1>6 DEF IsFold

\* The numbers up to the next one.
LEMMA IntervalGrows ==
    ASSUME NEW n \in Nat
    PROVE  /\ IsFiniteSet(1 .. n) /\ IsFiniteSet(1 .. n + 1)
           /\ n + 1 \in 1 .. n + 1 /\ n + 1 \notin 1 .. n
           /\ 1 .. n + 1 = (1 .. n) \cup {n + 1}
           /\ (1 .. n + 1) \ {n + 1} = 1 .. n
<1>1. IsFiniteSet(1 .. n) /\ IsFiniteSet(1 .. n + 1)
  <2>1. 1 \in Int /\ n \in Int /\ n + 1 \in Int
    OBVIOUS
  <2>. QED  BY <2>1, FS_Interval
<1>2. n + 1 \in 1 .. n + 1 /\ n + 1 \notin 1 .. n
  OBVIOUS
<1>3. 1 .. n + 1 = (1 .. n) \cup {n + 1}
  OBVIOUS
<1>. QED  BY <1>1, <1>2, <1>3

\* Subsets of a finite set from the smaller to the larger ones.
LEMMA SubsetInduction ==
    ASSUME NEW S, IsFiniteSet(S), NEW P, {} \in P,
           \A T \in SUBSET S : T # {} /\ (\A x \in T : T \ {x} \in P) => T \in P
    PROVE  SUBSET S \subseteq P
<1>. SUFFICES ASSUME (SUBSET S) \ P # {}  PROVE FALSE
  OBVIOUS
<1>. DEFINE sizes == {Cardinality(T) : T \in (SUBSET S) \ P}
<1>1. ASSUME NEW T \in SUBSET S
      PROVE  /\ Cardinality(T) \in Nat
             /\ \A x \in T : Cardinality(T \ {x}) = Cardinality(T) - 1
  <2>1. IsFiniteSet(T)
    BY FS_Subset
  <2>. QED  BY <2>1, FS_CardinalityType, FS_RemoveElement
<1>2. sizes \subseteq Nat /\ sizes # {}
  BY <1>1
<1>3. PICK n \in sizes : \A m \in sizes : n <= m
  <2>. HIDE DEF sizes
  <2>. QED  BY <1>2, LeastNatural
<1>4. PICK T \in (SUBSET S) \ P : n = Cardinality(T)
  BY <1>3
<1>5. PICK x \in T : T \ {x} \notin P
  BY <1>4
<1>6. Cardinality(T \ {x}) \in sizes /\ Cardinality(T \ {x}) = n - 1 /\ n \in Nat
  BY <1>1, <1>4, <1>5
<1>. QED  BY <1>3, <1>6

\* Sums over the subsets of a finite set, whatever the order.
IsSum(g, S, w) ==
    /\ g \in [SUBSET S -> Nat]
    /\ g[{}] = 0
    /\ \A T \in SUBSET S : \A x \in T : g[T] = w[x] + g[T \ {x}]

\* A sum that takes the elements in some order is the same in every order.
LEMMA SumAnyOrder ==
    ASSUME NEW S, IsFiniteSet(S), NEW w \in [S -> Nat], NEW g \in [SUBSET S -> Nat], NEW pick,
           \A T \in SUBSET S : T # {} => pick[T] \in T,
           \A T \in SUBSET S :
              g[T] = IF T = {} THEN 0 ELSE w[pick[T]] + g[T \ {pick[T]}]
    PROVE  IsSum(g, S, w)
<1>. DEFINE P == {T \in SUBSET S : \A x \in T : g[T] = w[x] + g[T \ {x}]}
<1>1. ASSUME NEW T \in SUBSET S, T # {}, \A x \in T : T \ {x} \in P  PROVE T \in P
  <2>. SUFFICES ASSUME NEW x \in T  PROVE g[T] = w[x] + g[T \ {x}]
    OBVIOUS
  <2>. DEFINE y == pick[T]
  <2>1. y \in T /\ g[T] = w[y] + g[T \ {y}]
    BY <1>1
  <2>. HIDE DEF y
  <2>2. CASE x # y
    <3>1. g[T \ {y}] = w[x] + g[(T \ {y}) \ {x}]
      BY <1>1, <2>1, <2>2
    <3>2. g[T \ {x}] = w[y] + g[(T \ {x}) \ {y}]
      BY <1>1, <2>1, <2>2
    <3>3. (T \ {y}) \ {x} = (T \ {x}) \ {y}
      OBVIOUS
    <3>4. w[x] \in Nat /\ w[y] \in Nat /\ g[(T \ {x}) \ {y}] \in Nat
      BY <2>1
    <3>5. \A a, b, c \in Nat : a + (b + c) = b + (a + c)
      OBVIOUS
    <3>6. g[T] = w[y] + (w[x] + g[(T \ {x}) \ {y}])
      BY <2>1, <3>1, <3>3
    <3>. QED  BY <3>2, <3>4, <3>5, <3>6
  <2>. QED  BY <2>1, <2>2
<1>2. SUBSET S \subseteq P
  <2>1. {} \in P
    OBVIOUS
  <2>. HIDE DEF P
  <2>. QED  BY <1>1, <2>1, SubsetInduction
<1>. QED  BY <1>2 DEF IsSum

\* The function that a sum of the community modules defines: it picks some
\* element of a set first.
IsChoiceSum(h, S, w) ==
    h = [T \in SUBSET S |-> IF T = {} THEN 0
           ELSE w[CHOOSE x \in T : TRUE] + h[T \ {CHOOSE x \in T : TRUE}]]

\* It is defined, and it is a sum.
LEMMA ChosenSum ==
    ASSUME NEW S, IsFiniteSet(S), NEW w \in [S -> Nat]
    PROVE  /\ \E h : IsChoiceSum(h, S, w)
           /\ \A h : IsChoiceSum(h, S, w) => IsSum(h, S, w)
<1>. DEFINE pick == [T \in SUBSET S |-> CHOOSE x \in T : TRUE]
            f == [p \in S \X Nat |-> w[p[1]] + p[2]]
<1>1. f \in [S \X Nat -> Nat]
  <2>1. \A m, n \in Nat : m + n \in Nat
    OBVIOUS
  <2>2. \A p \in S \X Nat : p[1] \in S /\ p[2] \in Nat
    OBVIOUS
  <2>. QED  BY <2>1, <2>2
<1>2. \A T \in SUBSET S : T # {} => pick[T] \in T
  OBVIOUS
<1>3. PICK g \in [SUBSET S -> Nat] : IsFold(g, S, pick, 0, f)
  <2>. HIDE DEF pick, f
  <2>. QED  BY <1>1, <1>2, FoldExists
<1>4. IsChoiceSum(g, S, w)
  <2>1. ASSUME NEW T \in SUBSET S, T # {}
        PROVE  g[T] = w[CHOOSE x \in T : TRUE] + g[T \ {CHOOSE x \in T : TRUE}]
    <3>1. g[T] = f[<<pick[T], g[T \ {pick[T]}]>>]
      BY <1>3, <2>1 DEF IsFold
    <3>2. pick[T] \in S /\ g[T \ {pick[T]}] \in Nat /\ pick[T] = CHOOSE x \in T : TRUE
      BY <1>2, <2>1
    <3>. HIDE DEF pick
    <3>. QED  BY <3>1, <3>2
  <2>2. g[{}] = 0
    BY <1>3 DEF IsFold
  <2>. QED  BY <2>1, <2>2 DEF IsChoiceSum
<1>5. ASSUME NEW h, IsChoiceSum(h, S, w)
      PROVE  IsSum(h, S, w)
  <2>. DEFINE P == {T \in SUBSET S : h[T] \in Nat}
  <2>1. \A T \in SUBSET S : h[T] = IF T = {} THEN 0 ELSE w[pick[T]] + h[T \ {pick[T]}]
    BY <1>5 DEF IsChoiceSum
  <2>2. ASSUME NEW T \in SUBSET S, T # {}, \A x \in T : T \ {x} \in P  PROVE T \in P
    <3>1. h[T] = w[pick[T]] + h[T \ {pick[T]}] /\ pick[T] \in S
      BY <1>2, <2>1, <2>2
    <3>2. w[pick[T]] \in Nat /\ h[T \ {pick[T]}] \in Nat
      <4>. HIDE DEF pick
      <4>. QED  BY <1>2, <2>2, <3>1
    <3>. QED  BY <2>2, <3>1, <3>2
  <2>3. SUBSET S \subseteq P
    <3>1. {} \in P
      <4>1. h[{}] = 0
        BY <1>5 DEF IsChoiceSum
      <4>. QED  BY <4>1
    <3>. HIDE DEF P
    <3>. QED  BY <2>2, <3>1, SubsetInduction
  <2>4. h \in [SUBSET S -> Nat]
    BY <1>5, <2>3 DEF IsChoiceSum
  <2>. HIDE DEF pick, P
  <2>. QED  BY <1>2, <2>1, <2>4, SumAnyOrder
<1>. QED  BY <1>4, <1>5

\* Sums of the same numbers over the same subsets are the same.
LEMMA SumsAgree ==
    ASSUME NEW S, NEW R \in SUBSET S, IsFiniteSet(S), NEW w, NEW v,
           \A x \in R : w[x] = v[x],
           NEW g, IsSum(g, S, w), NEW h, IsSum(h, R, v)
    PROVE  \A T \in SUBSET R : g[T] = h[T]
<1>. DEFINE P == {T \in SUBSET R : g[T] = h[T]}
<1>1. ASSUME NEW T \in SUBSET R, T # {}, \A x \in T : T \ {x} \in P  PROVE T \in P
  <2>1. PICK x \in T : TRUE
    BY <1>1
  <2>2. g[T] = w[x] + g[T \ {x}] /\ h[T] = v[x] + h[T \ {x}] /\ g[T \ {x}] = h[T \ {x}]
    BY <1>1, <2>1 DEF IsSum
  <2>. QED  BY <2>1, <2>2
<1>2. {} \in P /\ IsFiniteSet(R)
  BY FS_Subset DEF IsSum
<1>3. SUBSET R \subseteq P
  <2>. HIDE DEF P
  <2>. QED  BY <1>1, <1>2, SubsetInduction
<1>. QED  BY <1>3

-------------------------------------------------------------------------------
(* The protocol of receipts. *)

\* begin of a call preserves the types.
LEMMA BeginTypes ==
    ASSUME NEW ids, NEW digests, NEW calls, NEW steps,
           OpTypeOK(ids, digests, calls, steps),
           NEW outcome \in Outcomes, NEW next \in steps,
           Begin(outcome, next),
           step # "idle" => call.id \in ids /\ call.digest \in digests,
           "release" \in steps, "idle" \notin steps
    PROVE  OpTypeOK(ids, digests, calls, steps)'
BY FaultsAssumption
   DEF OpTypeOK, Begin, Write, SetReceipt, Continue, Failed, Written, receipt,
       Receipts, Stamp, Statuses, Answers, Outcomes

\* A begin that is refused preserves the types.
LEMMA BeginRefusedTypes ==
    ASSUME NEW ids, NEW digests, NEW calls, NEW steps,
           OpTypeOK(ids, digests, calls, steps),
           NEW onReplay \in Answers, BeginRefused(onReplay),
           "release" \in steps, "idle" \notin steps
    PROVE  OpTypeOK(ids, digests, calls, steps)'
BY DEF OpTypeOK, BeginRefused, Answers

\* The commit of a call preserves the types.
LEMMA CommitTypes ==
    ASSUME NEW ids, NEW digests, NEW calls, NEW steps,
           OpTypeOK(ids, digests, calls, steps),
           NEW outcome \in Outcomes, NEW otherwise \in steps,
           Commit(outcome, otherwise),
           step # "idle" => call.id \in ids /\ call.digest \in digests,
           "release" \in steps, "idle" \notin steps
    PROVE  OpTypeOK(ids, digests, calls, steps)'
BY FaultsAssumption
   DEF OpTypeOK, Commit, Write, SetReceipt, Failed, Written, receipt,
       Receipts, Stamp, Statuses, Answers, Outcomes

\* The abort of a call preserves the types.
LEMMA AbortTypes ==
    ASSUME NEW ids, NEW digests, NEW calls, NEW steps,
           OpTypeOK(ids, digests, calls, steps),
           NEW outcome \in Outcomes, NEW place \in steps, NEW onError \in Answers,
           Abort(place, outcome, onError),
           step # "idle" => call.id \in ids /\ call.digest \in digests,
           "release" \in steps, "idle" \notin steps
    PROVE  OpTypeOK(ids, digests, calls, steps)'
BY FaultsAssumption
   DEF OpTypeOK, Abort, Write, SetReceipt, Failed, Written, receipt,
       Receipts, Stamp, Statuses, Answers, Outcomes

\* An abort that is refused preserves the types.
LEMMA AbortRefusedTypes ==
    ASSUME NEW ids, NEW digests, NEW calls, NEW steps,
           OpTypeOK(ids, digests, calls, steps),
           NEW place \in steps, NEW onError \in Answers, AbortRefused(place, onError),
           "release" \in steps, "idle" \notin steps
    PROVE  OpTypeOK(ids, digests, calls, steps)'
BY DEF OpTypeOK, AbortRefused

\* The end of a call, a crash, and what other commands do to the lock and the
\* receipts preserve the types.
LEMMA EndTypes ==
    ASSUME NEW ids, NEW digests, NEW calls, NEW steps,
           OpTypeOK(ids, digests, calls, steps),
           \/ Release \/ ReleaseFails \/ Crash \/ ReconcileLock
           \/ \E i \in ids : AbortOperation(i) \/ NewId(i)
    PROVE  OpTypeOK(ids, digests, calls, steps)'
<1>1. CASE Release \/ ReleaseFails \/ Crash \/ ReconcileLock
  BY <1>1, FaultsAssumption
     DEF OpTypeOK, Release, ReleaseFails, Crash, ReconcileLock, End, Write,
         Failed, Answers
<1>2. CASE \E i \in ids : AbortOperation(i) \/ NewId(i)
  BY <1>2
     DEF OpTypeOK, AbortOperation, NewId, Receipts, Stamp, Statuses
<1>. QED  BY <1>1, <1>2

-------------------------------------------------------------------------------
(* Scaffold.tla *)

\* An init in flight plans to write tasks.md only where there was none, and
\* puts back nothing that it has not written.
PlanSpares ==
    step # "idle" =>
        /\ call.written \subseteq call.towrite
        /\ TasksFile \in call.towrite =>
              /\ call.old[TasksFile] = AbsentFile
              /\ call.digest[TasksFile] # OwnFile
              /\ scaffold[TasksFile] # OwnFile

ScaffoldInv == ScaffoldTypeOK /\ PlanSpares

\* A scaffold without files is well typed, and no init is in flight.
LEMMA ScaffoldInitial == ScaffoldInit => ScaffoldInv
BY FaultsAssumption
   DEF ScaffoldInit, OpInit, ScaffoldEmpty, ScaffoldInv, ScaffoldTypeOK, OpTypeOK,
       PlanSpares, ScaffoldContents, FileContent, AbsentFile, Answers, Receipts

\* Every step of init and of its environment keeps the types.
LEMMA ScaffoldTypesKept ==
    ScaffoldTypeOK /\ ScaffoldNext => ScaffoldTypeOK'
<1>. SUFFICES ASSUME ScaffoldTypeOK, ScaffoldNext
              PROVE  ScaffoldTypeOK'
  OBVIOUS
<1>. USE DEF ScaffoldTypeOK
<1>1. "release" \in ScaffoldSteps /\ "idle" \notin ScaffoldSteps
  BY DEF ScaffoldSteps
<1>2. step # "idle" => call.id \in InitOps /\ call.digest \in ScaffoldContents
  BY DEF OpTypeOK, ScaffoldCalls
<1>3. ASSUME NEW o \in InitOps, NEW l \in Languages, NEW force \in BOOLEAN,
             StartInit(o, l, force)
      PROVE  ScaffoldTypeOK'
  <2>. DEFINE towrite == {f \in ScaffoldFiles : ShouldWrite(f, force)}
              digest == [f \in ScaffoldFiles |->
                            IF f \in towrite THEN Template(l) ELSE scaffold[f]]
              c == [id |-> o, digest |-> digest, old |-> scaffold, written |-> {},
                    towrite |-> towrite, spoilt |-> FALSE]
  <2>1. digest \in ScaffoldContents
    BY DEF ScaffoldContents, FileContent, Template
  <2>2. c \in ScaffoldCalls
    BY <2>1 DEF ScaffoldCalls
  <2>3. Enter(c, "begin", "none")
    BY <1>3 DEF StartInit
  <2>. HIDE DEF c
  <2>. QED  BY <1>3, <2>2, <2>3 DEF StartInit, Enter, OpTypeOK, ScaffoldSteps, Answers
<1>4. ASSUME NEW f \in ScaffoldFiles, NEW outcome \in Outcomes, WriteTemplate(f, outcome)
      PROVE  ScaffoldTypeOK'
  <2>1. scaffold' \in ScaffoldContents
    BY <1>2, <1>4 DEF WriteTemplate, Written, ScaffoldContents, OpTypeOK
  <2>2. call' \in ScaffoldCalls /\ step' \in ScaffoldSteps /\ answer' \in Answers
    BY <1>4 DEF WriteTemplate, OpTypeOK, ScaffoldCalls, ScaffoldSteps, Answers
  <2>. QED
    BY <1>1, <1>4, <2>1, <2>2, FaultsAssumption DEF WriteTemplate, Write, Failed, OpTypeOK
<1>5. ASSUME NEW f \in ScaffoldFiles, NEW outcome \in Outcomes, UndoTemplate(f, outcome)
      PROVE  ScaffoldTypeOK'
  <2>1. scaffold' \in ScaffoldContents
    BY <1>5 DEF UndoTemplate, Written, ScaffoldContents, OpTypeOK, ScaffoldCalls
  <2>2. call' \in ScaffoldCalls
    BY <1>5 DEF UndoTemplate, OpTypeOK, ScaffoldCalls
  <2>. QED
    BY <1>5, <2>1, <2>2, FaultsAssumption DEF UndoTemplate, Write, Failed, OpTypeOK
<1>6. CASE TemplatesWritten \/ InitUndone
  BY <1>6 DEF TemplatesWritten, InitUndone, OpTypeOK, ScaffoldSteps
<1>7. ASSUME NEW outcome \in Outcomes,
             BeginInit(outcome) \/ CommitInit(outcome) \/ AbortInit(outcome)
      PROVE  ScaffoldTypeOK'
  <2>1. {"write", "undo", "abort"} \subseteq ScaffoldSteps /\ answer \in Answers
    BY DEF ScaffoldSteps, OpTypeOK
  <2>2. CASE BeginInit(outcome)
    BY <1>1, <1>2, <2>1, <2>2, BeginTypes DEF BeginInit
  <2>3. CASE CommitInit(outcome)
    BY <1>1, <1>2, <2>1, <2>3, CommitTypes DEF CommitInit
  <2>4. CASE AbortInit(outcome)
    BY <1>1, <1>2, <2>1, <2>4, AbortTypes DEF AbortInit
  <2>. QED  BY <1>7, <2>2, <2>3, <2>4
<1>8. CASE BeginInitRefused \/ AbortInitRefused
  <2>1. "abort" \in ScaffoldSteps /\ answer \in Answers /\ "replay" \in Answers
    BY DEF ScaffoldSteps, OpTypeOK, Answers
  <2>. QED
    BY <1>1, <1>8, <2>1, BeginRefusedTypes, AbortRefusedTypes
       DEF BeginInitRefused, AbortInitRefused
<1>9. CASE \/ ReleaseInit \/ CrashInit \/ ReconcileInitLock
           \/ \E o \in InitOps : AbortInitOperation(o)
  BY <1>9, EndTypes
     DEF ReleaseInit, CrashInit, ReconcileInitLock, AbortInitOperation
<1>10. ASSUME NEW f \in ScaffoldFiles, WriteOwn(f)
       PROVE  ScaffoldTypeOK'
  BY <1>10 DEF WriteOwn, opVars, OpTypeOK, ScaffoldContents, FileContent, OwnFile
<1>. QED
  BY <1>3, <1>4, <1>5, <1>6, <1>7, <1>8, <1>9, <1>10 DEF ScaffoldNext, ScaffoldWrites

\* What init plans about tasks.md stays harmless until the call ends.
LEMMA PlanSparesKept ==
    ScaffoldInv /\ ScaffoldNext => PlanSpares'
<1>. SUFFICES ASSUME ScaffoldInv, ScaffoldNext
              PROVE  PlanSpares'
  OBVIOUS
<1>. USE DEF ScaffoldInv, PlanSpares
<1>0. TasksFile \in ScaffoldFiles /\ OwnFile # AbsentFile
  BY DEF ScaffoldFiles, OwnFile, AbsentFile
<1>1. ASSUME NEW o \in InitOps, NEW l \in Languages, NEW force \in BOOLEAN,
             StartInit(o, l, force)
      PROVE  PlanSpares'
  BY <1>0, <1>1
     DEF StartInit, Enter, ShouldWrite, Template, OwnFile, AbsentFile, ScaffoldTypeOK,
         ScaffoldContents
<1>2. ASSUME NEW f \in ScaffoldFiles, NEW outcome \in Outcomes, WriteTemplate(f, outcome)
      PROVE  PlanSpares'
  BY <1>0, <1>2
     DEF WriteTemplate, Written, ScaffoldTypeOK, OpTypeOK, ScaffoldCalls, ScaffoldContents
<1>3. ASSUME NEW f \in ScaffoldFiles, NEW outcome \in Outcomes, UndoTemplate(f, outcome)
      PROVE  PlanSpares'
  BY <1>0, <1>3
     DEF UndoTemplate, Written, ScaffoldTypeOK, OpTypeOK, ScaffoldCalls, ScaffoldContents
<1>4. ASSUME NEW outcome \in Outcomes,
             BeginInit(outcome) \/ CommitInit(outcome) \/ AbortInit(outcome)
      PROVE  PlanSpares'
  BY <1>4 DEF BeginInit, CommitInit, AbortInit, Begin, Commit, Abort
<1>5. CASE \/ TemplatesWritten \/ InitUndone \/ BeginInitRefused \/ AbortInitRefused
           \/ ReleaseInit \/ CrashInit \/ ReconcileInitLock
           \/ \E o \in InitOps : AbortInitOperation(o)
  BY <1>5
     DEF TemplatesWritten, InitUndone, BeginInitRefused, AbortInitRefused, ReleaseInit,
         CrashInit, ReconcileInitLock, AbortInitOperation, BeginRefused, AbortRefused,
         Release, ReleaseFails, Crash, End, ReconcileLock, AbortOperation
<1>6. ASSUME NEW f \in ScaffoldFiles, WriteOwn(f)
      PROVE  PlanSpares'
  BY <1>6 DEF WriteOwn, opVars
<1>. QED
  BY <1>1, <1>2, <1>3, <1>4, <1>5, <1>6 DEF ScaffoldNext, ScaffoldWrites

\* The two together, under every step.
LEMMA ScaffoldKept == ScaffoldInv /\ [ScaffoldNext]_<<opVars, scaffold>> => ScaffoldInv'
<1>1. ScaffoldInv /\ UNCHANGED <<opVars, scaffold>> => ScaffoldInv'
  BY DEF ScaffoldInv, ScaffoldTypeOK, OpTypeOK, PlanSpares, opVars
<1>. QED  BY <1>1, ScaffoldTypesKept, PlanSparesKept DEF ScaffoldInv

\* The invariant of init: types, and a plan that spares tasks.md.
THEOREM ScaffoldInvariant == ScaffoldSpec => []ScaffoldInv
BY ScaffoldInitial, ScaffoldKept, PTL DEF ScaffoldSpec

\* No step of init replaces or removes a tasks.md that is somebody's own.
LEMMA TasksSpared ==
    ScaffoldInv /\ [ScaffoldNext]_<<opVars, scaffold>>
        => [scaffold[TasksFile] = OwnFile => scaffold'[TasksFile] = OwnFile]_scaffold
<1>. SUFFICES ASSUME ScaffoldInv, ScaffoldNext, scaffold' # scaffold,
                     scaffold[TasksFile] = OwnFile
              PROVE  scaffold'[TasksFile] = OwnFile
  BY DEF opVars
<1>. USE DEF ScaffoldInv, ScaffoldTypeOK, OpTypeOK, PlanSpares, ScaffoldContents
<1>1. ASSUME NEW f \in ScaffoldFiles, NEW outcome \in Outcomes,
             WriteTemplate(f, outcome) \/ UndoTemplate(f, outcome)
      PROVE  scaffold'[TasksFile] = OwnFile
  BY <1>1 DEF WriteTemplate, UndoTemplate, ScaffoldFiles
<1>2. ASSUME NEW f \in ScaffoldFiles, WriteOwn(f)
      PROVE  scaffold'[TasksFile] = OwnFile
  BY <1>2 DEF WriteOwn, ScaffoldFiles
<1>3. \/ \E f \in ScaffoldFiles, outcome \in Outcomes :
            WriteTemplate(f, outcome) \/ UndoTemplate(f, outcome)
      \/ \E f \in ScaffoldFiles : WriteOwn(f)
  BY DEF ScaffoldNext, ScaffoldWrites, StartInit, BeginInit, CommitInit, AbortInit,
         TemplatesWritten, InitUndone, BeginInitRefused, AbortInitRefused, ReleaseInit,
         CrashInit, ReconcileInitLock, AbortInitOperation
<1>. QED  BY <1>1, <1>2, <1>3

\* init never replaces or removes a tasks.md that is somebody's own, whatever
\* the number of files, whether forced, failing, rolled back or crashed.
THEOREM TasksAreKept == ScaffoldSpec => TasksKept
BY TasksSpared, ScaffoldInvariant, PTL DEF ScaffoldSpec, TasksKept

-------------------------------------------------------------------------------
(* ExternalOperations.tla *)

\* The record that the call has found on file is a result that counts.
OldCounts == call.old # NoRecord /\ call.old.status \in Results /\ Vouched(call.old)

\* Records are filed under their ids, and a call works on one of them.
WellFiled ==
    /\ \A o \in Externals : externals[o] # NoRecord => externals[o].op = o
    /\ step \notin {"idle", "release"} =>
          /\ call.digest = call.id
          /\ call.old # NoRecord => call.old.op = call.id.op

\* What is on file while a call is on its way, and what it has found there: a
\* result that counts is never replaced.
OnItsWay ==
    LET onFile == externals[call.id.op]
    IN  /\ step \in {"begin", "write"} => onFile = call.old /\ ~OldCounts /\ answer = "none"
        /\ step \in {"commit", "restore"} => onFile = call.digest
        /\ step = "commit" => answer = "none"
        /\ step \in {"restore", "abort"} => answer = "error"
        /\ step \in {"write", "commit", "abort"} => receipt = Stamp(call.digest, "started")
        /\ step = "abort" => onFile \in {call.old, call.digest}
        /\ step \in {"commit", "restore", "abort", "give_up"} =>
              call.old = call.digest \/ ~OldCounts
        /\ step = "give_up" =>
              \/ answer = "recovery_unknown"
              \/ answer = "error" /\ onFile = call.old

\* An answer of a call that is done, and the results told before, are true.
AnswerTrue ==
    /\ step = "release" /\ answer = "error" =>
          ~OldCounts /\ \A r \in Counted : r.op # call.id.op
    /\ step = "release" /\ answer \in {"ok", "replay"} /\ call.digest.status \in Results =>
          call.digest \in Counted
    /\ step \in {"begin", "write", "commit", "restore", "abort"} =>
          \A r \in told : r.op # call.id.op
    /\ told \subseteq Counted

ExternalInv == ExternalTypeOK /\ WellFiled /\ OnItsWay /\ AnswerTrue

\* An empty journal satisfies the invariant.
LEMMA ExternalInitial == ExternalInit => ExternalInv
BY FaultsAssumption
   DEF ExternalInit, OpInit, ExternalEmpty, ExternalInv, ExternalTypeOK, OpTypeOK,
       WellFiled, OnItsWay, AnswerTrue, Answers, Receipts, ExternalSteps

\* The parts of a record.
LEMMA RecordFields ==
    ASSUME NEW r \in ExternalRecord
    PROVE  /\ r.op \in Externals /\ r.subject \in Subjects /\ r.status \in ExternalStatus
           /\ r.evidence \in Evidence \cup {NoEvidence} /\ r.at \in Instants
           /\ \A s \in ExternalStatus : /\ [r EXCEPT !.status = s] \in ExternalRecord
                                         /\ [r EXCEPT !.status = s].op = r.op
                                         /\ [r EXCEPT !.status = s].status = s
           /\ [r EXCEPT !.status = r.status] = r
           /\ r # NoRecord
BY NoRecordAssumption DEF ExternalRecord

\* A record is shown as a record of the same operation; one that is shown with
\* a result is shown as it is, and counts.
LEMMA ShownIsRecord ==
    ASSUME ExternalTypeOK, WellFiled, NEW o \in Externals, externals[o] # NoRecord
    PROVE  /\ ShownRecord(o) \in ExternalRecord
           /\ ShownRecord(o).op = o
           /\ ShownRecord(o).status \in Results => ShownRecord(o) \in Counted
<1>. DEFINE r == externals[o]
<1>1. r \in ExternalRecord /\ r.op = o
  BY DEF ExternalTypeOK, WellFiled
<1>2. Shown(r) \in ExternalStatus
  BY <1>1, RecordFields DEF Shown, ExternalStatus
<1>3. ShownRecord(o) \in ExternalRecord /\ ShownRecord(o).op = o
      /\ ShownRecord(o).status = Shown(r)
  BY <1>1, <1>2, RecordFields DEF ShownRecord
<1>4. ASSUME Shown(r) \in Results
      PROVE  ShownRecord(o) \in Counted
  <2>1. r.status \in Results /\ Vouched(r) /\ Shown(r) = r.status
    BY <1>4 DEF Shown, Results
  <2>2. ShownRecord(o) = r
    BY <1>1, <2>1, RecordFields DEF ShownRecord
  <2>. QED  BY <1>1, <2>1, <2>2 DEF Counted
<1>. QED  BY <1>3, <1>4

\* Every step of the journal and of its environment keeps the types.
LEMMA ExternalTypesKept ==
    ExternalTypeOK /\ WellFiled /\ ExternalNext => ExternalTypeOK'
<1>. SUFFICES ASSUME ExternalTypeOK, WellFiled, ExternalNext
              PROVE  ExternalTypeOK'
  OBVIOUS
<1>. USE DEF ExternalTypeOK
<1>. DEFINE Types == OpTypeOK(ExternalRecord, ExternalRecord, ExternalCalls, ExternalSteps)
<1>1. /\ "idle" \notin ExternalSteps /\ answer \in Answers
      /\ {"begin", "write", "commit", "restore", "abort", "give_up", "release"}
            \subseteq ExternalSteps
      /\ {"none", "replay", "recovery_unknown", "error", "ok"} \subseteq Answers
  BY DEF ExternalSteps, OpTypeOK, Answers
<1>2. step # "idle" => /\ call.id \in ExternalRecord /\ call.digest \in ExternalRecord
                       /\ call.old \in ExternalRecord \cup {NoRecord}
  BY DEF OpTypeOK, ExternalCalls
<1>3. ASSUME NEW r \in ExternalRecord, NEW old \in ExternalRecord \cup {NoRecord},
             NEW next \in ExternalSteps, NEW result \in Answers,
             Enter(ExternalCall(r, old), next, result), UNCHANGED extVars
      PROVE  ExternalTypeOK'
  <2>1. ExternalCall(r, old) \in ExternalCalls
    BY DEF ExternalCall, ExternalCalls
  <2>. QED  BY <1>1, <1>3, <2>1 DEF Enter, OpTypeOK, extVars
<1>4. CASE ExternalAsk
  <2>1. ASSUME NEW o \in Externals, NEW s \in Subjects, PrepareAgain(o, s)
        PROVE  ExternalTypeOK'
    BY <1>1, <1>3, <2>1, ShownIsRecord DEF PrepareAgain
  <2>2. ASSUME NEW o \in Externals, NEW s \in Subjects, NEW t \in Instants, Prepare(o, s, t)
        PROVE  ExternalTypeOK'
    <3>1. PendingRecord(o, s, t) \in ExternalRecord
      BY DEF PendingRecord, ExternalRecord, ExternalStatus
    <3>. QED  BY <1>1, <1>3, <2>2, <3>1 DEF Prepare
  <2>3. ASSUME NEW r \in ExternalRecord, UpdateAgain(r) \/ Update(r)
        PROVE  ExternalTypeOK'
    <3>1. externals[r.op] \in ExternalRecord \cup {NoRecord}
      BY RecordFields
    <3>. QED  BY <1>1, <1>3, <2>3, <3>1 DEF UpdateAgain, Update
  <2>. QED  BY <1>4, <2>1, <2>2, <2>3 DEF ExternalAsk
<1>5. ASSUME NEW outcome \in Outcomes, WriteRecord(outcome) \/ RestoreRecord(outcome)
      PROVE  ExternalTypeOK'
  <2>1. externals' \in [Externals -> ExternalRecord \cup {NoRecord}]
    BY <1>2, <1>5, RecordFields DEF WriteRecord, RestoreRecord, Written
  <2>. QED
    BY <1>1, <1>5, <2>1, FaultsAssumption
       DEF WriteRecord, RestoreRecord, Write, Continue, Failed, OpTypeOK
<1>6. ASSUME NEW outcome \in Outcomes,
             \/ BeginRecord(outcome) \/ CommitRecord(outcome)
             \/ AbortWrite(outcome) \/ AbortCommit(outcome)
      PROVE  ExternalTypeOK'
  <2>1. CASE BeginRecord(outcome)
    <3>1. Types'  BY <1>1, <1>2, <2>1, BeginTypes DEF BeginRecord
    <3>. QED  BY <2>1, <3>1 DEF BeginRecord, extVars
  <2>2. CASE CommitRecord(outcome)
    <3>1. Types'  BY <1>1, <1>2, <2>2, CommitTypes DEF CommitRecord
    <3>. QED  BY <2>2, <3>1 DEF CommitRecord, extVars
  <2>3. CASE AbortWrite(outcome)
    <3>1. Types'  BY <1>1, <1>2, <2>3, AbortTypes DEF AbortWrite
    <3>. QED  BY <2>3, <3>1 DEF AbortWrite, extVars
  <2>4. CASE AbortCommit(outcome)
    <3>1. Types'  BY <1>1, <1>2, <2>4, AbortTypes DEF AbortCommit
    <3>. QED  BY <2>4, <3>1 DEF AbortCommit, extVars
  <2>. QED  BY <1>6, <2>1, <2>2, <2>3, <2>4
<1>7. CASE BeginRecordRefused \/ AbortCommitRefused
  <2>1. Types'
    BY <1>1, <1>7, BeginRefusedTypes, AbortRefusedTypes
       DEF BeginRecordRefused, AbortCommitRefused
  <2>. QED  BY <1>7, <2>1 DEF BeginRecordRefused, AbortCommitRefused, extVars
<1>8. CASE \/ ReleaseRecord \/ ReleaseRecordFails \/ CrashRecord \/ ReconcileExternalLock
           \/ \E r \in ExternalRecord : AbortHistory(r)
  <2>1. Types'
    BY <1>8, EndTypes
       DEF ReleaseRecord, ReleaseRecordFails, CrashRecord, ReconcileExternalLock, AbortHistory
  <2>2. told' \subseteq ExternalRecord
    BY <1>2, <1>8
       DEF ReleaseRecord, Release, ReleaseRecordFails, CrashRecord, ReconcileExternalLock,
           AbortHistory, extVars
  <2>3. externals' = externals /\ litter' \in Nat
    BY <1>8
       DEF ReleaseRecord, ReleaseRecordFails, CrashRecord, ReconcileExternalLock,
           AbortHistory, extVars
  <2>. QED  BY <2>1, <2>2, <2>3
<1>. QED
  BY <1>4, <1>5, <1>6, <1>7, <1>8 DEF ExternalNext, ExternalWrites

\* A call that enters leaves the invariant in place: a repetition is answered
\* with what is on file, and a new record only replaces what does not count.
LEMMA AskKept ==
    ASSUME ExternalInv, ExternalAsk
    PROVE  WellFiled' /\ OnItsWay' /\ AnswerTrue'
<1>. USE DEF ExternalInv
<1>1. ASSUME NEW o \in Externals, externals[o] # NoRecord,
             NEW r, r = ShownRecord(o),
             Enter(ExternalCall(r, externals[o]), "release", "replay"), UNCHANGED extVars
      PROVE  WellFiled' /\ OnItsWay' /\ AnswerTrue'
  <2>1. Counted' = Counted /\ told' = told /\ externals' = externals
    BY <1>1 DEF Enter, extVars, Counted, Vouched
  <2>2. call'.digest = r /\ step' = "release" /\ answer' = "replay"
    BY <1>1 DEF Enter, ExternalCall
  <2>3. WellFiled' /\ OnItsWay'
    BY <2>1, <2>2 DEF WellFiled, OnItsWay
  <2>. QED  BY <1>1, <2>1, <2>2, <2>3, ShownIsRecord DEF AnswerTrue
<1>2. ASSUME NEW r \in ExternalRecord, NEW old, old = externals[r.op],
             old # NoRecord => old.status \notin Results \/ ~Vouched(old),
             Enter(ExternalCall(r, old), "begin", "none"), UNCHANGED extVars
      PROVE  WellFiled' /\ OnItsWay' /\ AnswerTrue'
  <2>1. Counted' = Counted /\ told' = told /\ externals' = externals /\ receipts' = receipts
    BY <1>2 DEF Enter, extVars, Counted, Vouched
  <2>2. /\ call'.digest = r /\ call'.id = r /\ call'.old = old
        /\ step' = "begin" /\ answer' = "none"
    BY <1>2 DEF Enter, ExternalCall
  <2>3. r.op \in Externals
    BY RecordFields
  <2>4. WellFiled'
    BY <1>2, <2>1, <2>2, <2>3 DEF WellFiled
  <2>5. ~OldCounts'
    BY <1>2, <2>1, <2>2 DEF OldCounts, Vouched
  <2>6. OnItsWay'
    BY <1>2, <2>1, <2>2, <2>5 DEF OnItsWay
  <2>7. \A c \in Counted : c.op # r.op
    BY <1>2, NoRecordAssumption DEF Counted
  <2>8. told' \subseteq Counted' /\ \A c \in told' : c.op # call'.id.op
    BY <2>1, <2>2, <2>7 DEF AnswerTrue
  <2>. QED  BY <2>2, <2>4, <2>6, <2>8 DEF AnswerTrue
<1>3. ASSUME NEW o \in Externals, NEW s \in Subjects, NEW t \in Instants, Prepare(o, s, t)
      PROVE  WellFiled' /\ OnItsWay' /\ AnswerTrue'
  <2>1. PendingRecord(o, s, t) \in ExternalRecord /\ PendingRecord(o, s, t).op = o
    BY DEF PendingRecord, ExternalRecord, ExternalStatus
  <2>. QED  BY <1>2, <1>3, <2>1 DEF Prepare
<1>4. ASSUME NEW r \in ExternalRecord, Update(r)
      PROVE  WellFiled' /\ OnItsWay' /\ AnswerTrue'
  <2>1. externals[r.op].status \notin Results \/ ~Vouched(externals[r.op])
    BY <1>4 DEF Update, Advances, Shown
  <2>. QED  BY <1>2, <1>4, <2>1 DEF Update
<1>. QED
  BY <1>1, <1>3, <1>4, RecordFields DEF ExternalAsk, PrepareAgain, UpdateAgain

\* The steps that write a record.
LEMMA RecordWritesKept ==
    ASSUME ExternalInv, NEW outcome \in Outcomes,
           WriteRecord(outcome) \/ RestoreRecord(outcome)
    PROVE  WellFiled' /\ OnItsWay' /\ AnswerTrue'
<1>. USE DEF ExternalInv
<1>. DEFINE op == call.id.op
<1>1. /\ op \in Externals /\ call.digest = call.id /\ call.id \in ExternalRecord
      /\ call.old # NoRecord => call.old.op = op
      /\ receipts' = receipts /\ call' = call /\ told' = told
  BY RecordFields
     DEF WriteRecord, RestoreRecord, WellFiled, ExternalTypeOK, OpTypeOK, ExternalCalls
<1>2. /\ externals' = [externals EXCEPT ![op] = externals'[op]]
      /\ externals'[op] \in {externals[op], call.digest, call.old}
  BY <1>1 DEF WriteRecord, RestoreRecord, Written, ExternalTypeOK
<1>3. WellFiled'
  BY <1>1, <1>2 DEF WellFiled, ExternalTypeOK
<1>4. OldCounts' = OldCounts /\ receipt' = receipt
  BY <1>1 DEF OldCounts, Vouched, receipt
<1>5. OnItsWay'
  <2>1. CASE WriteRecord(outcome)
    BY <1>1, <1>2, <1>4, <2>1
       DEF WriteRecord, Written, Continue, Failed, OnItsWay, ExternalTypeOK
  <2>2. CASE RestoreRecord(outcome)
    BY <1>1, <1>2, <1>4, <2>2
       DEF RestoreRecord, Written, Failed, OnItsWay, ExternalTypeOK, Outcomes
  <2>. QED  BY <2>1, <2>2
<1>6. \A r \in told : r.op # op
  BY DEF WriteRecord, RestoreRecord, AnswerTrue
<1>7. told' \subseteq Counted'
  <2>. SUFFICES ASSUME NEW r \in told  PROVE  r \in Counted'
    BY <1>1
  <2>1. r \in ExternalRecord /\ r.status \in Results /\ externals[r.op] = r /\ Vouched(r)
    BY DEF AnswerTrue, Counted
  <2>2. externals'[r.op] = externals[r.op]
    BY <1>1, <1>2, <1>6, <2>1, RecordFields DEF ExternalTypeOK
  <2>. QED  BY <1>1, <2>1, <2>2 DEF Counted, Vouched
<1>8. step' \in {"commit", "abort", "give_up"}
  BY DEF WriteRecord, RestoreRecord, Continue
<1>. QED  BY <1>1, <1>3, <1>5, <1>6, <1>7, <1>8 DEF AnswerTrue

\* The steps that write the receipt of the record at hand.
LEMMA HistoryWritesKept ==
    ASSUME ExternalInv, NEW outcome \in Outcomes,
           \/ BeginRecord(outcome) \/ CommitRecord(outcome)
           \/ AbortWrite(outcome) \/ AbortCommit(outcome)
    PROVE  WellFiled' /\ OnItsWay' /\ AnswerTrue'
<1>. USE DEF ExternalInv
<1>. DEFINE op == call.id.op
<1>1. /\ op \in Externals /\ call.digest = call.id /\ call.id \in ExternalRecord
      /\ call.old # NoRecord => call.old.op = op
      /\ call.old \in ExternalRecord \cup {NoRecord}
      /\ externals' = externals /\ call' = call /\ told' = told
  BY RecordFields
     DEF BeginRecord, CommitRecord, AbortWrite, AbortCommit, Begin, Commit, Abort, extVars,
         WellFiled, ExternalTypeOK, OpTypeOK, ExternalCalls
<1>2. /\ receipts' = [receipts EXCEPT ![call.id] = receipt']
      /\ receipts \in [ExternalRecord -> Receipts(ExternalRecord) \cup {NoReceipt}]
  BY <1>1
     DEF BeginRecord, CommitRecord, AbortWrite, AbortCommit, Begin, Commit, Abort, SetReceipt,
         receipt, ExternalTypeOK, OpTypeOK
<1>3. WellFiled'
  BY <1>1 DEF WellFiled, BeginRecord, CommitRecord, AbortWrite, AbortCommit, Begin, Commit, Abort
<1>4. \A r \in ExternalRecord : r # call.id => Vouched(r)' = Vouched(r)
  BY <1>1, <1>2 DEF Vouched
<1>5. /\ Vouched(call.id) <=> receipt = Stamp(call.digest, "committed")
      /\ Vouched(call.id)' <=> receipt' = Stamp(call.digest, "committed")
  BY <1>1 DEF Vouched, receipt
<1>6. \A s, t \in Statuses : s # t => Stamp(call.digest, s) # Stamp(call.digest, t)
  BY DEF Stamp
<1>7. CASE BeginRecord(outcome)
  <2>1. ~Vouched(call.id) /\ ~Vouched(call.id)'
    <3>. USE <1>1, <1>2, <1>7 DEF BeginRecord, Begin, Startable, SetReceipt, receipt, Written
    <3>1. receipt # Stamp(call.digest, "committed")
      BY <1>6, NoRecordAssumption DEF Statuses, Receipts, Stamp
    <3>2. receipt' \in {receipt, Stamp(call.digest, "started")}
      OBVIOUS
    <3>. QED  BY <1>5, <1>6, <3>1, <3>2 DEF Statuses
  <2>2. Counted' = Counted
    BY <1>1, <1>4, <2>1 DEF Counted
  <2>3. ~OldCounts'
    BY <1>1, <1>4, <1>7, <2>1 DEF OldCounts, OnItsWay, BeginRecord, Begin
  <2>4. \A r \in Counted : r.op # op
    BY <1>1, <1>7, NoRecordAssumption
       DEF Counted, OnItsWay, OldCounts, BeginRecord, Begin
  <2>5. step' = "write" => receipt' = Stamp(call.digest, "started")
    BY <1>1, <1>2, <1>7
       DEF BeginRecord, Begin, SetReceipt, Continue, Failed, Written, receipt
  <2>6. OnItsWay'
    BY <1>1, <1>7, <2>3, <2>5
       DEF OnItsWay, BeginRecord, Begin, Continue
  <2>7. answer' \in {"none", "error"} /\ step' \in {"write", "release"}
        /\ \A r \in told : r.op # op
    BY <1>7 DEF BeginRecord, Begin, Continue, OnItsWay, AnswerTrue
  <2>. QED  BY <1>1, <1>3, <2>2, <2>3, <2>4, <2>6, <2>7 DEF AnswerTrue
<1>8. CASE CommitRecord(outcome)
  <2>1. /\ ~Vouched(call.id) /\ externals[op] = call.digest
        /\ receipt' = Written(outcome, receipt, Stamp(call.digest, "committed"))
    BY <1>1, <1>2, <1>5, <1>6, <1>8
       DEF OnItsWay, CommitRecord, Commit, Statuses, SetReceipt, receipt
  <2>2. Counted \subseteq Counted'
    BY <1>1, <1>4, <2>1 DEF Counted
  <2>3. call.old = call.digest \/ ~OldCounts'
    BY <1>1, <1>4, <1>8 DEF OldCounts, OnItsWay, CommitRecord, Commit
  <2>4. step' = "release" => answer' = "ok" /\ Vouched(call.id)'
    BY <1>5, <1>8, <2>1 DEF CommitRecord, Commit, Failed, Written, Outcomes
  <2>5. step' # "release" => step' = "restore" /\ answer' = "error"
    BY <1>8 DEF CommitRecord, Commit
  <2>6. OnItsWay'
    BY <1>1, <2>1, <2>3, <2>4, <2>5 DEF OnItsWay
  <2>7. \A r \in told : r.op # op
    BY <1>8 DEF CommitRecord, Commit, AnswerTrue
  <2>8. step' = "release" /\ call'.digest.status \in Results => call'.digest \in Counted'
    BY <1>1, <2>1, <2>4 DEF Counted
  <2>. QED  BY <1>1, <1>3, <2>2, <2>4, <2>5, <2>6, <2>7, <2>8 DEF AnswerTrue
<1>9. CASE AbortWrite(outcome) \/ AbortCommit(outcome)
  <2>1. ~Vouched(call.id) /\ ~Vouched(call.id)'
    <3>1. /\ receipt = Stamp(call.digest, "started")
          /\ receipt' \in {receipt, Stamp(call.digest, "aborted")}
      BY <1>1, <1>2, <1>9
         DEF AbortWrite, AbortCommit, Abort, InProgressFor, SetReceipt, receipt, Written
    <3>. QED  BY <1>5, <1>6, <3>1 DEF Statuses
  <2>2. Counted' = Counted
    BY <1>1, <1>4, <2>1 DEF Counted
  <2>3. ~OldCounts /\ ~OldCounts'
    BY <1>1, <1>4, <1>9, <2>1 DEF OldCounts, OnItsWay, AbortWrite, AbortCommit, Abort
  <2>4. step' = "release" /\ answer' \in {"error", "recovery_unknown"}
    BY <1>9 DEF AbortWrite, AbortCommit, Abort, OnItsWay
  <2>5. answer' = "error" => externals[op] \in {call.old, call.digest}
    BY <1>9 DEF AbortWrite, AbortCommit, Abort, OnItsWay
  <2>6. answer' = "error" => \A r \in Counted : r.op # op
    BY <1>1, <2>1, <2>3, <2>5, NoRecordAssumption DEF Counted, OldCounts
  <2>7. OnItsWay'
    BY <2>4 DEF OnItsWay
  <2>8. told' \subseteq Counted'
    BY <1>1, <2>2 DEF AnswerTrue
  <2>. QED  BY <1>1, <1>3, <2>2, <2>3, <2>4, <2>6, <2>7, <2>8 DEF AnswerTrue
<1>. QED  BY <1>7, <1>8, <1>9

\* Refusals, the end of a call, crashes and the aborts of other commands.
LEMMA OtherStepsKept ==
    ASSUME ExternalInv,
           \/ BeginRecordRefused \/ AbortCommitRefused
           \/ ReleaseRecord \/ ReleaseRecordFails \/ CrashRecord \/ ReconcileExternalLock
           \/ \E r \in ExternalRecord : AbortHistory(r)
    PROVE  WellFiled' /\ OnItsWay' /\ AnswerTrue'
<1>. USE DEF ExternalInv
<1>1. externals' = externals
  BY DEF BeginRecordRefused, AbortCommitRefused, ReleaseRecord, ReleaseRecordFails, CrashRecord,
         ReconcileExternalLock, AbortHistory, extVars
<1>2. CASE BeginRecordRefused \/ AbortCommitRefused
  <2>1. /\ step' = "release" /\ answer' \in {"error", "recovery_unknown"}
        /\ call' = call /\ told' = told /\ receipts' = receipts
        /\ answer' = "error" => step = "begin"
    BY <1>2
       DEF BeginRecordRefused, AbortCommitRefused, BeginRefused, AbortRefused, extVars
  <2>2. Counted' = Counted /\ OldCounts' = OldCounts
    BY <1>1, <2>1 DEF Counted, Vouched, OldCounts
  <2>3. step = "begin" => ~OldCounts /\ \A r \in Counted : r.op # call.id.op
    BY NoRecordAssumption DEF OnItsWay, Counted, OldCounts
  <2>. QED  BY <1>1, <2>1, <2>2, <2>3 DEF WellFiled, OnItsWay, AnswerTrue
<1>3. CASE ReleaseRecord \/ ReleaseRecordFails \/ CrashRecord
  <2>1. receipts' = receipts /\ step' = "idle"
    BY <1>3
       DEF ReleaseRecord, ReleaseRecordFails, CrashRecord, Release, ReleaseFails, Crash, End
  <2>2. Counted' = Counted
    BY <1>1, <2>1 DEF Counted, Vouched
  <2>3. told' \subseteq Counted
    BY <1>3
       DEF AnswerTrue, ReleaseRecord, ReleaseRecordFails, CrashRecord, Release, extVars
  <2>. QED  BY <1>1, <2>1, <2>2, <2>3 DEF WellFiled, OnItsWay, AnswerTrue
<1>4. CASE ReconcileExternalLock
  BY <1>1, <1>4
     DEF ReconcileExternalLock, ReconcileLock, extVars, WellFiled, OnItsWay, AnswerTrue,
         Counted, Vouched, OldCounts, receipt
<1>5. ASSUME NEW r \in ExternalRecord, AbortHistory(r)
      PROVE  WellFiled' /\ OnItsWay' /\ AnswerTrue'
  <2>1. step = "idle" /\ step' = "idle" /\ told' = told
        /\ receipts' = [receipts EXCEPT ![r] = Stamp(@.digest, "aborted")]
        /\ receipts[r].status = "started"
    BY <1>5 DEF AbortHistory, AbortOperation, extVars
  <2>2. \A c \in Counted : c \in Counted'
    BY <1>1, <2>1 DEF Counted, Vouched, Stamp
  <2>. QED  BY <1>1, <2>1, <2>2 DEF WellFiled, OnItsWay, AnswerTrue
<1>. QED  BY <1>2, <1>3, <1>4, <1>5

\* The invariant of the journal, under every step.
LEMMA ExternalKept == ExternalInv /\ [ExternalNext]_<<opVars, extVars>> => ExternalInv'
<1>1. ExternalInv /\ ExternalNext => ExternalInv'
  <2>. SUFFICES ASSUME ExternalInv, ExternalNext  PROVE  ExternalInv'
    OBVIOUS
  <2>1. ExternalTypeOK'
    BY ExternalTypesKept DEF ExternalInv
  <2>2. WellFiled' /\ OnItsWay' /\ AnswerTrue'
    BY AskKept, RecordWritesKept, HistoryWritesKept, OtherStepsKept
       DEF ExternalNext, ExternalWrites
  <2>. QED  BY <2>1, <2>2 DEF ExternalInv
<1>2. ExternalInv /\ UNCHANGED <<opVars, extVars>> => ExternalInv'
  BY DEF ExternalInv, ExternalTypeOK, OpTypeOK, WellFiled, OnItsWay, AnswerTrue, Counted,
         Vouched, OldCounts, receipt, opVars, extVars
<1>. QED  BY <1>1, <1>2

\* The invariant of the journal: what a call replaces does not count, what it
\* answers is so, and what was told counts.
THEOREM JournalInvariant == ExternalSpec => []ExternalInv
BY ExternalInitial, ExternalKept, PTL DEF ExternalSpec

\* A result that prepare or update has returned stays on file and counts for
\* good: for any number of operations, records, failing writes and crashes.
THEOREM ToldStaysTrue == ExternalSpec => []ToldIsFinal
<1>1. ExternalInv => ToldIsFinal
  BY DEF ExternalInv, AnswerTrue, ToldIsFinal
<1>. QED  BY <1>1, JournalInvariant, PTL

\* A call that ends in a plain error has left its operation without a result.
LEMMA ErrorsLeaveNothing == ExternalInv => ErrorBringsNothing
<1>. SUFFICES ASSUME ExternalInv, step = "release", answer = "error"
              PROVE  {r \in Counted : r.op = call.id.op} =
                     {r \in {call.old} :
                         r # NoRecord /\ r.status \in Results /\ Vouched(r)}
  BY DEF ErrorBringsNothing
<1>1. ~OldCounts /\ \A r \in Counted : r.op # call.id.op
  BY DEF ExternalInv, AnswerTrue
<1>. QED  BY <1>1 DEF OldCounts

\* A call that ends in a plain error has brought no result about and taken none
\* away.
THEOREM ErrorsBringNothing == ExternalSpec => NoResultByError
BY ErrorsLeaveNothing, JournalInvariant, PTL DEF NoResultByError

\* No step gives up a result that counts, but the rollback of the very call that
\* was recording it.
LEMMA ResultsKeptByStep ==
    ExternalInv /\ [ExternalNext]_<<opVars, extVars>> => [ResultsKept]_<<opVars, extVars>>
<1>. SUFFICES ASSUME ExternalInv, ExternalNext, NEW r \in Counted,
                     r \notin Counted'
              PROVE  step = "restore" /\ r = call.digest
  BY DEF ResultsKept
<1>. USE DEF ExternalInv
<1>1. r \in ExternalRecord /\ r.status \in Results /\ externals[r.op] = r /\ Vouched(r)
      /\ r.op \in Externals
  BY RecordFields DEF Counted
<1>2. externals'[r.op] # r \/ ~Vouched(r)'
  BY <1>1 DEF Counted
<1>3. receipts[r] = Stamp(r, "committed")
  BY <1>1 DEF Vouched
<1>4. ASSUME NEW outcome \in Outcomes, WriteRecord(outcome) \/ RestoreRecord(outcome)
      PROVE  step = "restore" /\ r = call.digest
  <2>1. /\ receipts' = receipts
        /\ externals' = [externals EXCEPT ![call.id.op] = externals'[call.id.op]]
    BY <1>4 DEF WriteRecord, RestoreRecord, ExternalTypeOK
  <2>2. r.op = call.id.op
    BY <1>1, <1>2, <2>1 DEF Vouched, ExternalTypeOK
  <2>3. step # "write"
    BY <1>1, <2>2, NoRecordAssumption DEF OnItsWay, OldCounts
  <2>. QED  BY <1>1, <1>4, <2>2, <2>3 DEF WriteRecord, RestoreRecord, OnItsWay
<1>5. ASSUME NEW outcome \in Outcomes,
             \/ BeginRecord(outcome) \/ CommitRecord(outcome)
             \/ AbortWrite(outcome) \/ AbortCommit(outcome)
      PROVE  FALSE
  <2>1. externals' = externals /\ receipts'[r] # receipts[r]
    BY <1>1, <1>2, <1>5
       DEF BeginRecord, CommitRecord, AbortWrite, AbortCommit, extVars, Vouched
  <2>2. r = call.id
    <3>1. \E v : receipts' = [receipts EXCEPT ![call.id] = v]
      BY <1>5
         DEF BeginRecord, CommitRecord, AbortWrite, AbortCommit, Begin, Commit, Abort,
             SetReceipt
    <3>2. receipts = [x \in ExternalRecord |-> receipts[x]]
      BY DEF ExternalTypeOK, OpTypeOK
    <3>. QED  BY <1>1, <2>1, <3>1, <3>2
  <2>3. call.digest = call.id
    BY <1>5
       DEF BeginRecord, CommitRecord, AbortWrite, AbortCommit, Begin, Commit, Abort,
           WellFiled
  <2>4. ~CommitRecord(outcome)
    BY <1>3, <2>1, <2>2, <2>3
       DEF CommitRecord, Commit, SetReceipt, Written, receipt, ExternalTypeOK, OpTypeOK
  <2>5. receipt = Stamp(call.digest, "committed")
    BY <1>3, <2>2, <2>3 DEF receipt
  <2>. QED
    BY <1>1, <1>5, <2>2, <2>3, <2>4, <2>5, NoRecordAssumption
       DEF BeginRecord, AbortWrite, AbortCommit, Begin, Abort, Startable, InProgressFor,
           Receipts, Statuses, Stamp
<1>6. ASSUME NEW i \in ExternalRecord, AbortHistory(i)
      PROVE  FALSE
  BY <1>1, <1>2, <1>3, <1>6 DEF AbortHistory, AbortOperation, extVars, Vouched, Stamp
<1>7. ASSUME UNCHANGED <<receipts, externals>>
      PROVE  FALSE
  BY <1>1, <1>2, <1>7 DEF Vouched
<1>8. ASSUME \/ ExternalAsk \/ BeginRecordRefused \/ AbortCommitRefused
             \/ ReleaseRecord \/ ReleaseRecordFails \/ CrashRecord
             \/ ReconcileExternalLock
      PROVE  UNCHANGED <<receipts, externals>>
  BY <1>8
     DEF ExternalAsk, PrepareAgain, Prepare, UpdateAgain, Update, Enter,
         BeginRecordRefused, AbortCommitRefused, BeginRefused, AbortRefused, ReleaseRecord,
         ReleaseRecordFails, CrashRecord, ReconcileExternalLock, Release, ReleaseFails, Crash,
         ReconcileLock, extVars
<1>. QED  BY <1>4, <1>5, <1>6, <1>7, <1>8 DEF ExternalNext, ExternalWrites

\* A result that counts is withdrawn by nothing but the rollback of the very
\* call that was recording it: no later call replaces it, and neither the abort
\* of a receipt nor a crash makes it unknown again.
THEOREM ResultsAreKept == ExternalSpec => ResultsStand
BY ResultsKeptByStep, JournalInvariant, PTL DEF ExternalSpec, ResultsStand

-------------------------------------------------------------------------------
(* RetryGate.tla: the operators on lists. *)

\* The lists of UpTo are the sequences that are not too long.
LEMMA UpToSeq ==
    ASSUME NEW S, NEW n \in Nat, NEW s
    PROVE  s \in UpTo(S, n) <=> s \in Seq(S) /\ Len(s) <= n
<1>1. ASSUME s \in UpTo(S, n)
      PROVE  s \in Seq(S) /\ Len(s) <= n
  <2>1. PICK k \in 0 .. n : s \in [1 .. k -> S]
    BY <1>1 DEF UpTo
  <2>2. s \in Seq(S) /\ Len(s) = k
    BY <2>1
  <2>. QED  BY <2>2
<1>2. ASSUME s \in Seq(S), Len(s) <= n
      PROVE  s \in UpTo(S, n)
  <2>1. Len(s) \in 0 .. n /\ s \in [1 .. Len(s) -> S]
    BY <1>2
  <2>. QED  BY <2>1 DEF UpTo
<1>. QED  BY <1>1, <1>2

\* The most recent elements are the end of the list.
LEMMA RecentIsEnd ==
    ASSUME NEW S, NEW s \in Seq(S), NEW n \in Nat \ {0}
    PROVE  LET r == Recent(s, n)
           IN  /\ r \in Seq(S)
               /\ Len(r) = IF Len(s) > n THEN n ELSE Len(s)
               /\ \A i \in 1 .. Len(r) : r[i] = s[i + (Len(s) - Len(r))]
<1>. DEFINE from == IF Len(s) > n THEN Len(s) - n + 1 ELSE 1
<1>1. from \in Int /\ Len(s) \in Int /\ \A i \in from .. Len(s) : s[i] \in S
  OBVIOUS
<1>2. /\ SubSeq(s, from, Len(s)) \in Seq(S)
      /\ Len(SubSeq(s, from, Len(s))) = IF from <= Len(s) THEN Len(s) - from + 1 ELSE 0
      /\ \A i \in 1 .. Len(s) - from + 1 : SubSeq(s, from, Len(s))[i] = s[from + i - 1]
  <2>. HIDE DEF from
  <2>. QED  BY <1>1, SubSeqProperties
<1>3. Recent(s, n) = SubSeq(s, from, Len(s))
  BY DEF Recent
<1>. DEFINE r == Recent(s, n)
<1>. HIDE DEF r
<1>4. Len(r) = IF Len(s) > n THEN n ELSE Len(s)
  <2>1. r = SubSeq(s, from, Len(s))
    BY <1>3 DEF r
  <2>2. Len(r) = IF from <= Len(s) THEN Len(s) - from + 1 ELSE 0
    BY ONLY <1>2, <2>1
  <2>3. Len(s) \in Nat
    OBVIOUS
  <2>4. CASE Len(s) > n
    <3>1. from = Len(s) - n + 1
      BY <2>4
    <3>. QED  BY ONLY <2>2, <2>3, <2>4, <3>1, n \in Nat \ {0}
  <2>5. CASE ~(Len(s) > n)
    <3>1. from = 1
      BY <2>5
    <3>. QED  BY ONLY <2>2, <2>3, <2>5, <3>1
  <2>. QED  BY <2>4, <2>5
<1>5. from = Len(s) - Len(r) + 1 /\ Len(r) \in Nat
  BY <1>4
<1>6. \A i \in 1 .. Len(r) : r[i] = s[i + (Len(s) - Len(r))]
  <2>. SUFFICES ASSUME NEW i \in 1 .. Len(r)
                PROVE  r[i] = s[i + (Len(s) - Len(r))]
    OBVIOUS
  <2>1. r[i] = s[from + i - 1]
    BY <1>1, <1>2, <1>3, <1>5 DEF r
  <2>2. from + i - 1 = i + (Len(s) - Len(r))
    BY <1>5
  <2>. QED  BY <2>1, <2>2
<1>. QED  BY <1>2, <1>3, <1>4, <1>6 DEF r

\* A list has finitely many positions, and so few of a kind.
LEMMA CountIsNat ==
    ASSUME NEW S, NEW s \in Seq(S), NEW like
    PROVE  /\ IsFiniteSet({k \in DOMAIN s : s[k] \in like})
           /\ Count(s, like) \in Nat
<1>1. DOMAIN s = 1 .. Len(s) /\ Len(s) \in Nat
  OBVIOUS
<1>2. IsFiniteSet(DOMAIN s)
  BY <1>1, FS_Interval
<1>3. IsFiniteSet({k \in DOMAIN s : s[k] \in like})
  BY <1>2, FS_Subset
<1>. QED  BY <1>3, FS_CardinalityType DEF Count

\* Among the most recent elements there are no more of a kind than in the list.
LEMMA RecentCount ==
    ASSUME NEW S, NEW s \in Seq(S), NEW n \in Nat \ {0}, NEW like
    PROVE  Count(Recent(s, n), like) <= Count(s, like)
<1>. DEFINE r == Recent(s, n)
            A == {k \in DOMAIN r : r[k] \in like}
            B == {k \in DOMAIN s : s[k] \in like}
            f == [k \in A |-> k + (Len(s) - Len(r))]
<1>1. /\ r \in Seq(S) /\ Len(r) <= Len(s)
      /\ \A i \in 1 .. Len(r) : r[i] = s[i + (Len(s) - Len(r))]
  BY RecentIsEnd
<1>2. DOMAIN r = 1 .. Len(r) /\ DOMAIN s = 1 .. Len(s) /\ Len(r) \in Nat /\ Len(s) \in Nat
  BY <1>1
<1>3. \A k \in A : k + (Len(s) - Len(r)) \in B
  <2>. SUFFICES ASSUME NEW k \in A  PROVE k + (Len(s) - Len(r)) \in B
    OBVIOUS
  <2>1. k \in 1 .. Len(r) /\ r[k] \in like
    BY <1>2
  <2>2. k + (Len(s) - Len(r)) \in 1 .. Len(s)
    BY <1>1, <1>2, <2>1
  <2>. QED  BY <1>1, <1>2, <2>1, <2>2
<1>4. f \in Injection(A, B)
  <2>1. f \in [A -> B]
    BY <1>3
  <2>2. \A j, k \in A : f[j] = f[k] => j = k
    BY <1>2
  <2>. QED  BY <2>1, <2>2 DEF Injection, IsInjective
<1>5. IsFiniteSet(B)
  BY CountIsNat
<1>. QED  BY <1>4, <1>5, FS_Injection DEF Count

\* What is kept of a list is all of it, or as much as is ever kept.
LEMMA RecentIsAll ==
    ASSUME NEW S, NEW s \in Seq(S), NEW n \in Nat \ {0}
    PROVE  Recent(s, n) = s \/ Len(Recent(s, n)) = n
<1>1. CASE Len(s) > n
  BY <1>1, RecentIsEnd
<1>2. CASE ~(Len(s) > n)
  <2>1. /\ Recent(s, n) \in Seq(S) /\ Len(Recent(s, n)) = Len(s)
        /\ \A i \in 1 .. Len(s) : Recent(s, n)[i] = s[i + (Len(s) - Len(s))]
    BY <1>2, RecentIsEnd
  <2>2. \A i \in 1 .. Len(s) : i + (Len(s) - Len(s)) = i
    OBVIOUS
  <2>3. \A i \in 1 .. Len(s) : Recent(s, n)[i] = s[i]
    BY <2>1, <2>2
  <2>. QED  BY <2>1, <2>3
<1>. QED  BY <1>1, <1>2

\* What is kept of a list with few of a kind has few of them.
LEMMA RecentFailures ==
    ASSUME NEW s \in Seq(FailedAttempt), NEW n \in Nat \ {0}, ~RepeatedFailures(s)
    PROVE  ~RepeatedFailures(Recent(s, n))
<1>1. \A like : /\ Count(Recent(s, n), like) <= Count(s, like)
                 /\ Count(s, like) \in Nat
                 /\ Count(Recent(s, n), like) \in Nat
  BY RecentCount, CountIsNat, RecentIsEnd
<1>2. SignatureLimit \in Nat /\ PhaseLimit \in Nat
  BY LimitsAssumption
<1>3. ASSUME NEW like, NEW limit \in Nat, Count(Recent(s, n), like) >= limit
      PROVE  Count(s, like) >= limit
  BY <1>1, <1>3
<1>4. \A g \in Signatures : ~(Count(s, [phase : Phases, signature : {g}]) >= SignatureLimit)
  BY DEF RepeatedFailures
<1>5. \A p \in Phases : ~(Count(s, [phase : {p}, signature : Signatures]) >= PhaseLimit)
  BY DEF RepeatedFailures
<1>. QED  BY <1>2, <1>3, <1>4, <1>5, Zenon DEF RepeatedFailures

\* Failures that repeat go on repeating when attempts are added.
LEMMA MoreFailures ==
    ASSUME NEW s \in Seq(FailedAttempt), NEW t \in Seq(FailedAttempt), RepeatedFailures(s)
    PROVE  RepeatedFailures(s \o t)
<1>1. /\ s \o t \in Seq(FailedAttempt) /\ DOMAIN s \subseteq DOMAIN (s \o t)
      /\ \A k \in DOMAIN s : (s \o t)[k] = s[k]
  OBVIOUS
<1>2. ASSUME NEW like
      PROVE  /\ Count(s, like) <= Count(s \o t, like)
             /\ Count(s, like) \in Nat /\ Count(s \o t, like) \in Nat
  <2>1. {k \in DOMAIN s : s[k] \in like}
           \in SUBSET {k \in DOMAIN (s \o t) : (s \o t)[k] \in like}
    BY <1>1
  <2>2. /\ IsFiniteSet({k \in DOMAIN (s \o t) : (s \o t)[k] \in like})
        /\ Count(s, like) \in Nat /\ Count(s \o t, like) \in Nat
    BY <1>1, CountIsNat
  <2>. QED  BY <2>1, <2>2, FS_Subset DEF Count
<1>3. SignatureLimit \in Nat /\ PhaseLimit \in Nat
  BY LimitsAssumption
<1>4. ASSUME NEW like, NEW limit \in Nat, Count(s, like) >= limit
      PROVE  Count(s \o t, like) >= limit
  BY <1>2, <1>4
<1>5. CASE \E g \in Signatures :
              Count(s, [phase : Phases, signature : {g}]) >= SignatureLimit
  BY <1>3, <1>4, <1>5, Zenon DEF RepeatedFailures
<1>6. CASE \E p \in Phases :
              Count(s, [phase : {p}, signature : Signatures]) >= PhaseLimit
  BY <1>3, <1>4, <1>6, Zenon DEF RepeatedFailures
<1>. QED  BY <1>5, <1>6, Zenon DEF RepeatedFailures

\* No attempts, no repeated failures.
LEMMA EmptyFailures == ~RepeatedFailures(<<>>)
<1>1. \A like : Count(<<>>, like) = 0
  <2>1. \A like : {k \in DOMAIN <<>> : <<>>[k] \in like} = {}
    OBVIOUS
  <2>. QED  BY <2>1, FS_EmptySet DEF Count
<1>2. SignatureLimit \in Nat \ {0} /\ PhaseLimit \in Nat \ {0}
  BY LimitsAssumption
<1>3. \A like : ~(Count(<<>>, like) >= SignatureLimit) /\ ~(Count(<<>>, like) >= PhaseLimit)
  BY <1>1, <1>2
<1>. QED  BY <1>3, Zenon DEF RepeatedFailures

\* The pairs that are not known yet are pairs of the list.
LEMMA UnseenIsSeq ==
    ASSUME NEW S, NEW pairs \in Seq(S), NEW known
    PROVE  Unseen(pairs, known) \in Seq(S)
<1>. DEFINE kept == {k \in DOMAIN pairs : ~Contains(known, pairs[k])}
            upto(k) == {j \in kept : j <= k}
            c == Cardinality(kept)
            rank == [k \in kept |-> Cardinality(upto(k))]
<1>1. kept \subseteq 1 .. Len(pairs) /\ Len(pairs) \in Nat
  OBVIOUS
<1>2. IsFiniteSet(kept) /\ c \in Nat
  <2>1. IsFiniteSet(kept)
    BY <1>1, FS_Interval, FS_Subset
  <2>. QED  BY <2>1, FS_CardinalityType
<1>3. \A k \in kept : IsFiniteSet(upto(k)) /\ Cardinality(upto(k)) \in 1 .. c
  <2>. SUFFICES ASSUME NEW k \in kept
                PROVE  IsFiniteSet(upto(k)) /\ Cardinality(upto(k)) \in 1 .. c
    OBVIOUS
  <2>1. upto(k) \in SUBSET kept /\ k \in upto(k)
    BY <1>1
  <2>2. IsFiniteSet(upto(k)) /\ Cardinality(upto(k)) <= c /\ Cardinality(upto(k)) \in Nat
    BY <1>2, <2>1, FS_Subset, FS_CardinalityType
  <2>3. Cardinality(upto(k)) # 0
    BY <2>1, <2>2, FS_EmptySet
  <2>. QED  BY <1>2, <2>2, <2>3
<1>4. rank \in Injection(kept, 1 .. c)
  <2>1. rank \in [kept -> 1 .. c]
    BY <1>3
  <2>2. ASSUME NEW j \in kept, NEW k \in kept, j < k
        PROVE  rank[j] # rank[k]
    <3>1. upto(j) \in SUBSET upto(k) /\ k \in upto(k) /\ k \notin upto(j)
      BY <1>1, <2>2
    <3>. QED  BY <1>3, <3>1, FS_Subset
  <2>3. \A j, k \in kept : rank[j] = rank[k] => j = k
    BY <1>1, <2>2
  <2>. QED  BY <2>1, <2>3 DEF Injection, IsInjective
<1>5. rank \in Surjection(kept, 1 .. c)
  <2>1. IsFiniteSet(1 .. c) /\ Cardinality(1 .. c) = c
    BY <1>2, FS_Interval
  <2>. QED  BY <1>4, <2>1, FS_Injection
<1>6. \A n \in 1 .. c : \E k \in kept : Cardinality(upto(k)) = n
  BY <1>5 DEF Surjection
<1>7. \A n \in 1 .. c : pairs[CHOOSE k \in kept : Cardinality(upto(k)) = n] \in S
  BY <1>1, <1>6
<1>. DEFINE unseen == [n \in 1 .. c |->
                          pairs[CHOOSE k \in kept : Cardinality(upto(k)) = n]]
<1>8. Unseen(pairs, known) = unseen
  BY DEF Unseen
<1>9. unseen \in [1 .. c -> S]
  BY <1>7
<1>. HIDE DEF unseen, c
<1>. QED  BY <1>2, <1>8, <1>9

\* A text of the snapshot shows what its gate rests on.
Justified(s) ==
    /\ s.gate = "retry" => ~RepeatedFailures(s.attempts)
    /\ s.gate = "verification_required" => s.diagnosis # <<>>
    /\ s.gate = "diagnosis" /\ s.result # "fail"
         => RepeatedFailures(s.attempts) \/ Len(s.attempts) = MaxRecent

\* The gate is shut: a verification is due, or failures repeat.
Shut(s) == \/ s.gate = "verification_required"
           \/ s.gate = "diagnosis" /\ RepeatedFailures(s.attempts)

\* A snapshot that follows another one gives up no verification that is due, and
\* opens a gate that is shut only when a verification has passed.
Follows(s, t) ==
    /\ s.gate = "verification_required" /\ t.gate # s.gate
         => <<t.gate, t.result>> \in {<<"retry", "pass">>, <<"diagnosis", "fail">>}
    /\ Shut(s) /\ t.gate = "retry" => t.result = "pass"
    /\ t.gate \in Gates \ {"none"}

\* A gate that has to see a pass after a snapshot is shut in it.
LEMMA OwedWhenShut ==
    ASSUME NEW s, NEW t, NEW d \in Dues, Justified(t), Follows(s, t), d = "pass" => Shut(s)
    PROVE  Owed(d, t) \in Dues /\ (Owed(d, t) = "pass" => Shut(t))
<1>1. CASE t.result = "pass"
  BY <1>1 DEF Owed, Dues
<1>2. CASE t.result # "pass" /\ t.gate = "retry"
  BY <1>2 DEF Owed, Follows
<1>3. CASE t.result # "pass" /\ t.gate # "retry"
  <2>. DEFINE waived == /\ t.gate = "diagnosis" /\ ~RepeatedFailures(t.attempts)
                        /\ t.result = "fail" \/ Len(t.attempts) = MaxRecent
  <2>1. Owed(d, t) = IF waived THEN "waived" ELSE "pass"
    BY <1>3 DEF Owed
  <2>2. CASE waived
    BY <2>1, <2>2 DEF Dues
  <2>3. CASE ~waived
    <3>1. t.gate = "diagnosis" => RepeatedFailures(t.attempts)
      BY <2>3 DEF Justified
    <3>2. t.gate \in {"diagnosis", "verification_required"}
      BY <1>3 DEF Follows, Gates
    <3>3. Shut(t)
      BY <3>1, <3>2 DEF Shut
    <3>. QED  BY <2>1, <2>3, <3>3 DEF Dues
  <2>. QED  BY <2>2, <2>3
<1>. QED  BY <1>1, <1>2, <1>3

\* What is kept of a list of attempts, or of pairs, is again such a list.
LEMMA RecentInUpTo ==
    ASSUME NEW S, NEW s \in Seq(S)
    PROVE  Recent(s, MaxRecent) \in UpTo(S, MaxRecent)
<1>1. MaxRecent \in Nat \ {0}
  BY LimitsAssumption
<1>2. /\ Recent(s, MaxRecent) \in Seq(S)
      /\ Len(Recent(s, MaxRecent)) = IF Len(s) > MaxRecent THEN MaxRecent ELSE Len(s)
  BY <1>1, RecentIsEnd
<1>3. Len(s) \in Nat
  OBVIOUS
<1>4. Len(Recent(s, MaxRecent)) <= MaxRecent
  BY <1>1, <1>2, <1>3
<1>. QED  BY <1>1, <1>2, <1>4, UpToSeq

\* The snapshot of a call is a snapshot, shows what its gate rests on, and
\* gives up no verification that is due.
LEMMA NextIsJustified ==
    ASSUME NEW prior \in Snapshot, Justified(prior),
           NEW new \in UpTo(FailedAttempt, MaxNew), NEW pairs \in UpTo(Diagnoses, MaxNew),
           NEW result \in VerificationResult, Accepts(prior, result)
    PROVE  LET next == NextSnapshot(prior, new, pairs, result)
           IN  next \in Snapshot /\ Justified(next) /\ Follows(prior, next)
<1>. DEFINE all == prior.attempts \o new
            unseen == Unseen(pairs, prior.diagnosis)
            gate == GateOf(prior, all)
            asks == result = "none" /\ gate = "diagnosis" /\ unseen # <<>>
            settled == result = "pass" \/ asks
            next == NextSnapshot(prior, new, pairs, result)
<1>1. MaxRecent \in Nat \ {0} /\ MaxNew \in Nat
  BY LimitsAssumption
<1>2. /\ prior.gate \in Gates /\ prior.attempts \in Seq(FailedAttempt)
      /\ prior.diagnosis \in Seq(Diagnoses) /\ prior.diagnosis \in UpTo(Diagnoses, MaxRecent)
  BY <1>1, UpToSeq DEF Snapshot
<1>3. new \in Seq(FailedAttempt) /\ pairs \in Seq(Diagnoses)
  BY <1>1, UpToSeq
<1>4. all \in Seq(FailedAttempt)
  BY <1>2, <1>3
<1>5. unseen \in Seq(Diagnoses) /\ prior.diagnosis \o unseen \in Seq(Diagnoses)
  <2>1. unseen \in Seq(Diagnoses)
    BY <1>3, UnseenIsSeq
  <2>. HIDE DEF unseen
  <2>. QED  BY <1>2, <2>1
<1>6. Kept(all, settled) \in UpTo(FailedAttempt, MaxRecent)
  <2>1. <<>> \in UpTo(FailedAttempt, MaxRecent)
    <3>1. <<>> \in Seq(FailedAttempt) /\ Len(<<>>) <= MaxRecent
      BY <1>1
    <3>. QED  BY <1>1, <3>1, UpToSeq
  <2>2. Recent(all, MaxRecent) \in UpTo(FailedAttempt, MaxRecent)
    BY <1>4, RecentInUpTo
  <2>. QED  BY <2>1, <2>2, Zenon DEF Kept
<1>7. Recent(prior.diagnosis \o unseen, MaxRecent) \in UpTo(Diagnoses, MaxRecent)
  BY <1>5, RecentInUpTo
<1>8. asks => Recent(prior.diagnosis \o unseen, MaxRecent) # <<>>
  <2>. SUFFICES ASSUME asks  PROVE  Recent(prior.diagnosis \o unseen, MaxRecent) # <<>>
    OBVIOUS
  <2>. DEFINE known == prior.diagnosis \o unseen
  <2>1. unseen # <<>>
    OBVIOUS
  <2>2. Len(known) > 0 /\ Len(known) \in Nat
    <3>. HIDE DEF unseen
    <3>. QED  BY <1>2, <1>5, <2>1
  <2>3. Len(Recent(known, MaxRecent)) = IF Len(known) > MaxRecent THEN MaxRecent ELSE Len(known)
    BY <1>1, <1>5, RecentIsEnd
  <2>. HIDE DEF known
  <2>4. Len(Recent(known, MaxRecent)) # 0
    BY <1>1, <2>2, <2>3
  <2>5. Recent(known, MaxRecent) # <<>>
    BY <2>4
  <2>. QED  BY <2>5 DEF known
<1>9. gate \in Gates \ {"none"}
  BY DEF GateOf, Gates
<1>10. gate = "retry" => ~RepeatedFailures(Recent(all, MaxRecent))
  BY <1>1, <1>4, RecentFailures DEF GateOf
<1>11. gate = "verification_required" => prior.gate = "verification_required"
  BY DEF GateOf
<1>12. prior.gate = "verification_required" => gate = "verification_required"
  BY DEF GateOf
<1>13. /\ next.gate = CASE result = "pass" -> "retry"
                        [] result = "fail" -> "diagnosis"
                        [] asks -> "verification_required"
                        [] OTHER -> gate
       /\ next.attempts = Kept(all, settled)
       /\ next.diagnosis = IF asks THEN Recent(prior.diagnosis \o unseen, MaxRecent)
                           ELSE prior.diagnosis
       /\ next.result = result
       /\ next = [gate |-> next.gate, attempts |-> next.attempts,
                  diagnosis |-> next.diagnosis, result |-> next.result]
  BY DEF NextSnapshot
<1>14. asks => result = "none" /\ gate = "diagnosis"
  OBVIOUS
<1>15. Kept(all, settled) = IF settled THEN <<>> ELSE Recent(all, MaxRecent)
  BY DEF Kept
<1>16. settled <=> (result = "pass" \/ asks)
  OBVIOUS
<1>21. gate = "diagnosis" => RepeatedFailures(all)
  BY DEF GateOf
<1>22. gate = "retry" => prior.gate # "verification_required" /\ ~RepeatedFailures(all)
  BY DEF GateOf
<1>23. RepeatedFailures(prior.attempts) => RepeatedFailures(all)
  BY <1>2, <1>3, MoreFailures
<1>. HIDE DEF gate, asks, settled, next, unseen, all
<1>17. /\ result = "pass" => next.gate = "retry"
       /\ result = "fail" => next.gate = "diagnosis"
       /\ result = "none" /\ asks => next.gate = "verification_required"
       /\ result = "none" /\ ~asks => next.gate = gate
       /\ result \in {"none", "pass", "fail"}
  BY <1>13, <1>14 DEF VerificationResult
<1>18. next \in Snapshot
  <2>1. next.gate \in Gates
    BY <1>9, <1>17 DEF Gates
  <2>2. next.diagnosis \in UpTo(Diagnoses, MaxRecent)
    BY <1>2, <1>7, <1>13
  <2>. QED  BY <1>6, <1>13, <2>1, <2>2 DEF Snapshot
<1>19. Justified(next)
  <2>1. ASSUME next.gate = "retry"  PROVE  ~RepeatedFailures(next.attempts)
    <3>1. CASE settled
      BY <1>13, <1>15, <3>1, EmptyFailures
    <3>2. CASE ~settled
      <4>1. gate = "retry"
        BY <1>16, <1>17, <2>1, <3>2
      <4>. QED  BY <1>10, <1>13, <1>15, <3>2, <4>1
    <3>. QED  BY <3>1, <3>2
  <2>2. ASSUME next.gate = "verification_required"  PROVE  next.diagnosis # <<>>
    <3>1. CASE asks
      BY <1>8, <1>13, <3>1
    <3>2. CASE ~asks
      <4>1. prior.gate = "verification_required"
        BY <1>11, <1>17, <2>2, <3>2
      <4>. QED  BY <1>13, <3>2, <4>1 DEF Justified
    <3>. QED  BY <3>1, <3>2
  <2>3. ASSUME next.gate = "diagnosis", next.result # "fail"
        PROVE  RepeatedFailures(next.attempts) \/ Len(next.attempts) = MaxRecent
    <3>1. result = "none" /\ ~asks /\ gate = "diagnosis" /\ ~settled
      BY <1>13, <1>16, <1>17, <2>3
    <3>2. next.attempts = Recent(all, MaxRecent) /\ RepeatedFailures(all)
      BY <1>13, <1>15, <1>21, <3>1
    <3>. QED  BY <1>1, <1>4, <3>2, RecentIsAll
  <2>. QED  BY <2>1, <2>2, <2>3 DEF Justified
<1>20. Follows(prior, next)
  <2>1. ASSUME Shut(prior), next.gate = "retry", result # "pass"  PROVE FALSE
    <3>1. result = "none" /\ ~asks /\ gate = "retry"
      BY <1>17, <2>1
    <3>2. prior.gate # "verification_required" /\ ~RepeatedFailures(all)
      BY <1>22, <3>1
    <3>. QED  BY <1>23, <2>1, <3>2 DEF Shut
  <2>2. next.gate \in Gates \ {"none"}
    BY <1>9, <1>17 DEF Gates
  <2>. QED  BY <1>12, <1>13, <1>14, <1>17, <2>1, <2>2 DEF Follows
<1>. QED  BY <1>18, <1>19, <1>20 DEF next

\* The snapshot on file and that of the call in flight show what their gates
\* rest on, a gate that has to see a pass is shut, and until it is written the one of the call follows the one on file.
SnapshotInv ==
    /\ SnapshotTypeOK
    /\ Justified(snapshot)
    /\ due = "pass" => Shut(snapshot)
    /\ step # "idle" => Justified(call.digest)
    /\ step \in {"begin", "write"} => Follows(snapshot, call.digest)

\* Every step of a call and of its environment keeps the invariant.
LEMMA SnapshotInvKept == SnapshotInv /\ SnapshotNext => SnapshotInv'
<1>. SUFFICES ASSUME SnapshotInv, SnapshotNext
              PROVE  SnapshotInv'
  OBVIOUS
<1>. USE DEF SnapshotInv, SnapshotTypeOK
<1>1. /\ "release" \in SnapshotSteps /\ "idle" \notin SnapshotSteps
      /\ {"write", "abort", "commit", "begin"} \subseteq SnapshotSteps
      /\ answer \in Answers /\ {"replay", "none", "error"} \subseteq Answers
  BY DEF SnapshotSteps, OpTypeOK, Answers
<1>2. step # "idle" => call.id \in SnapshotOps /\ call.digest \in Snapshot
  BY DEF OpTypeOK, SnapshotCalls
<1>3. ASSUME NEW o \in SnapshotOps, NEW new \in UpTo(FailedAttempt, MaxNew),
             NEW pairs \in UpTo(Diagnoses, MaxNew), NEW result \in VerificationResult,
             WriteSnapshot(o, new, pairs, result)
      PROVE  SnapshotInv'
  <2>. DEFINE next == NextSnapshot(snapshot, new, pairs, result)
              c == [id |-> o, digest |-> next]
  <2>1. next \in Snapshot /\ Justified(next) /\ Follows(snapshot, next)
    BY <1>3, NextIsJustified DEF WriteSnapshot
  <2>2. Enter(c, "begin", "none") /\ snapshot' = snapshot /\ due' = due
    BY <1>3 DEF WriteSnapshot, snapshotVars
  <2>. HIDE DEF next
  <2>3. c \in SnapshotCalls /\ c.digest = next
    BY <2>1 DEF SnapshotCalls
  <2>. HIDE DEF c
  <2>4. OpTypeOK(SnapshotOps, Snapshot, SnapshotCalls, SnapshotSteps)'
    BY <1>1, <2>2, <2>3 DEF Enter, OpTypeOK
  <2>5. step' = "begin" /\ call' = c
    BY <2>2 DEF Enter
  <2>. QED  BY <2>1, <2>2, <2>3, <2>4, <2>5
<1>4. ASSUME NEW outcome \in Outcomes, ReplaceSnapshot(outcome)
      PROVE  SnapshotInv'
  <2>1. /\ step = "write" /\ step' \in {"commit", "abort"} /\ call' = call
        /\ \/ snapshot' = snapshot /\ due' = due
           \/ snapshot' = call.digest /\ due' = Owed(due, call.digest)
        /\ answer' \in Answers
    BY <1>1, <1>4 DEF ReplaceSnapshot, Continue, Written
  <2>2. OpTypeOK(SnapshotOps, Snapshot, SnapshotCalls, SnapshotSteps)'
    BY <1>1, <1>4, <2>1, FaultsAssumption DEF ReplaceSnapshot, Write, Failed, OpTypeOK
  <2>3. Owed(due, call.digest) \in Dues
        /\ (Owed(due, call.digest) = "pass" => Shut(call.digest))
    BY <2>1, OwedWhenShut
  <2>. QED  BY <1>2, <2>1, <2>2, <2>3
<1>5. ASSUME NEW outcome \in Outcomes,
             BeginSnapshot(outcome) \/ CommitSnapshot(outcome) \/ AbortSnapshot(outcome)
      PROVE  SnapshotInv'
  <2>1. OpTypeOK(SnapshotOps, Snapshot, SnapshotCalls, SnapshotSteps)'
    <3>1. CASE BeginSnapshot(outcome)
      BY <1>1, <1>2, <3>1, BeginTypes DEF BeginSnapshot
    <3>2. CASE CommitSnapshot(outcome)
      BY <1>1, <1>2, <3>2, CommitTypes DEF CommitSnapshot
    <3>3. CASE AbortSnapshot(outcome)
      BY <1>1, <1>2, <3>3, AbortTypes DEF AbortSnapshot
    <3>. QED  BY <1>5, <3>1, <3>2, <3>3
  <2>2. /\ step # "idle" /\ call' = call /\ snapshot' = snapshot /\ due' = due
        /\ step' \in {"begin", "write"} => step = "begin"
    BY <1>5
       DEF snapshotVars, BeginSnapshot, CommitSnapshot, AbortSnapshot, Begin, Commit, Abort, Continue
  <2>. QED  BY <2>1, <2>2
<1>6. CASE BeginSnapshotRefused \/ AbortSnapshotRefused
  <2>1. OpTypeOK(SnapshotOps, Snapshot, SnapshotCalls, SnapshotSteps)'
    BY <1>1, <1>6, BeginRefusedTypes, AbortRefusedTypes
       DEF BeginSnapshotRefused, AbortSnapshotRefused
  <2>2. /\ step # "idle" /\ step' = "release" /\ call' = call
        /\ snapshot' = snapshot /\ due' = due
    BY <1>6 DEF snapshotVars, BeginSnapshotRefused, AbortSnapshotRefused, BeginRefused, AbortRefused
  <2>. QED  BY <2>1, <2>2
<1>7. CASE \/ ReleaseSnapshot \/ CrashSnapshot \/ ReconcileSnapshotLock
           \/ \E o \in SnapshotOps : AbortSnapshotOperation(o) \/ NewSnapshotId(o)
  <2>1. OpTypeOK(SnapshotOps, Snapshot, SnapshotCalls, SnapshotSteps)'
    BY <1>7, EndTypes
       DEF ReleaseSnapshot, CrashSnapshot, ReconcileSnapshotLock, AbortSnapshotOperation,
           NewSnapshotId
  <2>2. /\ snapshot' = snapshot /\ due' = due
        /\ step' = "idle" \/ (step' = step /\ call' = call)
    BY <1>7
       DEF snapshotVars, ReleaseSnapshot, CrashSnapshot, ReconcileSnapshotLock, AbortSnapshotOperation,
           NewSnapshotId, Release, ReleaseFails, Crash, End, ReconcileLock, AbortOperation,
           NewId
  <2>. QED  BY <2>1, <2>2
<1>. QED  BY <1>3, <1>4, <1>5, <1>6, <1>7 DEF SnapshotNext, SnapshotWrites

\* The gate is closed at first and nothing was tried.
LEMMA SnapshotInitial == SnapshotInit => SnapshotInv
<1>. SUFFICES ASSUME SnapshotInit  PROVE  SnapshotInv
  OBVIOUS
<1>1. OpTypeOK(SnapshotOps, Snapshot, SnapshotCalls, SnapshotSteps)
  BY FaultsAssumption DEF SnapshotInit, OpInit, OpTypeOK, Answers, Receipts
<1>2. MaxRecent \in Nat /\ \A S : <<>> \in Seq(S) /\ Len(<<>>) = 0
  BY LimitsAssumption
<1>3. \A S : <<>> \in UpTo(S, MaxRecent)
  <2>. SUFFICES ASSUME NEW S  PROVE  <<>> \in UpTo(S, MaxRecent)
    OBVIOUS
  <2>1. <<>> \in Seq(S) /\ Len(<<>>) <= MaxRecent
    BY <1>2
  <2>. QED  BY <1>2, <2>1, UpToSeq
<1>4. snapshot \in Snapshot
  BY <1>3
     DEF SnapshotInit, SnapshotEmpty, NoSnapshot, Snapshot, Gates, VerificationResult
<1>. QED
  BY <1>1, <1>4
     DEF SnapshotInit, OpInit, SnapshotEmpty, NoSnapshot, SnapshotInv, SnapshotTypeOK,
         Justified, Dues

\* The invariant of the gate, under every step.
LEMMA SnapshotKept == SnapshotInv /\ [SnapshotNext]_<<opVars, snapshotVars>> => SnapshotInv'
<1>1. SnapshotInv /\ UNCHANGED <<opVars, snapshotVars>> => SnapshotInv'
  BY DEF SnapshotInv, SnapshotTypeOK, OpTypeOK, opVars, snapshotVars
<1>. QED  BY <1>1, SnapshotInvKept

\* The invariant of the retry gate: types, justified gates, and a verification
\* that the call in flight does not give up.
THEOREM SnapshotInvariant == SnapshotSpec => []SnapshotInv
BY SnapshotInitial, SnapshotKept, PTL DEF SnapshotSpec

\* A gate that allows a retry shows no repeated failure, one that asks for a
\* verification shows a hypothesis, and one that was shut opens by a pass only,
\* where the code does not waive it: for any limits, attempts and failures.
THEOREM GatesAreJustified == SnapshotSpec => []GateJustified
<1>1. SnapshotInv => GateJustified
  BY DEF SnapshotInv, Justified, Shut, GateJustified
<1>. QED  BY <1>1, SnapshotInvariant, PTL

\* Only the call in flight replaces a snapshot, by one that follows it.
LEMMA VerificationKeptByStep ==
    SnapshotInv /\ [SnapshotNext]_<<opVars, snapshotVars>> => [VerificationKept]_snapshot
<1>. SUFFICES ASSUME SnapshotInv, SnapshotNext, snapshot' # snapshot
              PROVE  VerificationKept
  BY DEF opVars, snapshotVars
<1>1. PICK outcome \in Outcomes : ReplaceSnapshot(outcome)
  BY DEF SnapshotNext, SnapshotWrites, WriteSnapshot, BeginSnapshot, CommitSnapshot,
         AbortSnapshot, BeginSnapshotRefused, AbortSnapshotRefused, ReleaseSnapshot,
         CrashSnapshot, ReconcileSnapshotLock, AbortSnapshotOperation, NewSnapshotId,
         snapshotVars
<1>2. snapshot' = call.digest /\ Follows(snapshot, call.digest)
  BY <1>1 DEF ReplaceSnapshot, Written, SnapshotInv
<1>. QED  BY <1>2 DEF Follows, VerificationKept

\* A verification that is due is only ended by its result.
THEOREM VerificationsAreKept == SnapshotSpec => VerificationDue
BY VerificationKeptByStep, SnapshotInvariant, PTL DEF SnapshotSpec, VerificationDue

-------------------------------------------------------------------------------
(* PulseLedger.tla *)

OnLedger(d) == \E n \in 1 .. Len(ledger) : PulseDigest(ledger[n]) = d

\* Whatever a receipt or a call says was appended is on the ledger.
PulsesTold ==
    /\ ToldOnLedger
    /\ \A o \in PulseOps :
          receipts[o] # NoReceipt /\ receipts[o].status = "committed"
             => OnLedger(receipts[o].digest)
    /\ step \in {"commit", "recommit"} => OnLedger(call.digest)
    /\ answer \in {"ok", "replay"} => step = "release" /\ OnLedger(call.digest)

\* The ledger, and the pulse that a call is about to append to it.
PulsesSound ==
    /\ LedgerReadable
    /\ step \in {"begin", "fit", "write"} =>
          /\ call.digest = PulseDigest(call.pulse)
          /\ CausedOn(ledger, call.pulse)
          /\ IsOn(ledger, call.pulse.id) => call.pulse.id \in missed
    /\ step = "write" => Len(ledger) < MaxPulses

PulseInv == PulseTypeOK /\ PulsesTold /\ PulsesSound

\* An empty ledger has nothing wrong with it.
LEMMA PulseInitial == PulseInit => PulseInv
<1>. SUFFICES ASSUME PulseInit  PROVE  PulseInv
  OBVIOUS
<1>. USE DEF PulseInit, PulseEmpty, OpInit
<1>1. ledger \in Seq(PulseRecord) /\ Len(ledger) = 0
  OBVIOUS
<1>2. PulseTypeOK
  BY <1>1, FaultsAssumption, PulseBoundsAssumption DEF PulseTypeOK, OpTypeOK, Answers
<1>3. PulsesTold /\ PulsesSound
  BY <1>1 DEF PulsesTold, ToldOnLedger, PulsesSound, LedgerReadable
<1>. QED  BY <1>2, <1>3 DEF PulseInv

\* A digest has the fields of its pulse, and a call those of its request.
LEMMA PulseCallTypes ==
    ASSUME NEW o \in PulseOps, NEW p \in PulseRecord
    PROVE  PulseDigest(p) \in PulseDigests /\ PulseCall(o, p) \in PulseCalls
BY DEF PulseDigest, PulseDigests, PulseRecord, PulseCall, PulseCalls

\* Every step of the ledger keeps the types.
LEMMA PulseTypesKept == PulseInv /\ PulseNext => PulseTypeOK'
<1>. SUFFICES ASSUME PulseInv, PulseNext  PROVE  PulseTypeOK'
  OBVIOUS
<1>. USE DEF PulseTypeOK
<1>0. PulseTypeOK
  BY DEF PulseInv
<1>1. {"fit", "commit", "abort", "release"} \subseteq PulseSteps /\ "idle" \notin PulseSteps
  BY DEF PulseSteps
<1>2. step # "idle" => call \in PulseCalls /\ call.id \in PulseOps /\ call.digest \in PulseDigests
  BY <1>0 DEF OpTypeOK, PulseCalls
<1>3. ASSUME NEW o \in PulseOps, NEW p \in PulseRecord, NEW padded \in BOOLEAN,
             AppendAgain(o, p, padded) \/ AppendNew(o, p, padded)
      PROVE  PulseTypeOK'
  <2>1. PulseCall(o, p) \in PulseCalls /\ p.id \in PulseIds
    BY PulseCallTypes DEF PulseRecord
  <2>2. \E next \in {"release", "recommit", "begin"}, result \in {"replay", "none"} :
           Enter(PulseCall(o, p), next, result)
    BY <1>3 DEF AppendAgain, AppendNew
  <2>3. missed' \subseteq PulseIds /\ UNCHANGED <<ledger, toldPulses>>
    BY <1>0, <1>3, <2>1 DEF AppendAgain, AppendNew, pulseVars
  <2>. QED  BY <1>0, <2>1, <2>2, <2>3 DEF Enter, OpTypeOK, PulseSteps, Answers
<1>4. ASSUME NEW outcome \in Outcomes,
             BeginPulse(outcome) \/ CommitPulse(outcome) \/ AbortPulse(outcome)
      PROVE  PulseTypeOK'
  <2>1. answer \in Answers
    BY <1>0 DEF OpTypeOK
  <2>2. OpTypeOK(PulseOps, PulseDigests, PulseCalls, PulseSteps)'
    BY <1>0, <1>1, <1>2, <1>4, <2>1, BeginTypes, CommitTypes, AbortTypes
       DEF BeginPulse, CommitPulse, AbortPulse
  <2>. QED  BY <1>0, <1>4, <2>2 DEF BeginPulse, CommitPulse, AbortPulse, pulseVars
<1>5. ASSUME NEW outcome \in Outcomes, WriteLedger(outcome)
      PROVE  PulseTypeOK'
  <2>1. call.pulse \in PulseRecord /\ Len(ledger) < MaxPulses
    BY <1>2, <1>5 DEF WriteLedger, PulseCalls, PulseInv, PulsesSound
  <2>2. ledger' \in Seq(PulseRecord) /\ Len(ledger') <= MaxPulses
    BY <1>0, <1>5, <2>1, PulseBoundsAssumption DEF WriteLedger, Written
  <2>. QED
    BY <1>0, <1>1, <1>5, <2>2, FaultsAssumption
       DEF WriteLedger, Write, Failed, Continue, OpTypeOK, Answers
<1>6. ASSUME NEW outcome \in Outcomes, CommitPulseAgain(outcome)
      PROVE  PulseTypeOK'
  BY <1>0, <1>1, <1>2, <1>6, FaultsAssumption
     DEF CommitPulseAgain, Write, SetReceipt, Failed, Written, receipt, Receipts, Stamp,
         Statuses, OpTypeOK, Answers, pulseVars
<1>7. CASE BeginPulseRefused \/ AbortPulseRefused
  <2>1. answer \in Answers /\ "replay" \in Answers
    BY <1>0 DEF OpTypeOK, Answers
  <2>2. OpTypeOK(PulseOps, PulseDigests, PulseCalls, PulseSteps)'
    BY <1>0, <1>1, <1>7, <2>1, BeginRefusedTypes, AbortRefusedTypes
       DEF BeginPulseRefused, AbortPulseRefused
  <2>. QED  BY <1>0, <1>7, <2>2 DEF BeginPulseRefused, AbortPulseRefused, pulseVars
<1>8. CASE Fit
  BY <1>0, <1>8 DEF Fit, OpTypeOK, PulseSteps, Answers, pulseVars
<1>9. CASE \/ ReleasePulse \/ ReleasePulseFails \/ CrashPulse \/ ReconcilePulseLock
           \/ \E o \in PulseOps : AbortPulseOperation(o)
  <2>1. OpTypeOK(PulseOps, PulseDigests, PulseCalls, PulseSteps)'
    BY <1>0, <1>9, EndTypes
       DEF ReleasePulse, ReleasePulseFails, CrashPulse, ReconcilePulseLock, AbortPulseOperation
  <2>2. toldPulses' \subseteq PulseDigests /\ UNCHANGED <<ledger, missed>>
    BY <1>0, <1>2, <1>9
       DEF ReleasePulse, Release, ReleasePulseFails, CrashPulse, ReconcilePulseLock,
           AbortPulseOperation, pulseVars
  <2>. QED  BY <1>0, <2>1, <2>2
<1>. QED
  BY <1>3, <1>4, <1>5, <1>6, <1>7, <1>8, <1>9 DEF PulseNext, PulseWrites

\* A ledger with one line more has the earlier lines where they were.
LEMMA LongerLedger ==
    ASSUME NEW l \in Seq(PulseRecord), NEW p \in PulseRecord
    PROVE  /\ Len(Append(l, p)) = Len(l) + 1
           /\ \A n \in 1 .. Len(l) : Append(l, p)[n] = l[n]
           /\ Append(l, p)[Len(l) + 1] = p
           /\ \A n \in 1 .. Len(l) + 1 :
                 SubSeq(Append(l, p), 1, n - 1) = SubSeq(l, 1, n - 1)
           /\ SubSeq(l, 1, Len(l)) = l
<1>. DEFINE m == Append(l, p)
<1>1. /\ m \in Seq(PulseRecord) /\ Len(m) = Len(l) + 1 /\ Len(l) \in Nat
      /\ \A n \in 1 .. Len(l) : m[n] = l[n]
      /\ m[Len(l) + 1] = p
  BY AppendProperties
<1>. HIDE DEF m
<1>2. ASSUME NEW n \in 1 .. Len(l) + 1
      PROVE  SubSeq(m, 1, n - 1) = SubSeq(l, 1, n - 1)
  <2>1. n - 1 \in Nat /\ \A i \in 1 .. n - 1 : m[i] = l[i] /\ l[i] \in PulseRecord
    BY <1>1
  <2>2. /\ SubSeq(m, 1, n - 1) \in Seq(PulseRecord)
        /\ Len(SubSeq(m, 1, n - 1)) = n - 1
        /\ \A i \in 1 .. n - 1 : SubSeq(m, 1, n - 1)[i] = m[i]
    BY <2>1
  <2>3. /\ SubSeq(l, 1, n - 1) \in Seq(PulseRecord)
        /\ Len(SubSeq(l, 1, n - 1)) = n - 1
        /\ \A i \in 1 .. n - 1 : SubSeq(l, 1, n - 1)[i] = l[i]
    BY <2>1
  <2>. QED  BY <2>1, <2>2, <2>3, SeqEqual
<1>3. SubSeq(l, 1, Len(l)) = l
  BY SubSeqFull
<1>. QED  BY <1>1, <1>2, <1>3 DEF m

\* What was appended is never removed, and what is told is on the ledger.
LEMMA PulsesToldKept == PulseInv /\ PulseNext => PulsesTold'
<1>. SUFFICES ASSUME PulseInv, PulseNext  PROVE  PulsesTold'
  OBVIOUS
<1>. USE DEF PulseInv
<1>0. /\ ledger \in Seq(PulseRecord)
      /\ step # "idle" => call.pulse \in PulseRecord /\ call.id \in PulseOps
      /\ receipts \in [PulseOps -> Receipts(PulseDigests) \cup {NoReceipt}]
  BY DEF PulseTypeOK, OpTypeOK, PulseCalls
<1>1. ASSUME NEW o \in PulseOps, NEW p \in PulseRecord, NEW padded \in BOOLEAN,
             AppendAgain(o, p, padded) \/ AppendNew(o, p, padded)
      PROVE  PulsesTold'
  <2>1. UNCHANGED <<receipts, ledger, toldPulses>>
    BY <1>1 DEF AppendAgain, AppendNew, Enter, pulseVars
  <2>2. CASE AppendAgain(o, p, padded)
    <3>1. OnLedger(PulseDigest(p))
      BY <2>2 DEF AppendAgain, SameOn, Positions, OnLedger
    <3>2. call'.digest = PulseDigest(p)
      BY <2>2 DEF AppendAgain, Enter, PulseCall
    <3>3. step' \in {"release", "recommit"} /\ (answer' # "none" => step' = "release")
      BY <2>2 DEF AppendAgain, Enter
    <3>. QED  BY <2>1, <3>1, <3>2, <3>3 DEF PulsesTold, ToldOnLedger, OnLedger
  <2>3. CASE AppendNew(o, p, padded)
    <3>1. step' = "begin" /\ answer' = "none"
      BY <2>3 DEF AppendNew, Enter
    <3>. QED  BY <2>1, <3>1 DEF PulsesTold, ToldOnLedger, OnLedger
  <2>. QED  BY <1>1, <2>2, <2>3
<1>2. ASSUME NEW outcome \in Outcomes, BeginPulse(outcome)
      PROVE  PulsesTold'
  BY <1>0, <1>2
     DEF BeginPulse, Begin, SetReceipt, Written, Stamp, Continue, pulseVars, receipt,
         PulsesTold, ToldOnLedger, OnLedger
<1>3. ASSUME NEW outcome \in Outcomes, WriteLedger(outcome)
      PROVE  PulsesTold'
  <2>1. call.digest = PulseDigest(call.pulse)
    BY <1>3 DEF WriteLedger, PulsesSound
  <2>2. \A d : OnLedger(d) => OnLedger(d)'
    BY <1>0, <1>3, LongerLedger DEF WriteLedger, Written, OnLedger
  <2>3. step' = "commit" => OnLedger(call.digest)'
    <3>. SUFFICES ASSUME step' = "commit"  PROVE  OnLedger(call.digest)'
      OBVIOUS
    <3>1. ledger' = Append(ledger, call.pulse)
      BY <1>3 DEF WriteLedger, Written, Continue, Failed
    <3>. QED  BY <1>0, <1>3, <2>1, <3>1, LongerLedger DEF WriteLedger, OnLedger
  <2>4. answer' \notin {"ok", "replay"} /\ step' \in {"commit", "abort"}
    BY <1>3 DEF WriteLedger, Continue, PulsesTold
  <2>. QED
    BY <1>3, <2>2, <2>3, <2>4 DEF WriteLedger, PulsesTold, ToldOnLedger, OnLedger
<1>4. ASSUME NEW outcome \in Outcomes, CommitPulse(outcome) \/ CommitPulseAgain(outcome)
      PROVE  PulsesTold'
  <2>1. OnLedger(call.digest)
    BY <1>4 DEF CommitPulse, Commit, CommitPulseAgain, PulsesTold
  <2>. QED
    BY <1>0, <1>4, <2>1
       DEF CommitPulse, Commit, CommitPulseAgain, SetReceipt, Written, Stamp, receipt,
           pulseVars, PulsesTold, ToldOnLedger, OnLedger
<1>5. ASSUME NEW outcome \in Outcomes, AbortPulse(outcome)
      PROVE  PulsesTold'
  BY <1>0, <1>5
     DEF AbortPulse, Abort, SetReceipt, Written, Stamp, receipt, pulseVars,
         PulsesTold, ToldOnLedger, OnLedger
<1>6. CASE BeginPulseRefused
  <2>1. answer' = "replay" => OnLedger(call.digest)
    BY <1>0, <1>6
       DEF BeginPulseRefused, BeginRefused, Startable, Replayed, Stamp, receipt, PulsesTold
  <2>. QED
    BY <1>6, <2>1
       DEF BeginPulseRefused, BeginRefused, pulseVars, PulsesTold, ToldOnLedger, OnLedger
<1>7. CASE Fit \/ AbortPulseRefused \/ ReleasePulseFails \/ CrashPulse \/ ReconcilePulseLock
  BY <1>7
     DEF Fit, AbortPulseRefused, AbortRefused, ReleasePulseFails, ReleaseFails, CrashPulse,
         Crash, End, ReconcilePulseLock, ReconcileLock, pulseVars, PulsesTold,
         ToldOnLedger, OnLedger
<1>8. CASE ReleasePulse
  BY <1>8 DEF ReleasePulse, Release, End, PulsesTold, ToldOnLedger, OnLedger
<1>9. ASSUME NEW o \in PulseOps, AbortPulseOperation(o)
      PROVE  PulsesTold'
  BY <1>0, <1>9
     DEF AbortPulseOperation, AbortOperation, Stamp, pulseVars, PulsesTold, ToldOnLedger,
         OnLedger
<1>. QED
  BY <1>1, <1>2, <1>3, <1>4, <1>5, <1>6, <1>7, <1>8, <1>9 DEF PulseNext, PulseWrites

\* A pulse that is appended comes after its cause, and its id is new or missed.
LEMMA PulsesSoundKept == PulseInv /\ PulseNext => PulsesSound'
<1>. SUFFICES ASSUME PulseInv, PulseNext  PROVE  PulsesSound'
  OBVIOUS
<1>. USE DEF PulseInv
<1>0. /\ ledger \in Seq(PulseRecord)
      /\ step # "idle" => call.pulse \in PulseRecord
  BY DEF PulseTypeOK, OpTypeOK, PulseCalls
<1>1. ASSUME NEW o \in PulseOps, NEW p \in PulseRecord, NEW padded \in BOOLEAN,
             AppendAgain(o, p, padded) \/ AppendNew(o, p, padded)
      PROVE  PulsesSound'
  <2>1. CASE AppendAgain(o, p, padded)
    <3>1. step' \in {"release", "recommit"} /\ UNCHANGED <<ledger, missed>>
      BY <2>1 DEF AppendAgain, Enter, pulseVars
    <3>. QED  BY <3>1 DEF PulsesSound, LedgerReadable, IsOn, CausedOn, Positions
  <2>2. CASE AppendNew(o, p, padded)
    <3>1. /\ step' = "begin" /\ call' = PulseCall(o, p) /\ UNCHANGED ledger
          /\ missed \subseteq missed'
          /\ CausedOn(ledger, p)
          /\ IsOn(ledger, p.id) => p.id \in missed'
      BY <2>2 DEF AppendNew, Enter, FoundAs
    <3>2. call'.digest = PulseDigest(p) /\ call'.pulse = p
      BY <3>1 DEF PulseCall
    <3>3. LedgerReadable'
      BY <3>1 DEF PulsesSound, LedgerReadable, IsOn, CausedOn, Positions
    <3>. QED  BY <3>1, <3>2, <3>3 DEF PulsesSound, IsOn, CausedOn, Positions, PulseDigest
  <2>. QED  BY <1>1, <2>1, <2>2
<1>2. ASSUME NEW outcome \in Outcomes, WriteLedger(outcome)
      PROVE  PulsesSound'
  <2>1. step' \notin {"begin", "fit", "write"} /\ UNCHANGED missed
    BY <1>2 DEF WriteLedger, Continue
  <2>2. CASE ledger' = ledger
    BY <2>1, <2>2 DEF PulsesSound, LedgerReadable, IsOn, CausedOn, Positions
  <2>3. CASE ledger' = Append(ledger, call.pulse)
    <3>. DEFINE p == call.pulse
    <3>1. /\ CausedOn(ledger, p)
          /\ IsOn(ledger, p.id) => p.id \in missed
          /\ p \in PulseRecord
      BY <1>0, <1>2 DEF WriteLedger, PulsesSound
    <3>2. /\ Len(ledger') = Len(ledger) + 1 /\ Len(ledger) \in Nat
          /\ \A n \in 1 .. Len(ledger) :
                ledger'[n] = ledger[n] /\ SubSeq(ledger', 1, n - 1) = SubSeq(ledger, 1, n - 1)
          /\ ledger'[Len(ledger) + 1] = p
          /\ SubSeq(ledger', 1, (Len(ledger) + 1) - 1) = ledger
      BY <1>0, <2>3, <3>1, LongerLedger
    <3>3. ASSUME NEW n \in 1 .. Len(ledger')
          PROVE  /\ IsOn(SubSeq(ledger', 1, n - 1), ledger'[n].id) => ledger'[n].id \in missed
                 /\ CausedOn(SubSeq(ledger', 1, n - 1), ledger'[n])
      <4>1. CASE n \in 1 .. Len(ledger)
        BY <3>2, <4>1 DEF PulsesSound, LedgerReadable
      <4>2. CASE n = Len(ledger) + 1
        BY <3>1, <3>2, <4>2
      <4>. QED  BY <3>2, <4>1, <4>2
    <3>4. LedgerReadable'
      BY <2>1, <3>3 DEF LedgerReadable, IsOn, CausedOn, Positions
    <3>. QED  BY <2>1, <3>4 DEF PulsesSound
  <2>. QED  BY <1>2, <2>2, <2>3 DEF WriteLedger, Written
<1>3. CASE \/ \E outcome \in Outcomes :
                 \/ BeginPulse(outcome) \/ CommitPulse(outcome)
                 \/ CommitPulseAgain(outcome) \/ AbortPulse(outcome)
           \/ BeginPulseRefused \/ Fit \/ AbortPulseRefused
           \/ ReleasePulse \/ ReleasePulseFails \/ CrashPulse \/ ReconcilePulseLock
           \/ \E o \in PulseOps : AbortPulseOperation(o)
  <2>1. UNCHANGED <<ledger, missed>>
    BY <1>3
       DEF BeginPulse, CommitPulse, CommitPulseAgain, AbortPulse, BeginPulseRefused, Fit,
           AbortPulseRefused, ReleasePulse, ReleasePulseFails, CrashPulse,
           ReconcilePulseLock, AbortPulseOperation, pulseVars
  <2>2. /\ step' \in {"begin", "fit", "write"} =>
              step \in {"begin", "fit", "write"} /\ UNCHANGED call
        /\ step' = "write" => step = "write" \/ Len(ledger) < MaxPulses
    BY <1>3
       DEF BeginPulse, Begin, Continue, CommitPulse, Commit, CommitPulseAgain, AbortPulse,
           Abort, BeginPulseRefused, BeginRefused, Fit, AbortPulseRefused, AbortRefused,
           ReleasePulse, Release, ReleasePulseFails, ReleaseFails, CrashPulse, Crash, End,
           ReconcilePulseLock, ReconcileLock, AbortPulseOperation, AbortOperation
  <2>. QED  BY <2>1, <2>2 DEF PulsesSound, LedgerReadable, IsOn, CausedOn, Positions
<1>. QED  BY <1>1, <1>2, <1>3 DEF PulseNext, PulseWrites

\* The invariant of the ledger, under every step.
LEMMA PulseKept == PulseInv /\ [PulseNext]_<<opVars, pulseVars>> => PulseInv'
<1>1. PulseInv /\ UNCHANGED <<opVars, pulseVars>> => PulseInv'
  BY DEF PulseInv, PulseTypeOK, OpTypeOK, PulsesTold, ToldOnLedger, OnLedger, PulsesSound,
         LedgerReadable, IsOn, CausedOn, Positions, opVars, pulseVars
<1>. QED  BY <1>1, PulseTypesKept, PulsesToldKept, PulsesSoundKept DEF PulseInv

\* Pulses that were answered as appended stay on the ledger, which every later
\* call can read: for any requests, repetitions, failures and crashes.
THEOREM PulsesStay == PulseSpec => [](ToldOnLedger /\ LedgerReadable)
<1>1. PulseInv => ToldOnLedger /\ LedgerReadable
  BY DEF PulseInv, PulsesTold, PulsesSound
<1>. QED  BY <1>1, PulseInitial, PulseKept, PTL DEF PulseSpec

\* Causes are found before their effects.
LEMMA CauseBefore ==
    ASSUME NEW l \in Seq(PulseRecord), Parses(l), NEW n \in 1 .. Len(l),
           l[n].parent # NoParent
    PROVE  LET m == Min(Positions(l, l[n].parent))
           IN  /\ m \in 1 .. n - 1
               /\ l[m].id = l[n].parent /\ l[m].task = l[n].task /\ l[m].at <= l[n].at
<1>. DEFINE before == SubSeq(l, 1, n - 1)
            found == Positions(l, l[n].parent)
<1>1. \A m \in 1 .. Len(l) : /\ SubSeq(l, 1, m - 1) \in Seq(PulseRecord)
                             /\ Len(SubSeq(l, 1, m - 1)) = m - 1
                             /\ \A k \in 1 .. m - 1 : SubSeq(l, 1, m - 1)[k] = l[k]
  OBVIOUS
<1>2. PICK m \in 1 .. n - 1 :
         /\ l[m].id = l[n].parent /\ l[m].task = l[n].task /\ l[m].at <= l[n].at
  <2>1. CausedOn(before, l[n])
    BY DEF Parses
  <2>. QED  BY <1>1, <2>1 DEF CausedOn, Positions
<1>3. ASSUME NEW k \in found  PROVE  m <= k
  <2>1. k \in 1 .. Len(l) /\ l[k].id = l[m].id /\ m \in 1 .. Len(l)
    BY <1>2, <1>3 DEF Positions
  <2>2. CASE k < m
    <3>1. ~IsOn(SubSeq(l, 1, m - 1), l[m].id)
      BY <2>1 DEF Parses
    <3>2. k \in 1 .. m - 1 /\ SubSeq(l, 1, m - 1)[k].id = l[m].id
      BY <1>1, <2>1, <2>2
    <3>. QED  BY <1>1, <2>1, <3>1, <3>2 DEF IsOn, Positions
  <2>. QED  BY <2>1, <2>2
<1>4. m \in found
  BY <1>2 DEF Positions
<1>5. Min(found) = m
  <2>1. found \subseteq Int
    BY DEF Positions
  <2>. HIDE DEF found
  <2>2. \A k \in found : m <= k
    BY <1>3
  <2>3. Min(found) \in found /\ \A k \in found : Min(found) <= k
    BY <1>4, <2>2 DEF Min
  <2>4. Min(found) <= m /\ m <= Min(found) /\ Min(found) \in Int /\ m \in Int
    BY <1>4, <2>1, <2>2, <2>3
  <2>. QED  BY <2>4
<1>. QED  BY <1>2, <1>5

\* The recursion of Lineage is well founded where every cause comes first.
LEMMA LineageDefined ==
    ASSUME NEW l \in Seq(PulseRecord), Parses(l)
    PROVE  Lineage(l) = [n \in 1 .. Len(l) |->
                           IF l[n].parent = NoParent THEN <<n>>
                           ELSE Append(Lineage(l)[Min(Positions(l, l[n].parent))], n)]
<1>. DEFINE Cause(n) == Min(Positions(l, l[n].parent))
            Def(g, k) == g = [n \in 1 .. k |-> IF l[n].parent = NoParent THEN <<n>>
                                                ELSE Append(g[Cause(n)], n)]
            S == {k \in Nat : k <= Len(l) => \E g : Def(g, k)}
<1>1. 0 \in S
  <2>. DEFINE g == [n \in 1 .. 0 |-> <<>>]
  <2>1. Def(g, 0)
    OBVIOUS
  <2>. QED  BY <2>1
<1>2. ASSUME NEW k \in Nat, k \in S  PROVE  k + 1 \in S
  <2>. SUFFICES ASSUME k + 1 <= Len(l)  PROVE \E g : Def(g, k + 1)
    <3>. HIDE DEF Def
    <3>1. \A j \in Nat : (j <= Len(l) => \E g : Def(g, j)) => j \in S
      OBVIOUS
    <3>2. k + 1 \in Nat
      OBVIOUS
    <3>. QED  BY <3>1, <3>2
  <2>0. k <= Len(l) /\ k + 1 \in 1 .. Len(l) /\ 1 .. k \subseteq 1 .. Len(l)
    BY LenProperties
  <2>1. PICK g : Def(g, k)
    <3>. HIDE DEF Def
    <3>. QED  BY <1>2, <2>0
  <2>. DEFINE h == [n \in 1 .. k + 1 |-> IF l[n].parent = NoParent THEN <<n>>
                                         ELSE Append(g[Cause(n)], n)]
  <2>2. ASSUME NEW n \in 1 .. k + 1, l[n].parent # NoParent
        PROVE  h[Cause(n)] = g[Cause(n)]
    <3>0. n \in 1 .. Len(l)
      BY <2>0
    <3>1. Cause(n) \in 1 .. n - 1
      BY <2>2, <3>0, CauseBefore
    <3>. HIDE DEF Cause
    <3>4. Cause(n) \in 1 .. k
      BY <3>1
    <3>2. h[Cause(n)] = IF l[Cause(n)].parent = NoParent THEN <<Cause(n)>>
                                         ELSE Append(g[Cause(Cause(n))], Cause(n))
      BY <3>4
    <3>3. g[Cause(n)] = IF l[Cause(n)].parent = NoParent THEN <<Cause(n)>>
                                         ELSE Append(g[Cause(Cause(n))], Cause(n))
      BY <3>4, <2>1
    <3>. QED  BY <3>2, <3>3
  <2>3. Def(h, k + 1)
    <3>. HIDE DEF Cause
    <3>. QED BY <2>2
  <2>. QED  BY <2>3
<1>3. \E g : Def(g, Len(l))
  <2>1. Len(l) \in Nat
    BY LenProperties
  <2>. HIDE DEF Def, Cause
  <2>2. Nat \subseteq S
    <3>. HIDE DEF S
    <3>. QED  BY <1>1, <1>2, NatSetInduction
  <2>. QED  BY <2>1, <2>2
<1>. QED  BY <1>3 DEF Lineage

\* A chain of causes that ends in the pulse at n and starts with one nothing caused.
ChainTo(l, n, c) ==
    /\ c \in Seq(1 .. n) /\ c # <<>> /\ c[Len(c)] = n
    /\ l[c[1]].parent = NoParent
    /\ \A k \in 1 .. Len(c) : l[c[k]].task = l[n].task
    /\ \A k \in 1 .. Len(c) - 1 : /\ l[c[k + 1]].parent = l[c[k]].id
                                 /\ l[c[k]].at <= l[c[k + 1]].at

\* A chain grows by the pulse that its end has caused.
LEMMA ChainGrows ==
    ASSUME NEW l, NEW n \in Nat, NEW m \in 1 .. n - 1, NEW c, ChainTo(l, m, c),
           l[m].id = l[n].parent, l[m].task = l[n].task, l[m].at <= l[n].at
    PROVE  ChainTo(l, n, Append(c, n))
<1>. DEFINE d == Append(c, n)
<1>1. c \in Seq(1 .. n) /\ n \in 1 .. n /\ Len(c) \in Nat \ {0}
  <2>1. c \in Seq(1 .. m) /\ c # <<>> /\ 1 .. m \subseteq 1 .. n
    BY DEF ChainTo
  <2>. QED  BY <2>1
<1>2. /\ d \in Seq(1 .. n) /\ Len(d) = Len(c) + 1 /\ d[Len(d)] = n
      /\ \A k \in 1 .. Len(c) : d[k] = c[k]
  BY <1>1
<1>. HIDE DEF d
<1>3. l[d[1]].parent = NoParent /\ d # <<>>
  <2>1. 1 \in 1 .. Len(c)
    BY <1>1
  <2>2. d[1] = c[1] /\ d # <<>>
    BY <1>1, <1>2, <2>1
  <2>. QED  BY <2>2 DEF ChainTo
<1>4. ASSUME NEW k \in 1 .. Len(d)  PROVE  l[d[k]].task = l[n].task
  <2>1. CASE k = Len(d)
    BY <1>2, <2>1
  <2>2. CASE k # Len(d)
    <3>1. k \in 1 .. Len(c)
      BY <1>1, <1>2, <2>2
    <3>. QED  BY <1>2, <3>1 DEF ChainTo
  <2>. QED  BY <2>1, <2>2
<1>5. ASSUME NEW k \in 1 .. Len(d) - 1
      PROVE  l[d[k + 1]].parent = l[d[k]].id /\ l[d[k]].at <= l[d[k + 1]].at
  <2>1. CASE k = Len(c)
    <3>1. d[k + 1] = n /\ d[k] = c[Len(c)]
      BY <1>1, <1>2, <2>1
    <3>. QED  BY <3>1 DEF ChainTo
  <2>2. CASE k # Len(c)
    <3>1. k \in 1 .. Len(c) - 1 /\ k \in 1 .. Len(c) /\ k + 1 \in 1 .. Len(c)
      BY <1>1, <1>2, <2>2
    <3>2. d[k] = c[k] /\ d[k + 1] = c[k + 1]
      BY <1>2, <3>1
    <3>. QED  BY <3>1, <3>2 DEF ChainTo
  <2>. QED  BY <2>1, <2>2
<1>. QED  BY <1>2, <1>3, <1>4, <1>5 DEF ChainTo, d

\* The lineage of a pulse on a readable ledger is such a chain.
LEMMA LineageIsChain ==
    ASSUME NEW l \in Seq(PulseRecord), Parses(l), NEW n \in 1 .. Len(l)
    PROVE  ChainTo(l, n, Lineage(l)[n])
<1>. DEFINE S == {k \in Nat : \A m \in 1 .. Len(l) : m <= k => ChainTo(l, m, Lineage(l)[m])}
<1>0. Len(l) \in Nat
  OBVIOUS
<1>1. 0 \in S
  BY <1>0
<1>2. ASSUME NEW k \in Nat, k \in S  PROVE  k + 1 \in S
  <2>. SUFFICES ASSUME NEW m \in 1 .. Len(l), m <= k + 1
                PROVE  ChainTo(l, m, Lineage(l)[m])
    OBVIOUS
  <2>1. Lineage(l)[m] = IF l[m].parent = NoParent THEN <<m>>
                        ELSE Append(Lineage(l)[Min(Positions(l, l[m].parent))], m)
    BY LineageDefined
  <2>2. CASE l[m].parent = NoParent
    <3>1. <<m>> \in Seq(1 .. m) /\ Len(<<m>>) = 1 /\ <<m>>[1] = m /\ <<m>> # <<>>
      BY <1>0
    <3>. QED  BY <2>1, <2>2, <3>1 DEF ChainTo
  <2>3. CASE l[m].parent # NoParent
    <3>. DEFINE j == Min(Positions(l, l[m].parent))
    <3>1. /\ j \in 1 .. m - 1
          /\ l[j].id = l[m].parent /\ l[j].task = l[m].task /\ l[j].at <= l[m].at
      BY <2>3, CauseBefore
    <3>2. j \in 1 .. Len(l) /\ j <= k /\ m \in Nat
      <4>. HIDE DEF j
      <4>. QED  BY <3>1, <1>0
    <3>3. ChainTo(l, j, Lineage(l)[j])
      BY <1>2, <3>2
    <3>. QED  BY <2>1, <2>3, <3>1, <3>2, <3>3, ChainGrows
  <2>. QED  BY <2>2, <2>3
<1>3. Nat \subseteq S
  <2>. HIDE DEF S
  <2>. QED  BY <1>1, <1>2, NatSetInduction
<1>. QED  BY <1>0, <1>3

\* The end of a sequence, from one of its elements on.
LEMMA EndOfSequence ==
    ASSUME NEW S, NEW s \in Seq(S), NEW m \in 1 .. Len(s)
    PROVE  /\ Len(SubSeq(s, m, Len(s))) = Len(s) - m + 1
           /\ \A k \in 1 .. Len(s) - m + 1 : SubSeq(s, m, Len(s))[k] = s[m + k - 1]
<1>1. Len(s) \in Nat /\ m \in Nat /\ m <= Len(s)
  OBVIOUS
<1>2. \A k \in m .. Len(s) : s[k] \in S
  OBVIOUS
<1>. QED  BY <1>1, <1>2, SubSeqProperties

\* The handoff of a ledger of pulses is true: it is the end of a chain of causes
\* that ends in the last pulse of the task.
LEMMA LedgerHandsOver ==
    ASSUME ledger \in Seq(PulseRecord)
    PROVE  HandoffTrue
<1>. SUFFICES ASSUME Parses(ledger), NEW i \in 1 .. Len(ledger)
              PROVE  LET t == ledger[i].task
                         chain == Handoff(ledger, t)
                     IN  /\ \A k \in 1 .. Len(chain) : ledger[chain[k]].task = t
                         /\ \A k \in 1 .. Len(chain) - 1 :
                                /\ ledger[chain[k + 1]].parent = ledger[chain[k]].id
                                /\ ledger[chain[k]].at <= ledger[chain[k + 1]].at
                         /\ Len(chain) = MaxShown \/ ledger[chain[1]].parent = NoParent
  BY DEF HandoffTrue
<1>. DEFINE t == ledger[i].task
            last == Max(OfTask(ledger, t))
            whole == Lineage(ledger)[last]
            first == Max({1, Len(whole) - MaxShown + 1})
            chain == Handoff(ledger, t)
<1>1. last \in 1 .. Len(ledger) /\ ledger[last].task = t
  <2>1. OfTask(ledger, t) \subseteq 0 .. Len(ledger) /\ i \in OfTask(ledger, t)
    BY DEF OfTask
  <2>2. \E m \in OfTask(ledger, t) : \A k \in OfTask(ledger, t) : k <= m
    <3>1. Len(ledger) \in Nat
      OBVIOUS
    <3>. QED  BY <2>1, <3>1, GreatestNatural
  <2>3. last \in OfTask(ledger, t)
    BY <2>1, <2>2 DEF Max
  <2>. QED  BY <2>3 DEF OfTask
<1>2. ChainTo(ledger, last, whole)
  BY <1>1, LineageIsChain
<1>. HIDE DEF last, whole
<1>3. whole \in Seq(1 .. last) /\ Len(whole) \in Nat \ {0}
  BY <1>2 DEF ChainTo
<1>4. /\ first \in 1 .. Len(whole)
      /\ first = 1 \/ first = Len(whole) - MaxShown + 1
  <2>1. Len(whole) - MaxShown + 1 <= Len(whole) /\ Len(whole) - MaxShown + 1 \in Int
    BY <1>3, PulseBoundsAssumption
  <2>2. ASSUME NEW a \in Int  PROVE  Max({1, a}) = IF a > 1 THEN a ELSE 1
    BY DEF Max
  <2>. QED  BY <1>3, <2>1, <2>2
<1>5. /\ Len(chain) = Len(whole) - first + 1
      /\ \A k \in 1 .. Len(chain) : chain[k] = whole[first + k - 1]
  <2>1. chain = SubSeq(whole, first, Len(whole))
    BY DEF Handoff, whole, last
  <2>. HIDE DEF first, chain
  <2>2. Len(chain) = Len(whole) - first + 1
    BY <1>3, <1>4, <2>1, EndOfSequence
  <2>3. \A k \in 1 .. Len(whole) - first + 1 :
           SubSeq(whole, first, Len(whole))[k] = whole[first + k - 1]
    BY <1>3, <1>4, EndOfSequence
  <2>. QED  BY <2>1, <2>2, <2>3
<1>. HIDE DEF first, chain
<1>6. ASSUME NEW k \in 1 .. Len(chain)  PROVE  ledger[chain[k]].task = t
  <2>1. first + k - 1 \in 1 .. Len(whole)
    BY <1>3, <1>4, <1>5
  <2>. QED  BY <1>1, <1>2, <1>5, <2>1 DEF ChainTo
<1>7. ASSUME NEW k \in 1 .. Len(chain) - 1
      PROVE  /\ ledger[chain[k + 1]].parent = ledger[chain[k]].id
             /\ ledger[chain[k]].at <= ledger[chain[k + 1]].at
  <2>. DEFINE n == first + k - 1
  <2>1. Len(chain) \in Nat /\ first \in Nat \ {0}
    BY <1>3, <1>4, <1>5
  <2>2. k \in 1 .. Len(chain) /\ k + 1 \in 1 .. Len(chain)
    BY <2>1
  <2>3. chain[k] = whole[n] /\ chain[k + 1] = whole[first + (k + 1) - 1]
    BY <1>5, <2>2
  <2>4. first + (k + 1) - 1 = n + 1
    BY <2>1
  <2>5. n \in 1 .. Len(whole) - 1
    BY <1>3, <1>4, <1>5, <2>1
  <2>. HIDE DEF n
  <2>. QED  BY <1>2, <2>3, <2>4, <2>5 DEF ChainTo
<1>8. Len(chain) = MaxShown \/ ledger[chain[1]].parent = NoParent
  <2>1. CASE first = 1
    BY <1>2, <1>3, <1>5, <2>1 DEF ChainTo
  <2>2. CASE first = Len(whole) - MaxShown + 1
    BY <1>3, <1>5, <2>2, PulseBoundsAssumption
  <2>. QED  BY <1>4, <2>1, <2>2
<1>. QED  BY <1>6, <1>7, <1>8 DEF chain

-------------------------------------------------------------------------------
(* Closeout.tla *)

\* The files are as the call in flight has found them.
AsFound == closeout = call.old /\ cycleArchive = call.found

\* What the call in flight knows about the archive of its cycle.
ArchiveKnown ==
    /\ call.found = NoFile => \A b \in toldArchived : b.cycle # text.cycle
    /\ call.created => call.found = NoFile
    /\ ~call.created => cycleArchive = call.found
    /\ call.archive /\ step = "write" => cycleArchive \in {NoFile, text}
    /\ step = "archive" => cycleArchive = NoFile
    /\ call.archive /\ (step = "commit" \/ answer \in {"ok", "replay"})
          => cycleArchive = text

\* Until a call writes, and after it has undone its writes, the files are as it
\* has found them.
CallUndoes ==
    /\ step \in {"begin", "read", "write"} => AsFound
    /\ step \in {"begin", "read", "write", "archive"} => ~call.created
    /\ step \in {"begin", "read", "write", "archive", "commit", "undo"} => ~call.spoilt
    /\ step = "unarchive" => call.created /\ (~call.spoilt => closeout = call.old)
    /\ step = "abort" /\ ~call.spoilt => AsFound
    /\ step = "release" /\ answer \notin {"ok", "replay"} /\ ~call.spoilt => AsFound

CloseoutInv ==
    /\ CloseoutTypeOK
    /\ ToldArchived
    /\ answer \in {"ok", "replay"} => step = "release"
    /\ step # "replayed"
    /\ step # "idle" => ArchiveKnown /\ CallUndoes

\* Nothing was closed out and nobody was told of an archive.
LEMMA CloseoutInitial == CloseoutInit => CloseoutInv
BY FaultsAssumption, SourcesAssumption
   DEF CloseoutInit, CloseoutEmpty, OpInit, CloseoutInv, CloseoutTypeOK, OpTypeOK, Answers,
       ToldArchived

\* Every step of a closeout keeps the types.
LEMMA CloseoutTypesKept == CloseoutInv /\ CloseoutNext => CloseoutTypeOK'
<1>. SUFFICES ASSUME CloseoutInv, CloseoutNext  PROVE  CloseoutTypeOK'
  OBVIOUS
<1>. USE DEF CloseoutTypeOK
<1>0. CloseoutTypeOK
  BY DEF CloseoutInv
<1>1. /\ {"read", "undo", "commit", "abort", "release"} \subseteq CloseoutSteps
      /\ "idle" \notin CloseoutSteps
  BY DEF CloseoutSteps
<1>2. /\ answer \in Answers /\ "replay" \in Answers /\ "error" \in Answers
      /\ step # "idle" =>
            /\ call \in CloseoutCalls
            /\ call.id \in CloseoutOps /\ text \in Body /\ call.old \in Body \cup {NoFile}
            /\ text.cycle \in Cycles
  BY <1>0 DEF OpTypeOK, CloseoutCalls, Body, text, Answers
<1>3. ASSUME NEW o \in CloseoutOps, NEW c \in Cycles, NEW archive \in BOOLEAN,
             StartCloseout(o, c, archive)
      PROVE  CloseoutTypeOK'
  <2>1. Text(c, sources) \in Body /\ cycleArchives[c] \in Body \cup {NoFile}
    BY <1>0 DEF Text, Body
  <2>2. [id |-> o, digest |-> Text(c, sources), archive |-> archive,
         old |-> closeout, created |-> FALSE, spoilt |-> FALSE,
         found |-> cycleArchives[c]] \in CloseoutCalls
    BY <1>0, <2>1 DEF CloseoutCalls
  <2>. QED
    BY <1>0, <1>3, <2>2
       DEF StartCloseout, Enter, OpTypeOK, CloseoutSteps, Answers, closeoutVars
<1>4. ASSUME NEW outcome \in Outcomes,
             BeginCloseout(outcome) \/ CommitCloseout(outcome) \/ AbortCloseout(outcome)
      PROVE  CloseoutTypeOK'
  <2>1. OpTypeOK(CloseoutOps, Body, CloseoutCalls, CloseoutSteps)'
    BY <1>0, <1>1, <1>2, <1>4, BeginTypes, CommitTypes, AbortTypes
       DEF BeginCloseout, CommitCloseout, AbortCloseout, text
  <2>. QED
    BY <1>0, <1>4, <2>1 DEF BeginCloseout, CommitCloseout, AbortCloseout, closeoutVars
<1>5. ASSUME NEW outcome \in Outcomes,
             \/ WriteCloseout(outcome) \/ CreateArchive(outcome)
             \/ UndoCloseout(outcome) \/ RemoveArchive(outcome)
      PROVE  CloseoutTypeOK'
  <2>1. step # "idle"
    BY <1>5 DEF WriteCloseout, CreateArchive, UndoCloseout, RemoveArchive
  <2>2. call' \in CloseoutCalls
    BY <1>2, <1>5, <2>1
       DEF WriteCloseout, CreateArchive, UndoCloseout, RemoveArchive, CloseoutCalls, Failed
  <2>3. /\ closeout' \in Body \cup {NoFile}
        /\ cycleArchives' \in [Cycles -> Body \cup {NoFile}]
        /\ UNCHANGED <<receipts, lock, sources, toldArchived>>
    BY <1>0, <1>2, <1>5, <2>1
       DEF WriteCloseout, CreateArchive, UndoCloseout, RemoveArchive, Written
  <2>4. step' \in CloseoutSteps /\ answer' \in Answers /\ faults' \in 0 .. MaxFaults
    BY <1>0, <1>2, <1>5, FaultsAssumption
       DEF WriteCloseout, CreateArchive, UndoCloseout, RemoveArchive, Write, Continue,
           CloseoutSteps, OpTypeOK
  <2>5. step' # "idle"
    BY <1>1, <2>4
  <2>. QED  BY <1>0, <2>2, <2>3, <2>4, <2>5 DEF OpTypeOK
<1>6. CASE BeginCloseoutRefused \/ AbortCloseoutRefused
  <2>1. OpTypeOK(CloseoutOps, Body, CloseoutCalls, CloseoutSteps)'
    BY <1>0, <1>1, <1>2, <1>6, BeginRefusedTypes, AbortRefusedTypes
       DEF BeginCloseoutRefused, AbortCloseoutRefused
  <2>. QED
    BY <1>0, <1>6, <2>1 DEF BeginCloseoutRefused, AbortCloseoutRefused, closeoutVars
<1>7. CASE ReadArchive \/ ReadFails
  BY <1>0, <1>2, <1>7, FaultsAssumption
     DEF ReadArchive, ReadFails, Write, Failed, OpTypeOK, CloseoutSteps, closeoutVars
<1>8. CASE \/ ReleaseCloseout \/ ReleaseCloseoutFails \/ CrashCloseout
           \/ ReconcileCloseoutLock
           \/ \E o \in CloseoutOps : AbortCloseoutOperation(o)
  <2>1. OpTypeOK(CloseoutOps, Body, CloseoutCalls, CloseoutSteps)'
    BY <1>0, <1>8, EndTypes
       DEF ReleaseCloseout, ReleaseCloseoutFails, CrashCloseout, ReconcileCloseoutLock,
           AbortCloseoutOperation
  <2>2. toldArchived' \subseteq Body /\ UNCHANGED <<sources, closeout>>
    BY <1>0, <1>2, <1>8
       DEF ReleaseCloseout, Release, ReleaseCloseoutFails, CrashCloseout,
           ReconcileCloseoutLock, AbortCloseoutOperation, closeoutVars
  <2>3. cycleArchives' \in [Cycles -> Body \cup {NoFile}]
    <3>1. step # "idle" => [text EXCEPT !.torn = TRUE] \in Body
      BY <1>2 DEF Body
    <3>. QED
      BY <1>0, <1>2, <1>8, <3>1
         DEF ReleaseCloseout, ReleaseCloseoutFails, CrashCloseout, ReconcileCloseoutLock,
             AbortCloseoutOperation, closeoutVars
  <2>. QED  BY <1>0, <2>1, <2>2, <2>3
<1>9. CASE ChangeSources
  BY <1>0, <1>9, SourcesAssumption DEF ChangeSources, opVars, OpTypeOK
<1>. QED
  BY <1>3, <1>4, <1>5, <1>6, <1>7, <1>8, <1>9 DEF CloseoutNext, CloseoutWrites

\* A call creates the archive of its cycle or leaves it alone, and undoes what it
\* has written.
LEMMA CloseoutStepKept == CloseoutInv /\ CloseoutNext => CloseoutInv'
<1>. SUFFICES ASSUME CloseoutInv, CloseoutNext  PROVE  CloseoutInv'
  OBVIOUS
<1>0. /\ CloseoutTypeOK'
      /\ cycleArchives \in [Cycles -> Body \cup {NoFile}] /\ toldArchived \subseteq Body
      /\ step # "idle" => call \in CloseoutCalls /\ text \in Body /\ text.cycle \in Cycles
  BY CloseoutTypesKept DEF CloseoutInv, CloseoutTypeOK, OpTypeOK, CloseoutCalls, Body, text
<1>1. ASSUME NEW o \in CloseoutOps, NEW c \in Cycles, NEW archive \in BOOLEAN,
             StartCloseout(o, c, archive)
      PROVE  CloseoutInv'
  <2>1. /\ step' = "begin" /\ answer' = "none" /\ UNCHANGED closeoutVars
        /\ call'.digest = Text(c, sources) /\ ~call'.created /\ ~call'.spoilt
        /\ call'.old = closeout /\ call'.found = cycleArchives[c]
    BY <1>1 DEF StartCloseout, Enter
  <2>2. text'.cycle = c /\ cycleArchive' = cycleArchives[c]
    BY <2>1 DEF text, cycleArchive, Text, closeoutVars
  <2>3. cycleArchives[c] = NoFile => \A b \in toldArchived : b.cycle # c
    BY <1>0, NoFileAssumption DEF CloseoutInv, ToldArchived
  <2>. QED
    BY <1>0, <2>1, <2>2, <2>3
       DEF CloseoutInv, ToldArchived, ArchiveKnown, CallUndoes, AsFound, closeoutVars
<1>2. CASE \/ \E outcome \in Outcomes :
                 BeginCloseout(outcome) \/ CommitCloseout(outcome) \/ AbortCloseout(outcome)
           \/ BeginCloseoutRefused \/ ReadArchive \/ ReadFails \/ AbortCloseoutRefused
  <2>1. /\ UNCHANGED <<call, cycleArchives, closeout, toldArchived>> /\ step # "idle"
        /\ text' = text /\ cycleArchive' = cycleArchive
    BY <1>2
       DEF BeginCloseout, Begin, CommitCloseout, Commit, AbortCloseout, Abort,
           BeginCloseoutRefused, BeginRefused, ReadArchive, ReadFails,
           AbortCloseoutRefused, AbortRefused, closeoutVars, text, cycleArchive
  <2>2. ArchiveKnown /\ CallUndoes
    BY <2>1 DEF CloseoutInv
  <2>3. /\ answer' \in {"ok", "replay"} => step' = "release"
        /\ step' # "replayed"
        /\ call.archive /\ (step' = "commit" \/ answer' \in {"ok", "replay"})
              => cycleArchive = text
        /\ call.archive /\ step' = "write" => cycleArchive \in {NoFile, text}
        /\ step' # "archive"
    BY <1>2, <2>1, <2>2
       DEF BeginCloseout, Begin, Continue, CommitCloseout, Commit, AbortCloseout, Abort,
           BeginCloseoutRefused, BeginRefused, ReadArchive, ReadFails,
           AbortCloseoutRefused, AbortRefused, CloseoutInv, ArchiveKnown, text
  <2>4. CallUndoes'
    BY <1>2, <2>1, <2>2
       DEF BeginCloseout, Begin, Continue, CommitCloseout, Commit, AbortCloseout, Abort,
           BeginCloseoutRefused, BeginRefused, ReadArchive, ReadFails,
           AbortCloseoutRefused, AbortRefused, CloseoutInv, CallUndoes, AsFound, text
  <2>. QED
    BY <1>0, <2>1, <2>2, <2>3, <2>4 DEF CloseoutInv, ToldArchived, ArchiveKnown
<1>3. ASSUME NEW outcome \in Outcomes, WriteCloseout(outcome) \/ UndoCloseout(outcome)
      PROVE  CloseoutInv'
  <2>1. /\ UNCHANGED <<cycleArchives, toldArchived>> /\ step # "idle"
        /\ text' = text /\ cycleArchive' = cycleArchive
        /\ call'.created = call.created /\ call'.archive = call.archive
        /\ call'.found = call.found /\ call'.old = call.old
    BY <1>0, <1>3
       DEF WriteCloseout, UndoCloseout, CloseoutCalls, text, cycleArchive
  <2>2. ArchiveKnown /\ CallUndoes
    BY <2>1 DEF CloseoutInv
  <2>3. CASE WriteCloseout(outcome)
    <3>1. /\ step' \in {"archive", "commit", "undo"} /\ answer' \notin {"ok", "replay"}
          /\ step' = "archive" => cycleArchive = NoFile
          /\ call.archive /\ step' = "commit" => cycleArchive = text
          /\ ~call.spoilt /\ ~call.created /\ UNCHANGED call
      BY <2>2, <2>3
         DEF WriteCloseout, Continue, CloseoutInv, ArchiveKnown, CallUndoes
    <3>. QED
      BY <1>0, <2>1, <2>2, <3>1
         DEF CloseoutInv, ToldArchived, ArchiveKnown, CallUndoes
  <2>4. CASE UndoCloseout(outcome)
    <3>1. /\ step' \in {"unarchive", "abort"} /\ answer' \notin {"ok", "replay"}
          /\ call.created <=> step' = "unarchive"
          /\ ~call'.spoilt => closeout' = call.old
      BY <1>0, <2>4
         DEF UndoCloseout, Written, CloseoutCalls, CloseoutInv, Outcomes
    <3>. QED
      BY <1>0, <2>1, <2>2, <3>1
         DEF CloseoutInv, ToldArchived, ArchiveKnown, CallUndoes, AsFound
  <2>. QED  BY <1>3, <2>3, <2>4
<1>4. ASSUME NEW outcome \in Outcomes, CreateArchive(outcome) \/ RemoveArchive(outcome)
      PROVE  CloseoutInv'
  <2>1. /\ UNCHANGED <<closeout, toldArchived>> /\ step \in {"archive", "unarchive"}
        /\ text' = text
        /\ call'.archive = call.archive
        /\ call'.found = call.found /\ call'.old = call.old
    BY <1>0, <1>4 DEF CreateArchive, RemoveArchive, CloseoutCalls, text
  <2>2. ArchiveKnown /\ CallUndoes /\ call.found = NoFile
    BY <1>4, <2>1 DEF CloseoutInv, ArchiveKnown, CallUndoes
  <2>3. \A b \in toldArchived : b.cycle # text.cycle
    BY <2>2 DEF ArchiveKnown
  <2>4. \A b \in toldArchived : cycleArchives'[b.cycle] = cycleArchives[b.cycle]
    <3>1. \A b \in toldArchived : b.cycle \in Cycles
      BY <1>0 DEF Body
    <3>. QED  BY <1>0, <1>4, <2>3, <3>1 DEF CreateArchive, RemoveArchive
  <2>5. CASE CreateArchive(outcome)
    <3>1. /\ cycleArchive' = IF outcome = "lost" THEN NoFile ELSE text
          /\ outcome \in {"ok", "lost"}
          /\ call'.created = (outcome = "ok") /\ call'.spoilt = call.spoilt
          /\ ~call.spoilt
          /\ IF outcome = "ok" THEN step' = "commit" ELSE step' = "undo"
          /\ answer' \notin {"ok", "replay"}
      BY <1>0, <2>1, <2>2, <2>5
         DEF CreateArchive, Written, Failed, Continue, cycleArchive, CloseoutCalls,
             ArchiveKnown, CallUndoes, CloseoutInv, Outcomes
    <3>. QED
      BY <1>0, <2>1, <2>2, <2>3, <2>4, <3>1
         DEF CloseoutInv, ToldArchived, ArchiveKnown, CallUndoes
  <2>6. CASE RemoveArchive(outcome)
    <3>1. /\ step' = "abort" /\ answer' \notin {"ok", "replay"}
          /\ call'.created
          /\ ~call'.spoilt => closeout = call.old /\ cycleArchive' = NoFile
      BY <1>0, <2>1, <2>2, <2>6
         DEF RemoveArchive, Written, Failed, cycleArchive, CloseoutCalls, CallUndoes,
             CloseoutInv, Outcomes
    <3>. QED
      BY <1>0, <2>1, <2>2, <2>3, <2>4, <3>1
         DEF CloseoutInv, ToldArchived, ArchiveKnown, CallUndoes, AsFound
  <2>. QED  BY <1>4, <2>5, <2>6
<1>5. CASE ReleaseCloseout
  <2>1. step = "release" /\ step' = "idle" /\ answer' = "none" /\ UNCHANGED cycleArchives
    BY <1>5 DEF ReleaseCloseout, Release, End
  <2>2. ToldArchived'
    BY <1>5, <2>1
       DEF ReleaseCloseout, CloseoutInv, ArchiveKnown, ToldArchived, cycleArchive
  <2>. QED  BY <1>0, <2>1, <2>2 DEF CloseoutInv
<1>6. CASE ReleaseCloseoutFails \/ CrashCloseout
  <2>1. step # "idle" /\ step' = "idle" /\ answer' = "none" /\ UNCHANGED toldArchived
    BY <1>6 DEF ReleaseCloseoutFails, ReleaseFails, CrashCloseout, Crash, End, closeoutVars
  <2>2. CASE UNCHANGED cycleArchives
    BY <1>0, <2>1, <2>2 DEF CloseoutInv, ToldArchived
  <2>3. CASE /\ step = "archive"
             /\ cycleArchives' = [cycleArchives EXCEPT
                    ![text.cycle] = [text EXCEPT !.torn = TRUE]]
    <3>1. \A b \in toldArchived : b.cycle # text.cycle
      BY <2>3 DEF CloseoutInv, ArchiveKnown, CallUndoes
    <3>. QED  BY <1>0, <2>1, <2>3, <3>1 DEF CloseoutInv, ToldArchived
  <2>. QED  BY <1>6, <2>2, <2>3 DEF ReleaseCloseoutFails, CrashCloseout, closeoutVars
<1>7. CASE \/ ReconcileCloseoutLock \/ ChangeSources
           \/ \E o \in CloseoutOps : AbortCloseoutOperation(o)
  <2>1. UNCHANGED <<step, call, answer, closeout, cycleArchives, toldArchived>>
    BY <1>7
       DEF ReconcileCloseoutLock, ReconcileLock, ChangeSources, AbortCloseoutOperation,
           AbortOperation, opVars, closeoutVars
  <2>. QED
    BY <1>0, <2>1
       DEF CloseoutInv, ToldArchived, ArchiveKnown, CallUndoes, AsFound, text, cycleArchive
<1>. QED
  BY <1>1, <1>2, <1>3, <1>4, <1>5, <1>6, <1>7 DEF CloseoutNext, CloseoutWrites

\* The invariant of closeouts, under every step.
LEMMA CloseoutKept ==
    CloseoutInv /\ [CloseoutNext]_<<opVars, closeoutVars>> => CloseoutInv'
<1>1. CloseoutInv /\ UNCHANGED <<opVars, closeoutVars>> => CloseoutInv'
  BY DEF CloseoutInv, CloseoutTypeOK, OpTypeOK, ToldArchived, ArchiveKnown, CallUndoes,
         AsFound, text, cycleArchive, opVars, closeoutVars
<1>. QED  BY <1>1, CloseoutStepKept

\* What the invariant says of an archive that was told of and of a failed call.
LEMMA CloseoutInvPromises == CloseoutInv => ToldArchived /\ CloseoutRestored
BY DEF CloseoutInv, CallUndoes, AsFound, CloseoutRestored

\* Archives that callers were told of stay, and a closeout that fails leaves the
\* files as it found them: for any cycles, requests, failures and crashes.
THEOREM CloseoutsStand == CloseoutSpec => [](ToldArchived /\ CloseoutRestored)
BY CloseoutInitial, CloseoutKept, CloseoutInvPromises, PTL DEF CloseoutSpec

-------------------------------------------------------------------------------
(* Sync.tla *)

\* A view that the call in flight has not written is as it has found it, unless
\* a write failed after it had taken effect, or could not be put back.
ViewsKnown ==
    step # "idle" =>
        /\ ~call.spoilt => \A v \in Views \ call.written : views[v] = call.views[v]
        /\ step \notin {"write", "log", "commit", "undo"}
              => call.written = {} \/ (step = "release" /\ answer = "ok")
        /\ step \notin {"commit", "undo", "abort", "release"} => ~call.spoilt

\* The entries of the log that a call has read are readable in what it puts in
\* its place: those that it leaves out are in a whole archive.
EntriesSafe ==
    /\ EntriesKept
    /\ step # "idle" => /\ plan.log = RolledOver(call.log)
                        /\ TooLarge(call.log) => plan.archive = call.log.entries
    /\ step \in {"settle", "recheck", "write", "log", "commit", "undo"}
          => plan.archive = {} \/ archives[plan.archive] = "full"
    /\ Replacing => (1 .. entries) \ raced \subseteq Readable(call.log)

SyncInv == SyncTypeOK /\ ViewsKnown /\ EntriesSafe

\* There are no entries and no call at first.
LEMMA SyncInitial == SyncInit => SyncInv
<1>. SUFFICES ASSUME SyncInit  PROVE  SyncInv
  OBVIOUS
<1>. USE DEF SyncInit, SyncEmpty, OpInit
<1>1. SyncTypeOK
  BY FaultsAssumption, SyncBoundsAssumption
     DEF SyncTypeOK, OpTypeOK, Answers, View, MissingView, OwnView, Log, Digests, Entry,
         Extent
<1>2. ViewsKnown /\ EntriesSafe
  BY DEF ViewsKnown, EntriesSafe, EntriesKept, Replacing
<1>. QED  BY <1>1, <1>2 DEF SyncInv

\* The plan of a call has the types that its receipt and its record ask for.
LEMMA PlanTypes ==
    ASSUME SyncTypeOK
    PROVE  PlanFor(tasks, views, log) \in Plan
<1>1. log.entries \in Digests /\ log.pointers \in SUBSET Digests /\ log \in Log
  BY DEF SyncTypeOK, Log
<1>2. Latest(log.entries, Keep) \in Digests
  BY <1>1 DEF Latest, Digests
<1>3. RolledOver(log) \in Log
  BY <1>1, <1>2 DEF RolledOver, Log
<1>4. (IF TooLarge(log) THEN log.entries ELSE {}) \in Digests
  BY <1>1 DEF Digests
<1>. QED  BY <1>3, <1>4 DEF PlanFor, Plan, SyncTypeOK

\* Every step of a sync and of its environment keeps the types.
LEMMA SyncTypesKept == SyncTypeOK /\ SyncNext => SyncTypeOK'
<1>. SUFFICES ASSUME SyncTypeOK, SyncNext  PROVE  SyncTypeOK'
  OBVIOUS
<1>. USE DEF SyncTypeOK
<1>1. /\ {"check", "archive", "intent", "copy", "settle", "recheck", "write", "log",
          "commit", "undo", "abort", "release"} \subseteq SyncSteps
      /\ "idle" \notin SyncSteps
  BY DEF SyncSteps
<1>2. /\ answer \in Answers /\ "replay" \in Answers /\ "error" \in Answers
      /\ step # "idle" =>
            /\ call \in SyncCalls
            /\ call.id \in SyncOps /\ call.digest \in Plan /\ plan \in Plan
            /\ plan.tasks \in 0 .. MaxTasks /\ plan.log \in Log /\ plan.archive \in Digests
            /\ call.views \in [Views -> View] /\ call.log \in Log
  BY DEF OpTypeOK, SyncCalls, plan, Plan, Answers
<1>3. ASSUME NEW o \in SyncOps, NEW dated \in BOOLEAN, StartSync(o, dated)
      PROVE  SyncTypeOK'
  <2>1. Rewrites(dated, log) \in BOOLEAN
    BY DEF Rewrites, TooLarge
  <2>2. [id |-> o, digest |-> PlanFor(tasks, views, log), views |-> views,
         log |-> log, rewrites |-> Rewrites(dated, log), written |-> {},
         logged |-> FALSE, spoilt |-> FALSE] \in SyncCalls
    BY <2>1, PlanTypes DEF SyncCalls
  <2>. QED
    BY <1>3, <2>2 DEF StartSync, Enter, OpTypeOK, SyncSteps, Answers, syncVars, syncFiles
<1>4. ASSUME NEW outcome \in Outcomes,
             BeginSync(outcome) \/ CommitSync(outcome) \/ AbortSync(outcome)
      PROVE  SyncTypeOK'
  <2>1. OpTypeOK(SyncOps, Plan, SyncCalls, SyncSteps)'
    BY <1>1, <1>2, <1>4, BeginTypes, CommitTypes, AbortTypes
       DEF BeginSync, CommitSync, AbortSync
  <2>. QED  BY <1>4, <2>1 DEF BeginSync, CommitSync, AbortSync, syncVars, syncFiles
<1>5. CASE BeginSyncRefused \/ AbortSyncRefused
  <2>1. OpTypeOK(SyncOps, Plan, SyncCalls, SyncSteps)'
    BY <1>1, <1>2, <1>5, BeginRefusedTypes, AbortRefusedTypes
       DEF BeginSyncRefused, AbortSyncRefused
  <2>. QED  BY <1>5, <2>1 DEF BeginSyncRefused, AbortSyncRefused, syncVars, syncFiles
<1>6. CASE CheckPlanned \/ CheckAgain \/ ArchiveFound \/ NoHardLink \/ ViewsWritten \/ Undone
  <2>1. /\ step' \in SyncSteps /\ answer' \in Answers /\ step # "idle"
        /\ UNCHANGED <<receipts, lock, call, faults, syncVars>>
    BY <1>1, <1>2, <1>6
       DEF CheckPlanned, CheckAgain, CheckLog, ArchiveFound, NoHardLink, ViewsWritten, Undone
  <2>. QED  BY <1>1, <2>1 DEF OpTypeOK, syncVars, syncFiles
<1>7. CASE ReadLogFails
  BY <1>1, <1>2, <1>7, FaultsAssumption
     DEF ReadLogFails, Write, Failed, OpTypeOK, syncVars, syncFiles
<1>8. ASSUME NEW outcome \in Outcomes,
             \/ LinkArchive(outcome) \/ WriteIntent(outcome)
             \/ CopyArchive(outcome) \/ RemoveIntent(outcome)
      PROVE  SyncTypeOK'
  <2>1. /\ step # "idle"
        /\ UNCHANGED <<receipts, lock, call, tasks, views, log, entries, raced>>
    BY <1>8 DEF LinkArchive, WriteIntent, CopyArchive, RemoveIntent
  <2>2. step' \in SyncSteps /\ answer' \in Answers /\ faults' \in 0 .. MaxFaults
    BY <1>1, <1>2, <1>8, FaultsAssumption
       DEF LinkArchive, WriteIntent, CopyArchive, RemoveIntent, Continue, Write, OpTypeOK
  <2>3. ASSUME NEW old \in Extent, NEW e \in Completed(outcome, old)
        PROVE  e \in Extent
    BY <2>3 DEF Completed, Extent, Outcomes
  <2>4. archives' \in [Digests -> Extent] /\ intents' \in [Digests -> Extent]
    BY <1>2, <1>8, <2>1, <2>3
       DEF LinkArchive, WriteIntent, CopyArchive, RemoveIntent, Written, Extent
  <2>. QED  BY <1>1, <2>1, <2>2, <2>4 DEF OpTypeOK
<1>9. ASSUME NEW outcome \in Outcomes,
             \/ \E v \in Views : WriteView(v, outcome) \/ UndoView(v, outcome)
             \/ WriteLog(outcome) \/ UndoLog(outcome)
      PROVE  SyncTypeOK'
  <2>1. /\ step # "idle"
        /\ UNCHANGED <<receipts, lock, tasks, archives, intents, entries, raced>>
    BY <1>9 DEF WriteView, UndoView, WriteLog, UndoLog
  <2>2. step' \in SyncSteps /\ answer' \in Answers /\ faults' \in 0 .. MaxFaults
    <3>1. Write(outcome)
      BY <1>9 DEF WriteView, UndoView, WriteLog, UndoLog
    <3>2. step' \in {step, "undo", "commit"} /\ answer' \in {answer, "error"}
      BY <1>9 DEF WriteView, UndoView, WriteLog, UndoLog, Continue
    <3>. QED  BY <1>1, <1>2, <2>1, <3>1, <3>2, FaultsAssumption DEF Write, OpTypeOK
  <2>3. call' \in SyncCalls
    <3>1. ASSUME NEW v \in Views, WriteView(v, outcome)
          PROVE  call' \in SyncCalls
      BY <1>2, <2>1, <3>1 DEF WriteView, SyncCalls
    <3>2. ASSUME NEW v \in Views, UndoView(v, outcome)
          PROVE  call' \in SyncCalls
      BY <1>2, <2>1, <3>2 DEF UndoView, SyncCalls
    <3>3. CASE WriteLog(outcome)
      BY <1>2, <2>1, <3>3 DEF WriteLog, SyncCalls
    <3>4. CASE UndoLog(outcome)
      BY <1>2, <2>1, <3>4 DEF UndoLog, SyncCalls
    <3>. QED  BY <1>9, <3>1, <3>2, <3>3, <3>4
  <2>4. views' \in [Views -> View]
    <3>1. Derived(plan.tasks) \in View
      BY <1>2, <2>1 DEF View, Derived
    <3>2. \/ UNCHANGED views
          \/ \E v \in Views, w \in View : views' = [views EXCEPT ![v] = w]
      BY <1>2, <1>9, <2>1, <3>1 DEF WriteView, UndoView, WriteLog, UndoLog, Written
    <3>. QED  BY <3>2
  <2>5. log' \in Log
    BY <1>2, <1>9, <2>1 DEF WriteView, UndoView, WriteLog, UndoLog, Written
  <2>. QED  BY <1>1, <2>1, <2>2, <2>3, <2>4, <2>5 DEF OpTypeOK
<1>10. CASE \/ ReleaseSync \/ CrashSync \/ ReconcileSyncLock
            \/ \E o \in SyncOps : AbortSyncOperation(o) \/ NewSyncId(o)
  <2>1. OpTypeOK(SyncOps, Plan, SyncCalls, SyncSteps)'
    BY <1>10, EndTypes
       DEF ReleaseSync, CrashSync, ReconcileSyncLock, AbortSyncOperation, NewSyncId
  <2>2. /\ UNCHANGED <<tasks, views, log, entries, raced>>
        /\ archives' \in [Digests -> Extent] /\ intents' \in [Digests -> Extent]
    BY <1>10
       DEF ReleaseSync, CrashSync, ReconcileSyncLock, AbortSyncOperation, NewSyncId,
           syncVars, syncFiles, Extent
  <2>. QED  BY <2>1, <2>2
<1>11. CASE WriteEntry
  <2>1. entries + 1 \in Entry /\ entries' \in 0 .. MaxEntries
    BY <1>11, SyncBoundsAssumption DEF WriteEntry, Entry
  <2>2. log' \in Log /\ raced' \subseteq Entry
    BY <1>11, <2>1 DEF WriteEntry, Log, Digests
  <2>. QED  BY <1>11, <2>1, <2>2 DEF WriteEntry, opVars, OpTypeOK
<1>12. CASE ChangeTasks
  BY <1>12, SyncBoundsAssumption DEF ChangeTasks, opVars, OpTypeOK
<1>. QED
  BY <1>3, <1>4, <1>5, <1>6, <1>7, <1>8, <1>9, <1>10, <1>11, <1>12
     DEF SyncNext, SyncWrites

\* A sync puts every view back that it has written.
LEMMA ViewsKnownKept == SyncTypeOK /\ ViewsKnown /\ SyncNext => ViewsKnown'
<1>. SUFFICES ASSUME SyncTypeOK, ViewsKnown, SyncNext  PROVE  ViewsKnown'
  OBVIOUS
<1>. USE DEF ViewsKnown
<1>0. /\ views \in [Views -> View]
      /\ step # "idle" => call \in SyncCalls
  BY DEF SyncTypeOK, OpTypeOK
<1>1. ASSUME NEW o \in SyncOps, NEW dated \in BOOLEAN, StartSync(o, dated)
      PROVE  ViewsKnown'
  BY <1>1 DEF StartSync, Enter, syncVars, syncFiles
<1>2. ASSUME NEW outcome \in Outcomes, NEW v \in Views, WriteView(v, outcome)
      PROVE  ViewsKnown'
  BY <1>0, <1>2 DEF WriteView, Written, Failed, SyncCalls, Outcomes
<1>3. ASSUME NEW outcome \in Outcomes, NEW v \in Views, UndoView(v, outcome)
      PROVE  ViewsKnown'
  BY <1>0, <1>3 DEF UndoView, Written, SyncCalls
<1>4. ASSUME NEW outcome \in Outcomes, WriteLog(outcome) \/ UndoLog(outcome)
      PROVE  ViewsKnown'
  BY <1>0, <1>4 DEF WriteLog, UndoLog, Continue, Failed, SyncCalls
<1>5. CASE \/ \E outcome \in Outcomes :
                 \/ BeginSync(outcome) \/ LinkArchive(outcome) \/ WriteIntent(outcome)
                 \/ CopyArchive(outcome) \/ RemoveIntent(outcome)
                 \/ CommitSync(outcome) \/ AbortSync(outcome)
           \/ BeginSyncRefused \/ CheckPlanned \/ CheckAgain \/ ReadLogFails
           \/ ArchiveFound \/ NoHardLink \/ ViewsWritten \/ Undone \/ AbortSyncRefused
  <2>1. UNCHANGED <<call, views>> /\ step # "idle"
    BY <1>5
       DEF BeginSync, Begin, LinkArchive, WriteIntent, CopyArchive, RemoveIntent,
           CommitSync, Commit, AbortSync, Abort, BeginSyncRefused, BeginRefused,
           CheckPlanned, CheckAgain, CheckLog, ReadLogFails, ArchiveFound, NoHardLink,
           ViewsWritten, Undone, AbortSyncRefused, AbortRefused, syncVars, syncFiles
  <2>2. /\ step' \notin {"write", "log", "commit", "undo"}
              => call.written = {} \/ (step' = "release" /\ answer' = "ok")
        /\ step' \notin {"commit", "undo", "abort", "release"} => ~call.spoilt
    BY <1>0, <1>5, <2>1
       DEF BeginSync, Begin, Continue, LinkArchive, WriteIntent, CopyArchive, RemoveIntent,
           CommitSync, Commit, AbortSync, Abort, BeginSyncRefused, BeginRefused,
           CheckPlanned, CheckAgain, CheckLog, ReadLogFails, ArchiveFound, NoHardLink,
           ViewsWritten, Undone, AbortSyncRefused, AbortRefused
  <2>. QED  BY <2>1, <2>2
<1>6. CASE \/ ReleaseSync \/ CrashSync \/ ReconcileSyncLock \/ WriteEntry \/ ChangeTasks
           \/ \E o \in SyncOps : AbortSyncOperation(o) \/ NewSyncId(o)
  BY <1>6
     DEF ReleaseSync, Release, ReleaseFails, CrashSync, Crash, End, ReconcileSyncLock,
         ReconcileLock, WriteEntry, ChangeTasks, AbortSyncOperation, AbortOperation,
         NewSyncId, NewId, opVars, syncVars, syncFiles
<1>. QED
  BY <1>1, <1>2, <1>3, <1>4, <1>5, <1>6 DEF SyncNext, SyncWrites

\* A log that is rolled over leaves what it leaves out in its archive.
LEMMA RolloverReadable ==
    ASSUME NEW l, TooLarge(l) => archives[l.entries] = "full"
    PROVE  Readable(l) \subseteq Readable(RolledOver(l))
<1>1. CASE TooLarge(l)
  <2>1. RolledOver(l).pointers = l.pointers \cup {l.entries}
    BY <1>1 DEF RolledOver
  <2>. QED  BY <1>1, <2>1 DEF Readable
<1>2. CASE ~TooLarge(l)
  BY <1>2 DEF RolledOver
<1>. QED  BY <1>1, <1>2

\* No entry is lost but those that were written while the log was replaced.
LEMMA EntriesSafeKept == SyncTypeOK /\ EntriesSafe /\ SyncNext => EntriesSafe'
<1>. SUFFICES ASSUME SyncTypeOK, EntriesSafe, SyncNext  PROVE  EntriesSafe'
  OBVIOUS
<1>. USE DEF EntriesSafe
<1>0. /\ archives \in [Digests -> Extent] /\ entries \in Nat
      /\ log \in [entries : Digests, pointers : SUBSET Digests]
      /\ step # "idle" => call \in SyncCalls /\ plan.archive \in Digests
  BY SyncBoundsAssumption DEF SyncTypeOK, OpTypeOK, SyncCalls, plan, Plan, Log
<1>1. ASSUME NEW o \in SyncOps, NEW dated \in BOOLEAN, StartSync(o, dated)
      PROVE  EntriesSafe'
  <2>1. /\ UNCHANGED <<log, archives, entries, raced>> /\ step' = "begin"
        /\ call'.log = log /\ call'.digest = PlanFor(tasks, views, log)
    BY <1>1 DEF StartSync, Enter, syncVars, syncFiles
  <2>2. plan' = PlanFor(tasks, views, log)
    BY <2>1 DEF plan
  <2>. QED
    BY <2>1, <2>2 DEF PlanFor, EntriesKept, Readable, Replacing, RolledOver, TooLarge, Latest
<1>2. CASE \/ \E outcome \in Outcomes :
                 \/ BeginSync(outcome) \/ LinkArchive(outcome) \/ WriteIntent(outcome)
                 \/ CopyArchive(outcome) \/ RemoveIntent(outcome)
                 \/ CommitSync(outcome) \/ AbortSync(outcome)
                 \/ \E v \in Views : WriteView(v, outcome) \/ UndoView(v, outcome)
           \/ BeginSyncRefused \/ CheckPlanned \/ CheckAgain \/ ReadLogFails
           \/ ArchiveFound \/ NoHardLink \/ ViewsWritten \/ Undone \/ AbortSyncRefused
  <2>1. /\ UNCHANGED <<log, entries, raced>> /\ step # "idle"
        /\ call'.digest = call.digest /\ call'.log = call.log
        /\ \A d \in Digests : archives[d] = "full" => archives'[d] = "full"
    <3>1. ASSUME NEW outcome \in Outcomes, LinkArchive(outcome) \/ CopyArchive(outcome)
          PROVE  \A d \in Digests : archives[d] = "full" => archives'[d] = "full"
      BY <1>0, <3>1 DEF LinkArchive, CopyArchive, Completed, Written
    <3>2. ASSUME NEW outcome \in Outcomes, LinkArchive(outcome) \/ CopyArchive(outcome)
          PROVE  UNCHANGED <<call, log, entries, raced>> /\ step # "idle"
      BY <3>2 DEF LinkArchive, CopyArchive
    <3>3. ASSUME NEW outcome \in Outcomes, NEW v \in Views,
                 WriteView(v, outcome) \/ UndoView(v, outcome)
          PROVE  /\ UNCHANGED <<log, archives, entries, raced>> /\ step # "idle"
                 /\ call'.digest = call.digest /\ call'.log = call.log
      BY <1>0, <3>3 DEF WriteView, UndoView, SyncCalls
    <3>4. CASE \/ \E outcome \in Outcomes :
                     \/ BeginSync(outcome) \/ WriteIntent(outcome) \/ RemoveIntent(outcome)
                     \/ CommitSync(outcome) \/ AbortSync(outcome)
               \/ BeginSyncRefused \/ CheckPlanned \/ CheckAgain \/ ReadLogFails
               \/ ArchiveFound \/ NoHardLink \/ ViewsWritten \/ Undone \/ AbortSyncRefused
      <4>1. UNCHANGED <<call, log, archives, entries, raced>> /\ step # "idle"
        BY <3>4
           DEF BeginSync, Begin, WriteIntent, RemoveIntent, CommitSync, Commit, AbortSync,
               Abort, BeginSyncRefused, BeginRefused, CheckPlanned, CheckAgain, CheckLog,
               ReadLogFails, ArchiveFound, NoHardLink, ViewsWritten, Undone,
               AbortSyncRefused, AbortRefused, syncVars, syncFiles
      <4>. QED  BY <4>1
    <3>. QED  BY <1>2, <3>1, <3>2, <3>3, <3>4
  <2>2. plan' = plan
    BY <2>1 DEF plan
  <2>3. step' \in {"settle", "recheck", "write", "log", "commit", "undo"}
           => plan.archive = {} \/ archives'[plan.archive] = "full"
    BY <1>0, <1>2, <2>1
       DEF BeginSync, Begin, Continue, LinkArchive, WriteIntent, CopyArchive, RemoveIntent,
           Completed, Written, Failed,
           CommitSync, Commit, AbortSync, Abort, WriteView, UndoView,
           BeginSyncRefused, BeginRefused,
           CheckPlanned, CheckAgain, CheckLog, ReadLogFails, ArchiveFound, NoHardLink,
           ViewsWritten, Undone, AbortSyncRefused, AbortRefused
  <2>4. Replacing' => Replacing \/ (CheckAgain /\ log = call.log)
    BY <1>2
       DEF BeginSync, Begin, Continue, LinkArchive, WriteIntent, CopyArchive, RemoveIntent,
           CommitSync, Commit, AbortSync, Abort, WriteView, UndoView, Replacing,
           BeginSyncRefused, BeginRefused,
           CheckPlanned, CheckAgain, CheckLog, ReadLogFails, ArchiveFound, NoHardLink,
           ViewsWritten, Undone, AbortSyncRefused, AbortRefused
  <2>5. ASSUME NEW l \in Log  PROVE  Readable(l) \subseteq Readable(l)'
    BY <2>1 DEF Readable, Log
  <2>6. call.log \in Log /\ log \in Log
    BY <1>0, <2>1 DEF SyncCalls, Log
  <2>7. EntriesKept'
    BY <2>1, <2>5, <2>6 DEF EntriesKept, Readable
  <2>8. Replacing' => ((1 .. entries) \ raced \subseteq Readable(call.log))'
    BY <2>1, <2>4, <2>5, <2>6 DEF EntriesKept, Readable
  <2>. QED
    BY <2>1, <2>2, <2>3, <2>7, <2>8 DEF RolledOver, TooLarge, Latest
<1>3. ASSUME NEW outcome \in Outcomes, WriteLog(outcome) \/ UndoLog(outcome)
      PROVE  EntriesSafe'
  <2>1. /\ UNCHANGED <<archives, entries, raced>> /\ step \in {"log", "undo"}
        /\ step' \in {"commit", "undo"} /\ Replacing
        /\ call'.digest = call.digest /\ call'.log = call.log
        /\ log' \in {log, plan.log, call.log}
    BY <1>0, <1>3 DEF WriteLog, UndoLog, Written, Continue, SyncCalls, Replacing
  <2>2. plan' = plan
    BY <2>1 DEF plan
  <2>3. call.log \in Log
    BY <1>0, <2>1 DEF SyncCalls
  <2>4. TooLarge(call.log) => call.log.entries # {}
    <3>1. Cardinality({}) = 0 /\ MaxActive \in Nat
      BY FS_EmptySet, SyncBoundsAssumption
    <3>. QED  BY <3>1 DEF TooLarge
  <2>5. Readable(call.log) \subseteq Readable(plan.log)
    BY <2>1, <2>4, RolloverReadable
  <2>6. EntriesKept'
    BY <2>1, <2>5 DEF EntriesKept, Readable
  <2>. QED
    BY <2>1, <2>2, <2>6 DEF RolledOver, TooLarge, Latest, Readable, Replacing
<1>4. CASE WriteEntry
  <2>1. /\ UNCHANGED <<step, call, archives>> /\ entries' = entries + 1
        /\ log' = [log EXCEPT !.entries = @ \cup {entries + 1}]
        /\ raced \subseteq raced'
        /\ Replacing => entries + 1 \in raced'
    BY <1>4 DEF WriteEntry, opVars
  <2>2. Readable(log) \cup {entries + 1} \subseteq Readable(log)'
    BY <1>0, <2>1 DEF Readable
  <2>3. 1 .. entries' \subseteq (1 .. entries) \cup {entries + 1}
    BY <1>0, <2>1
  <2>4. EntriesKept'
    <3>. SUFFICES ASSUME NEW e \in 1 .. entries', e \notin raced'
                  PROVE  e \in Readable(log)'
      BY DEF EntriesKept
    <3>1. e \in 1 .. entries /\ e \notin raced => e \in Readable(log)
      BY DEF EntriesKept
    <3>. QED  BY <2>1, <2>2, <2>3, <3>1
  <2>5. Replacing' => ((1 .. entries) \ raced \subseteq Readable(call.log))'
    <3>. SUFFICES ASSUME Replacing', NEW e \in 1 .. entries', e \notin raced'
                  PROVE  e \in Readable(call.log)'
      OBVIOUS
    <3>1. Replacing /\ e # entries + 1
      BY <2>1 DEF Replacing
    <3>2. e \in 1 .. entries /\ e \notin raced
      BY <2>1, <2>3, <3>1
    <3>3. e \in Readable(call.log)
      BY <3>1, <3>2
    <3>. QED  BY <2>1, <3>3 DEF Readable
  <2>. QED
    BY <2>1, <2>4, <2>5 DEF RolledOver, TooLarge, Latest, plan
<1>5. CASE \/ ReleaseSync \/ CrashSync \/ ChangeTasks
           \/ \E o \in SyncOps : AbortSyncOperation(o) \/ NewSyncId(o)
  <2>1. /\ UNCHANGED <<log, entries, raced>>
        /\ step' = "idle"
    BY <1>5
       DEF ReleaseSync, Release, ReleaseFails, CrashSync, Crash, End, ChangeTasks,
           AbortSyncOperation, AbortOperation, NewSyncId, NewId, opVars, syncVars,
           syncFiles
  <2>2. \A d \in Digests : archives[d] = "full" => archives'[d] = "full"
    <3>1. CASE CrashSync
      BY <1>0, <3>1 DEF CrashSync, Crash
    <3>2. CASE ~CrashSync
      BY <1>5, <3>2
         DEF ReleaseSync, ChangeTasks, AbortSyncOperation, NewSyncId, syncVars, syncFiles
    <3>. QED  BY <3>1, <3>2
  <2>3. log \in Log
    BY <1>0 DEF Log
  <2>4. Readable(log) \subseteq Readable(log)'
    BY <2>1, <2>2, <2>3 DEF Readable, Log
  <2>. QED  BY <2>1, <2>4 DEF EntriesKept, Replacing
<1>6. CASE ReconcileSyncLock
  BY <1>6
     DEF ReconcileSyncLock, ReconcileLock, syncVars, syncFiles, EntriesKept, Replacing,
         Readable, RolledOver, TooLarge, Latest, plan
<1>. QED
  BY <1>1, <1>2, <1>3, <1>4, <1>5, <1>6 DEF SyncNext, SyncWrites

\* The invariant of sync, under every step.
LEMMA SyncKept == SyncInv /\ [SyncNext]_<<opVars, syncVars>> => SyncInv'
<1>1. SyncInv /\ UNCHANGED <<opVars, syncVars>> => SyncInv'
  BY DEF SyncInv, SyncTypeOK, OpTypeOK, ViewsKnown, EntriesSafe, EntriesKept, Replacing,
         Readable, RolledOver, TooLarge, Latest, plan, opVars, syncVars, syncFiles
<1>. QED  BY <1>1, SyncTypesKept, ViewsKnownKept, EntriesSafeKept DEF SyncInv

\* What the invariant says of the daily log and of a sync that has failed.
LEMMA SyncInvPromises == SyncInv => EntriesKept /\ SyncRestored
<1>. SUFFICES ASSUME SyncInv  PROVE  EntriesKept /\ SyncRestored
  OBVIOUS
<1>1. EntriesKept
  BY DEF SyncInv, EntriesSafe
<1>2. SyncRestored
  <2>. SUFFICES ASSUME step = "release", answer = "error", ~call.spoilt
                PROVE  views = call.views
    BY DEF SyncRestored
  <2>1. \A v \in Views : views[v] = call.views[v]
    BY DEF SyncInv, ViewsKnown
  <2>2. views \in [Views -> View] /\ call.views \in [Views -> View]
    BY DEF SyncInv, SyncTypeOK, OpTypeOK, SyncCalls
  <2>. QED  BY <2>1, <2>2
<1>. QED  BY <1>1, <1>2

\* Whatever people append before and after a sync stays readable, rolled over,
\* interrupted or rolled back, and a sync that fails leaves the views as it found
\* them: for any number of entries, views, failures and crashes.
THEOREM SyncLosesNothing == SyncSpec => [](EntriesKept /\ SyncRestored)
BY SyncInitial, SyncKept, SyncInvPromises, PTL DEF SyncSpec

-------------------------------------------------------------------------------
(* ProjectMap.tla *)

\* The map of the call in flight is as it was found until it is written, and,
\* unless something could not be put back, after it was undone.
MapKnown ==
    step # "idle" =>
        /\ step \in {"begin", "read", "json"} => mapFiles = call.old
        /\ step \notin {"undo", "abort", "release"} =>
              call.left = MapFiles /\ ~call.spoilt
        /\ step = "undo" /\ ~call.spoilt =>
              \A f \in MapFiles \ call.left : mapFiles[f] = call.old[f]
        /\ step \in {"abort", "release"} /\ ~call.spoilt =>
              mapFiles = call.old \/ (step = "release" /\ answer = "ok")

\* What is written so far is the rendering, and once the sources were read again
\* the rendering is of a version that was current under the lock.
MapWhole ==
    /\ step # "idle" => version \in call.since
    /\ step \in {"html", "read_again", "manifest", "commit"} => mapFiles["json"] = rendered
    /\ step \in {"read_again", "manifest", "commit"} => mapFiles["html"] = rendered
    /\ step \in {"manifest", "commit"} => rendered \in call.since
    /\ step = "commit" => mapFiles["manifest"] = rendered
    /\ answer = "ok" => step = "release" /\ Valid(rendered) /\ rendered \in call.since

MapInv == MapTypeOK /\ MapKnown /\ MapWhole

\* There is no map at first.
LEMMA MapInitial == MapInit => MapInv
BY FaultsAssumption, VersionsAssumption
   DEF MapInit, MapEmpty, OpInit, MapInv, MapTypeOK, OpTypeOK, Answers, MapVersions,
       MapKnown, MapWhole

\* Every step of project-map and of its environment keeps the types.
LEMMA MapTypesKept == MapTypeOK /\ MapNext => MapTypeOK'
<1>. SUFFICES ASSUME MapTypeOK, MapNext  PROVE  MapTypeOK'
  OBVIOUS
<1>. USE DEF MapTypeOK
<1>1. MapSteps \cup {"idle"} = {"begin", "read", "json", "html", "read_again", "manifest",
                                "commit", "undo", "abort", "release", "idle"}
      /\ "idle" \notin MapSteps
  BY DEF MapSteps
<1>2. /\ answer \in Answers /\ "replay" \in Answers /\ "error" \in Answers
      /\ step # "idle" =>
            /\ call \in MapCalls
            /\ call.id \in MapOps /\ call.digest \in MapVersions /\ rendered \in MapVersions
            /\ call.old \in [MapFiles -> MapVersions \cup {NoMap}]
  BY DEF OpTypeOK, MapCalls, rendered, Answers
<1>3. ASSUME NEW o \in MapOps, Render(o)
      PROVE  MapTypeOK'
  BY <1>3 DEF Render, opVars, OpTypeOK
<1>4. ASSUME NEW o \in MapOps, StartMap(o)
      PROVE  MapTypeOK'
  <2>1. renderings[o] \in MapVersions /\ {version} \subseteq MapVersions
    BY <1>4 DEF StartMap
  <2>2. [id |-> o, digest |-> renderings[o], old |-> mapFiles, since |-> {version},
         left |-> MapFiles, spoilt |-> FALSE] \in MapCalls
    BY <2>1 DEF MapCalls
  <2>. QED  BY <1>1, <1>4, <2>2 DEF StartMap, Enter, OpTypeOK, Answers
<1>5. ASSUME NEW outcome \in Outcomes,
             BeginMap(outcome) \/ CommitMap(outcome) \/ AbortMap(outcome)
      PROVE  MapTypeOK'
  <2>1. {"read", "undo", "abort", "release"} \subseteq MapSteps
    BY DEF MapSteps
  <2>2. OpTypeOK(MapOps, MapVersions, MapCalls, MapSteps)'
    BY <1>1, <1>2, <1>5, <2>1, BeginTypes, CommitTypes, AbortTypes
       DEF BeginMap, CommitMap, AbortMap
  <2>. QED  BY <1>5, <2>2 DEF BeginMap, CommitMap, AbortMap, mapVars
<1>6. CASE BeginMapRefused \/ AbortMapRefused
  <2>1. {"abort", "release"} \subseteq MapSteps
    BY DEF MapSteps
  <2>2. OpTypeOK(MapOps, MapVersions, MapCalls, MapSteps)'
    BY <1>1, <1>2, <1>6, <2>1, BeginRefusedTypes, AbortRefusedTypes
       DEF BeginMapRefused, AbortMapRefused
  <2>. QED  BY <1>6, <2>2 DEF BeginMapRefused, AbortMapRefused, mapVars
<1>7. CASE ReadBefore \/ ReadAfter \/ ReadMapFails \/ MapUndone
  <2>1. /\ UNCHANGED <<receipts, lock, call, mapVars>> /\ step # "idle"
        /\ step' \in {"json", "abort", "manifest", "undo", "release"}
        /\ answer' \in Answers /\ faults' \in 0 .. MaxFaults
    BY <1>2, <1>7, FaultsAssumption
       DEF ReadBefore, ReadAfter, ReadSources, ReadMapFails, MapUndone, Write, Failed,
           OpTypeOK
  <2>. QED  BY <1>1, <2>1 DEF OpTypeOK, mapVars
<1>8. ASSUME NEW outcome \in Outcomes, WriteMap(outcome)
      PROVE  MapTypeOK'
  <2>1. /\ UNCHANGED <<receipts, lock, call, version, renderings>> /\ step # "idle"
        /\ step' \in {"html", "read_again", "commit", "undo"}
        /\ answer' \in Answers /\ faults' \in 0 .. MaxFaults
    BY <1>2, <1>8, FaultsAssumption
       DEF WriteMap, WriteMapFile, Write, Failed, Continue, OpTypeOK
  <2>2. mapFiles' \in [MapFiles -> MapVersions \cup {NoMap}]
    BY <1>2, <1>8, <2>1 DEF WriteMap, WriteMapFile, Written
  <2>. QED  BY <1>1, <2>1, <2>2 DEF OpTypeOK
<1>9. ASSUME NEW outcome \in Outcomes, NEW f \in MapFiles, UndoMapFile(f, outcome)
      PROVE  MapTypeOK'
  <2>1. call' \in MapCalls /\ step # "idle"
    BY <1>2, <1>9 DEF UndoMapFile, MapCalls
  <2>2. mapFiles' \in [MapFiles -> MapVersions \cup {NoMap}]
    BY <1>2, <1>9, <2>1 DEF UndoMapFile, Written
  <2>. QED
    BY <1>9, <2>1, <2>2, FaultsAssumption DEF UndoMapFile, Write, OpTypeOK
<1>10. CASE \/ ReleaseMap \/ CrashMap \/ ReconcileMapLock
            \/ \E o \in MapOps : AbortMapOperation(o)
  <2>1. OpTypeOK(MapOps, MapVersions, MapCalls, MapSteps)'
    BY <1>10, EndTypes DEF ReleaseMap, CrashMap, ReconcileMapLock, AbortMapOperation
  <2>. QED
    BY <1>10, <2>1 DEF ReleaseMap, CrashMap, ReconcileMapLock, AbortMapOperation, mapVars
<1>11. CASE EditSources
  <2>1. version + 1 \in MapVersions
    BY <1>11, VersionsAssumption DEF EditSources, MapVersions
  <2>2. step # "idle" => call' \in MapCalls
    BY <1>2, <1>11, <2>1 DEF EditSources, MapCalls
  <2>. QED  BY <1>11, <2>1, <2>2 DEF EditSources, OpTypeOK
<1>. QED
  BY <1>3, <1>4, <1>5, <1>6, <1>7, <1>8, <1>9, <1>10, <1>11 DEF MapNext, MapWrites

\* project-map knows what it has found and what it has written.
LEMMA MapStepKept ==
    MapTypeOK /\ MapKnown /\ MapWhole /\ MapNext => MapKnown' /\ MapWhole'
<1>. SUFFICES ASSUME MapTypeOK, MapKnown, MapWhole, MapNext
              PROVE  MapKnown' /\ MapWhole'
  OBVIOUS
<1>. USE DEF MapKnown, MapWhole
<1>0. /\ mapFiles \in [MapFiles -> MapVersions \cup {NoMap}] /\ version \in Nat
      /\ step # "idle" => call \in MapCalls
      /\ {"json", "html", "manifest"} = MapFiles
  BY VersionsAssumption DEF MapTypeOK, OpTypeOK, MapVersions, MapFiles
<1>1. ASSUME NEW o \in MapOps, Render(o) \/ AbortMapOperation(o)
      PROVE  MapKnown' /\ MapWhole'
  BY <1>1 DEF Render, AbortMapOperation, AbortOperation, opVars, mapVars, rendered, Valid
<1>2. ASSUME NEW o \in MapOps, StartMap(o)
      PROVE  MapKnown' /\ MapWhole'
  BY <1>2 DEF StartMap, Enter
<1>3. CASE \/ \E outcome \in Outcomes :
                 BeginMap(outcome) \/ CommitMap(outcome) \/ AbortMap(outcome)
           \/ BeginMapRefused \/ ReadBefore \/ ReadAfter \/ ReadMapFails \/ MapUndone
           \/ AbortMapRefused
  <2>1. UNCHANGED <<call, mapVars, rendered>> /\ step # "idle"
    BY <1>3
       DEF BeginMap, Begin, CommitMap, Commit, AbortMap, Abort, BeginMapRefused,
           BeginRefused, ReadBefore, ReadAfter, ReadSources, ReadMapFails, MapUndone,
           AbortMapRefused, AbortRefused, mapVars, rendered
  <2>2. CASE \E outcome \in Outcomes :
                BeginMap(outcome) \/ CommitMap(outcome) \/ AbortMap(outcome)
    BY <1>0, <2>1, <2>2
       DEF BeginMap, Begin, Continue, CommitMap, Commit, AbortMap, Abort, Failed, Valid,
           mapVars
  <2>3. CASE BeginMapRefused \/ AbortMapRefused \/ ReadMapFails
    BY <1>0, <2>1, <2>3
       DEF BeginMapRefused, BeginRefused, AbortMapRefused, AbortRefused, ReadMapFails,
           Valid, mapVars
  <2>4. CASE ReadBefore \/ ReadAfter
    BY <1>0, <2>1, <2>4 DEF ReadBefore, ReadAfter, ReadSources, Valid, mapVars
  <2>5. CASE MapUndone
    <3>1. ~call.spoilt => mapFiles = call.old
      BY <1>0, <2>5 DEF MapUndone, MapCalls
    <3>. QED  BY <2>1, <2>5, <3>1 DEF MapUndone, Valid, mapVars
  <2>. QED  BY <1>3, <2>2, <2>3, <2>4, <2>5
<1>4. ASSUME NEW outcome \in Outcomes, WriteMap(outcome)
      PROVE  MapKnown' /\ MapWhole'
  BY <1>0, <1>4
     DEF WriteMap, WriteMapFile, Written, Continue, Failed, rendered, Valid
<1>5. ASSUME NEW outcome \in Outcomes, NEW f \in MapFiles, UndoMapFile(f, outcome)
      PROVE  MapKnown' /\ MapWhole'
  <2>1. /\ step = "undo" /\ step' = "undo" /\ UNCHANGED <<answer, version>>
        /\ call'.old = call.old /\ call'.since = call.since
        /\ call'.left = call.left \ {f}
        /\ mapFiles' = [mapFiles EXCEPT ![f] = Written(outcome, @, call.old[f])]
        /\ ~call'.spoilt => ~call.spoilt /\ outcome # "lost"
    BY <1>0, <1>5 DEF UndoMapFile, MapCalls
  <2>2. ~call'.spoilt => \A g \in MapFiles \ call'.left : mapFiles'[g] = call'.old[g]
    BY <1>0, <2>1 DEF Written
  <2>. QED  BY <2>1, <2>2
<1>6. CASE ReleaseMap \/ CrashMap
  BY <1>6 DEF ReleaseMap, Release, ReleaseFails, CrashMap, Crash, End
<1>7. CASE ReconcileMapLock
  BY <1>7 DEF ReconcileMapLock, ReconcileLock, mapVars, rendered, Valid
<1>8. CASE EditSources
  <2>1. /\ UNCHANGED <<step, answer, mapFiles>> /\ version' = version + 1
        /\ step # "idle" =>
              /\ call'.old = call.old /\ call'.left = call.left
              /\ call'.spoilt = call.spoilt /\ call'.digest = call.digest
              /\ call'.since = call.since \cup {version + 1}
    BY <1>0, <1>8 DEF EditSources, MapCalls
  <2>. QED  BY <2>1 DEF rendered, Valid
<1>. QED
  BY <1>1, <1>2, <1>3, <1>4, <1>5, <1>6, <1>7, <1>8 DEF MapNext, MapWrites

\* The invariant of project-map, under every step.
LEMMA MapKept == MapInv /\ [MapNext]_<<opVars, mapVars>> => MapInv'
<1>1. MapInv /\ UNCHANGED <<opVars, mapVars>> => MapInv'
  BY DEF MapInv, MapTypeOK, OpTypeOK, MapKnown, MapWhole, rendered, Valid, opVars, mapVars
<1>. QED  BY <1>1, MapTypesKept, MapStepKept DEF MapInv

\* What the invariant says of a map that was written and of one that was not.
LEMMA MapInvPromises == MapInv => MapIsCurrent /\ MapRestored
BY DEF MapInv, MapKnown, MapWhole, MapIsCurrent, MapRestored

\* A project map that is reported as written is whole and was current under the
\* lock, and a call that fails puts the map back: for any number of versions,
\* calls, failures and crashes.
THEOREM MapsAreCurrent == MapSpec => [](MapIsCurrent /\ MapRestored)
BY MapInitial, MapKept, MapInvPromises, PTL DEF MapSpec

-------------------------------------------------------------------------------
(* Scaffold.tla, again: what a failed init leaves. *)

\* A file that the call in flight has not written is as it has found it, unless a
\* write failed after it had taken effect, or could not be put back.
TemplatesKnown ==
    step # "idle" =>
        /\ ~call.spoilt =>
              \A f \in ScaffoldFiles \ call.written : scaffold[f] = call.old[f]
        /\ step \notin {"write", "commit", "undo"}
              => call.written = {} \/ (step = "release" /\ answer = "ok")
        /\ step \notin {"commit", "undo", "abort", "release"} => ~call.spoilt

\* Every step of init and of its environment keeps that.
LEMMA TemplatesKnownKept ==
    ScaffoldTypeOK /\ TemplatesKnown /\ ScaffoldNext => TemplatesKnown'
<1>. SUFFICES ASSUME ScaffoldTypeOK, TemplatesKnown, ScaffoldNext
              PROVE  TemplatesKnown'
  OBVIOUS
<1>. USE DEF TemplatesKnown
<1>0. /\ scaffold \in [ScaffoldFiles -> FileContent]
      /\ step # "idle" => call \in ScaffoldCalls
  BY DEF ScaffoldTypeOK, OpTypeOK, ScaffoldContents
<1>1. ASSUME NEW o \in InitOps, NEW l \in Languages, NEW force \in BOOLEAN,
             StartInit(o, l, force)
      PROVE  TemplatesKnown'
  BY <1>1 DEF StartInit, Enter
<1>2. ASSUME NEW f \in ScaffoldFiles, NEW outcome \in Outcomes, WriteTemplate(f, outcome)
      PROVE  TemplatesKnown'
  BY <1>0, <1>2 DEF WriteTemplate, Written, Failed, ScaffoldCalls, Outcomes
<1>3. ASSUME NEW f \in ScaffoldFiles, NEW outcome \in Outcomes, UndoTemplate(f, outcome)
      PROVE  TemplatesKnown'
  BY <1>0, <1>3 DEF UndoTemplate, Written, ScaffoldCalls
<1>4. CASE \/ \E outcome \in Outcomes :
                 BeginInit(outcome) \/ CommitInit(outcome) \/ AbortInit(outcome)
           \/ BeginInitRefused \/ TemplatesWritten \/ InitUndone \/ AbortInitRefused
  <2>1. UNCHANGED <<call, scaffold>> /\ step # "idle"
    BY <1>4
       DEF BeginInit, Begin, CommitInit, Commit, AbortInit, Abort, BeginInitRefused,
           BeginRefused, TemplatesWritten, InitUndone, AbortInitRefused, AbortRefused
  <2>2. /\ step' \notin {"write", "commit", "undo"}
              => call.written = {} \/ (step' = "release" /\ answer' = "ok")
        /\ step' \notin {"commit", "undo", "abort", "release"} => ~call.spoilt
    BY <1>4, <2>1
       DEF BeginInit, Begin, Continue, CommitInit, Commit, AbortInit, Abort,
           BeginInitRefused, BeginRefused, TemplatesWritten, InitUndone,
           AbortInitRefused, AbortRefused
  <2>. QED  BY <2>1, <2>2
<1>5. CASE \/ ReleaseInit \/ CrashInit \/ ReconcileInitLock
           \/ \E o \in InitOps : AbortInitOperation(o)
           \/ \E f \in ScaffoldFiles : WriteOwn(f)
  BY <1>5
     DEF ReleaseInit, Release, ReleaseFails, CrashInit, Crash, End, ReconcileInitLock,
         ReconcileLock, AbortInitOperation, AbortOperation, WriteOwn, opVars
<1>. QED  BY <1>1, <1>2, <1>3, <1>4, <1>5 DEF ScaffoldNext, ScaffoldWrites

TemplatesInv == ScaffoldTypeOK /\ TemplatesKnown

\* No init is in flight at first.
LEMMA TemplatesInitial == ScaffoldInit => TemplatesInv
BY ScaffoldInitial DEF ScaffoldInv, TemplatesInv, TemplatesKnown, ScaffoldInit, OpInit

\* The two together, under every step.
LEMMA TemplatesKept == TemplatesInv /\ [ScaffoldNext]_<<opVars, scaffold>> => TemplatesInv'
<1>1. TemplatesInv /\ UNCHANGED <<opVars, scaffold>> => TemplatesInv'
  BY DEF TemplatesInv, ScaffoldTypeOK, OpTypeOK, TemplatesKnown, opVars
<1>. QED  BY <1>1, ScaffoldTypesKept, TemplatesKnownKept DEF TemplatesInv

\* A failed init whose rollback was not disturbed has put every file back.
LEMMA TemplatesRestored == TemplatesInv => InitRestored
<1>. SUFFICES ASSUME TemplatesInv, step = "release", answer = "error", ~call.spoilt
              PROVE  scaffold = call.old
  BY DEF InitRestored
<1>1. \A f \in ScaffoldFiles : scaffold[f] = call.old[f]
  BY DEF TemplatesInv, TemplatesKnown
<1>2. scaffold \in ScaffoldContents /\ call.old \in ScaffoldContents
  BY DEF TemplatesInv, ScaffoldTypeOK, OpTypeOK, ScaffoldCalls
<1>. QED  BY <1>1, <1>2 DEF ScaffoldContents

-------------------------------------------------------------------------------
(* NormalizeTasks.tla *)

\* What the parser makes of the first lines.
IsReading(read, d) ==
    read = [n \in 0 .. Len(d) |-> IF n = 0 THEN Reading("between", FALSE, <<>>)
                                  ELSE ReadLine(read[n - 1], d[n])]

\* The recursion of ReadTasks, line by line, is well founded.
LEMMA ReadingExists ==
    ASSUME NEW d, Len(d) \in Nat
    PROVE  \E read : IsReading(read, d)
                     /\ ReadTasks(d) = IF read[Len(d)].seen THEN read[Len(d)].tasks ELSE Unparsed
<1>. DEFINE Def(g, k) == g = [n \in 0 .. k |-> IF n = 0 THEN Reading("between", FALSE, <<>>)
                                             ELSE ReadLine(g[n - 1], d[n])]
            S == {k \in Nat : \E g : Def(g, k)}
<1>1. 0 \in S
  <2>. DEFINE g == [n \in 0 .. 0 |-> Reading("between", FALSE, <<>>)]
  <2>1. \A n \in 0 .. 0 : n = 0
    OBVIOUS
  <2>2. Def(g, 0)
    BY <2>1
  <2>. HIDE DEF Def
  <2>. QED  BY <2>2
<1>2. ASSUME NEW k \in Nat, k \in S  PROVE  k + 1 \in S
  <2>1. PICK g : Def(g, k)
    <3>. HIDE DEF Def
    <3>. QED  BY <1>2
  <2>. DEFINE h == [n \in 0 .. k + 1 |-> IF n = 0 THEN Reading("between", FALSE, <<>>)
                                         ELSE ReadLine(g[n - 1], d[n])]
  <2>2. ASSUME NEW n \in 0 .. k + 1, n # 0  PROVE h[n - 1] = g[n - 1]
    <3>1. n - 1 \in 0 .. k /\ n - 1 \in 0 .. k + 1
      BY <2>2
    <3>2. h[n - 1] = IF n - 1 = 0 THEN Reading("between", FALSE, <<>>)
                                  ELSE ReadLine(g[n - 1 - 1], d[n - 1])
      BY <3>1
    <3>3. g[n - 1] = IF n - 1 = 0 THEN Reading("between", FALSE, <<>>)
                                  ELSE ReadLine(g[n - 1 - 1], d[n - 1])
      BY <2>1, <3>1
    <3>. QED  BY <3>2, <3>3
  <2>3. Def(h, k + 1)
    BY <2>2
  <2>. HIDE DEF Def
  <2>. QED  BY <2>3
<1>3. PICK g : Def(g, Len(d))
  <2>1. Nat \subseteq S
    <3>. HIDE DEF S
    <3>. QED  BY <1>1, <1>2, NatSetInduction
  <2>. HIDE DEF Def
  <2>. QED  BY <2>1
<1>4. \E r : r = [n \in 0 .. Len(d) |-> IF n = 0 THEN Reading("between", FALSE, <<>>)
                                        ELSE ReadLine(r[n - 1], d[n])]
  BY <1>3
<1>. QED  BY <1>4 DEF ReadTasks, IsReading

\* Normalising keeps what every line is.
LEMMA NormalLines ==
    ASSUME NEW d \in Documents
    PROVE  LET D == Normalized(d)
           IN  /\ D \in Documents /\ DOMAIN D = DOMAIN d /\ Len(D) = Len(d)
               /\ \A n \in DOMAIN d : \/ D[n] = d[n]
                                      \/ /\ d[n] \in Row /\ D[n] \in Row /\ D[n].id = d[n].id
                                         /\ D[n].status = NormalStatus(d[n].status)
                                         /\ d[FirstLine(d)] = Header
                                         /\ FirstLine(d) .. n \subseteq TableLines(d)
               /\ \A n \in DOMAIN d : /\ D[n] \in Row <=> d[n] \in Row
                                      /\ \A m \in {Header, Torn, Blank, Prose} :
                                            D[n] = m <=> d[n] = m
               /\ TableLines(D) = TableLines(d) /\ FirstLine(D) = FirstLine(d)
<1>. DEFINE D == Normalized(d)
<1>1. PICK k \in 0 .. MaxLines : d \in [1 .. k -> Line]
  BY DEF Documents
<1>2. DOMAIN d = 1 .. k /\ Len(d) = k /\ k \in Nat /\ \A n \in 1 .. k : d[n] \in Line
  BY <1>1, MaxLinesAssumption
<1>3. DOMAIN D = 1 .. k
  BY <1>2 DEF Normalized
<1>4. ASSUME NEW n \in 1 .. k
      PROVE  \/ D[n] = d[n]
             \/ /\ d[n] \in Row /\ D[n] \in Row /\ D[n].id = d[n].id
                /\ D[n].status = NormalStatus(d[n].status)
                /\ d[FirstLine(d)] = Header
                /\ FirstLine(d) .. n \subseteq TableLines(d)
  <2>. DEFINE changes == /\ d[n] \in Row /\ d[FirstLine(d)] = Header
                         /\ FirstLine(d) .. n \subseteq TableLines(d)
  <2>1. D[n] = IF changes THEN [d[n] EXCEPT !.status = NormalStatus(@)] ELSE d[n]
    BY <1>2 DEF Normalized
  <2>2. ASSUME NEW r \in Row
        PROVE  LET s == [r EXCEPT !.status = NormalStatus(@)]
               IN  s \in Row /\ s.id = r.id /\ s.status = NormalStatus(r.status)
    <3>1. r.status \in Spellings /\ NormalStatus(r.status) \in Spellings
      BY SpellingsAssumption DEF Row
    <3>. QED  BY <3>1 DEF Row
  <2>. QED  BY <2>1, <2>2
<1>5. ASSUME NEW n \in 1 .. k
      PROVE  /\ D[n] \in Row <=> d[n] \in Row
             /\ \A m \in {Header, Torn, Blank, Prose} : D[n] = m <=> d[n] = m
             /\ D[n] \in Line
  <2>. HIDE DEF D
  <2>. QED  BY <1>2, <1>4, LinesAssumption DEF Line
<1>6. D \in [1 .. k -> Line]
  <2>1. D = [n \in 1 .. k |-> D[n]]
    BY <1>2 DEF Normalized
  <2>. HIDE DEF D
  <2>. QED  BY <1>5, <2>1
<1>7. D \in Documents
  <2>. HIDE DEF D
  <2>. QED  BY <1>6 DEF Documents
<1>8. TableLines(D) = TableLines(d)
  <2>. HIDE DEF D
  <2>. QED  BY <1>2, <1>3, <1>5 DEF TableLines, IsRow
<1>9. FirstLine(D) = FirstLine(d)
  BY <1>8 DEF FirstLine
<1>10. Len(D) = Len(d)
  <2>. HIDE DEF D
  <2>. QED  BY <1>2, <1>6
<1>. HIDE DEF D
<1>11. QED  BY <1>2, <1>3, <1>4, <1>5, <1>7, <1>8, <1>9, <1>10 DEF D

\* The first line of the first table.
LEMMA FirstLineKnown ==
    ASSUME NEW d \in Documents, TableLines(d) # {}
    PROVE  /\ FirstLine(d) \in TableLines(d) /\ FirstLine(d) \in DOMAIN d
           /\ \A m \in TableLines(d) : FirstLine(d) <= m
<1>1. TableLines(d) \subseteq Nat /\ TableLines(d) \subseteq DOMAIN d
  BY MaxLinesAssumption DEF Documents, TableLines
<1>2. \E n \in TableLines(d) : \A m \in TableLines(d) : n <= m
  BY <1>1, LeastNatural
<1>. QED  BY <1>1, <1>2 DEF FirstLine

\* A second time there is nothing left to do.
LEMMA NormalizedAgain ==
    ASSUME NEW d \in Documents
    PROVE  Normalized(Normalized(d)) = Normalized(d)
<1>. DEFINE D == Normalized(d)
<1>1. ASSUME NEW n \in DOMAIN D
      PROVE  (IF /\ D[n] \in Row
                 /\ D[FirstLine(D)] = Header
                 /\ FirstLine(D) .. n \subseteq TableLines(D)
              THEN [D[n] EXCEPT !.status = NormalStatus(@)] ELSE D[n]) = D[n]
  <2>. SUFFICES ASSUME D[n] \in Row, D[FirstLine(d)] = Header,
                       FirstLine(d) .. n \subseteq TableLines(d)
                PROVE  [D[n] EXCEPT !.status = NormalStatus(@)] = D[n]
    BY NormalLines
  <2>1. n \in DOMAIN d /\ d[n] \in Row
    BY NormalLines
  <2>2. d[FirstLine(d)] = Header
    <3>1. n \in TableLines(d)
      BY <2>1 DEF TableLines, IsRow
    <3>. QED  BY <3>1, FirstLineKnown, NormalLines
  <2>3. D[n] = [d[n] EXCEPT !.status = NormalStatus(@)]
    BY <2>1, <2>2 DEF Normalized
  <2>4. NormalStatus(NormalStatus(d[n].status)) = NormalStatus(d[n].status)
    BY DEF NormalStatus
  <2>5. D[n].status = NormalStatus(d[n].status)
    BY <2>1, <2>3 DEF Row
  <2>. HIDE DEF D
  <2>. QED  BY <2>4, <2>5 DEF Row
<1>2. D = [n \in DOMAIN D |-> D[n]]
  BY DEF Normalized
<1>. QED
  <2>. HIDE DEF D
  <2>1. Normalized(D) = [n \in DOMAIN D |-> D[n]]
    BY <1>1 DEF Normalized
  <2>. QED  BY <1>2, <2>1 DEF D

\* Nothing but the spelling of a status that counts is changed.
LEMMA SameRowTaken ==
    ASSUME NEW line \in Row, NEW other \in Row, other.id = line.id,
           other.status = NormalStatus(line.status), NEW known
    PROVE  TakeRow(known, line) # Unparsed => TakeRow(known, other) = TakeRow(known, line)
<1>. SUFFICES ASSUME TakeRow(known, line) # Unparsed
              PROVE  TakeRow(known, other) = TakeRow(known, line)
  OBVIOUS
<1>1. Parsed(line.status) \in TaskStatus
  BY DEF TakeRow, Parseable
<1>2. Parsed(other.status) = Parsed(line.status)
  BY <1>1 DEF Parsed, NormalStatus, TaskStatus
<1>. QED  BY <1>1, <1>2 DEF TakeRow, Parseable

\* The readings of two documents agree, as long as the first is not refused.
Agree(a, b) == /\ a.place = b.place /\ a.seen = b.seen
               /\ a.tasks # Unparsed => b.tasks = a.tasks

\* They still do after the same line,
LEMMA SameLineRead ==
    ASSUME NEW a, NEW b, Agree(a, b), NEW line
    PROVE  Agree(ReadLine(a, line), ReadLine(b, line))
<1>1. TakeRow(a.tasks, line) # Unparsed => TakeRow(b.tasks, line) = TakeRow(a.tasks, line)
  BY DEF Agree, TakeRow
<1>2. CASE line = Blank
  <2>1. ReadLine(a, line) = a /\ ReadLine(b, line) = b
    BY <1>2, LinesAssumption DEF ReadLine, IsRow
  <2>. QED  BY <2>1
<1>3. CASE line # Blank /\ line = Prose
  <2>1. /\ ReadLine(a, line) = Reading("between", a.seen, a.tasks)
        /\ ReadLine(b, line) = Reading("between", b.seen, b.tasks)
    BY <1>3, LinesAssumption DEF ReadLine, IsRow
  <2>. QED  BY <2>1 DEF Agree, Reading
<1>4. CASE line \notin {Blank, Prose} /\ line = Header /\ a.place # "passed"
  <2>1. /\ ReadLine(a, line) = Reading("rows", TRUE, a.tasks)
        /\ ReadLine(b, line) = Reading("rows", TRUE, b.tasks)
    BY <1>4, LinesAssumption DEF ReadLine, Agree, IsRow
  <2>. QED  BY <2>1 DEF Agree, Reading
<1>5. CASE line \notin {Blank, Prose, Header} /\ IsRow(line) /\ a.place = "rows"
  <2>1. /\ ReadLine(a, line) = Reading("rows", TRUE, TakeRow(a.tasks, line))
        /\ ReadLine(b, line) = Reading("rows", TRUE, TakeRow(b.tasks, line))
    BY <1>5, LinesAssumption DEF ReadLine, Agree, IsRow
  <2>. QED  BY <1>1, <2>1 DEF Agree, Reading
<1>6. CASE line \notin {Blank, Prose, Header} /\ IsRow(line) /\ a.place = "between"
  <2>1. /\ ReadLine(a, line) = IF a.seen /\ Parseable(line)
                               THEN Reading("rows", TRUE, TakeRow(a.tasks, line))
                               ELSE Reading("passed", a.seen, IF a.seen THEN a.tasks ELSE Unparsed)
        /\ ReadLine(b, line) = IF b.seen /\ Parseable(line)
                               THEN Reading("rows", TRUE, TakeRow(b.tasks, line))
                               ELSE Reading("passed", b.seen, IF b.seen THEN b.tasks ELSE Unparsed)
    BY <1>6, LinesAssumption DEF ReadLine, Agree, IsRow
  <2>2. CASE a.seen /\ Parseable(line)
    <3>1. /\ ReadLine(a, line) = Reading("rows", TRUE, TakeRow(a.tasks, line))
          /\ ReadLine(b, line) = Reading("rows", TRUE, TakeRow(b.tasks, line))
      BY <2>1, <2>2 DEF Agree
    <3>. QED  BY <1>1, <3>1 DEF Agree, Reading
  <2>3. CASE ~(a.seen /\ Parseable(line))
    <3>1. /\ ReadLine(a, line) = Reading("passed", a.seen, IF a.seen THEN a.tasks ELSE Unparsed)
          /\ ReadLine(b, line) = Reading("passed", b.seen, IF b.seen THEN b.tasks ELSE Unparsed)
      BY <2>1, <2>3 DEF Agree
    <3>. QED  BY <3>1 DEF Agree, Reading
  <2>. QED  BY <2>2, <2>3
<1>7. CASE /\ line \notin {Blank, Prose}
           /\ line = Header => a.place = "passed"
           /\ IsRow(line) => a.place \notin {"rows", "between"}
  <2>1. ReadLine(a, line) = a /\ ReadLine(b, line) = b
    BY <1>7, LinesAssumption DEF ReadLine, Agree, IsRow
  <2>. QED  BY <2>1
<1>. QED  BY <1>2, <1>3, <1>4, <1>5, <1>6, <1>7, LinesAssumption DEF IsRow

\* and after two rows with the same task.
LEMMA SameRowRead ==
    ASSUME NEW a, NEW b, Agree(a, b), a.place = "rows",
           NEW line \in Row, NEW other \in Row, other.id = line.id,
           other.status = NormalStatus(line.status)
    PROVE  Agree(ReadLine(a, line), ReadLine(b, other))
<1>1. TakeRow(a.tasks, line) # Unparsed => TakeRow(b.tasks, other) = TakeRow(a.tasks, line)
  <2>1. TakeRow(a.tasks, line) # Unparsed => TakeRow(b.tasks, line) = TakeRow(a.tasks, line)
    BY DEF Agree, TakeRow
  <2>. QED  BY <2>1, SameRowTaken
<1>2. /\ ReadLine(a, line) = Reading("rows", TRUE, TakeRow(a.tasks, line))
      /\ ReadLine(b, other) = Reading("rows", TRUE, TakeRow(b.tasks, other))
  BY LinesAssumption DEF ReadLine, Agree, IsRow
<1>. QED  BY <1>1, <1>2 DEF Agree, Reading

\* Line by line the parser makes the same of both documents.
LEMMA SameTasks ==
    ASSUME NEW d \in Documents, TableLines(d) # {}, ReadTasks(d) # Unparsed
    PROVE  ReadTasks(Normalized(d)) = ReadTasks(d)
<1>. DEFINE D == Normalized(d)
            first == FirstLine(d)
<1>1. /\ Len(d) \in Nat /\ DOMAIN d = 1 .. Len(d) /\ DOMAIN D = DOMAIN d /\ Len(D) = Len(d)
      /\ \A n \in DOMAIN d : d[n] \in Line
  <2>1. PICK k \in 0 .. MaxLines : d \in [1 .. k -> Line]
    BY DEF Documents
  <2>. QED  BY <2>1, MaxLinesAssumption, NormalLines
<1>2. PICK r : /\ IsReading(r, d)
               /\ ReadTasks(d) = IF r[Len(d)].seen THEN r[Len(d)].tasks ELSE Unparsed
  BY <1>1, ReadingExists
<1>3. PICK R : /\ IsReading(R, D)
               /\ ReadTasks(D) = IF R[Len(D)].seen THEN R[Len(D)].tasks ELSE Unparsed
  BY <1>1, ReadingExists
<1>4. /\ r[0] = Reading("between", FALSE, <<>>) /\ R[0] = Reading("between", FALSE, <<>>)
      /\ \A n \in 1 .. Len(d) : r[n] = ReadLine(r[n - 1], d[n]) /\ R[n] = ReadLine(R[n - 1], D[n])
  BY <1>1, <1>2, <1>3 DEF IsReading
<1>5. /\ first \in TableLines(d) /\ first \in 1 .. Len(d)
      /\ \A m \in TableLines(d) : first <= m
  BY <1>1, FirstLineKnown
<1>. HIDE DEF D, first
<1>. DEFINE Good(n) == /\ Agree(r[n], R[n])
                       /\ n < first => r[n].place = "between"
                       /\ n >= first /\ d[first] = Header /\ first .. n \subseteq TableLines(d)
                             => r[n].place = "rows"
            S == {n \in Nat : n <= Len(d) => Good(n)}
<1>6. 0 \in S
  <2>1. 0 < first /\ ~(0 >= first)
    BY <1>5
  <2>. QED  BY <1>4, <2>1 DEF Reading, Agree
<1>7. ASSUME NEW k \in Nat, k \in S  PROVE k + 1 \in S
  <2>. SUFFICES ASSUME k + 1 <= Len(d)  PROVE Good(k + 1)
    OBVIOUS
  <2>. DEFINE n == k + 1
  <2>1. /\ Good(k) /\ n \in 1 .. Len(d) /\ n \in DOMAIN d /\ n - 1 = k
        /\ r[n] = ReadLine(r[k], d[n]) /\ R[n] = ReadLine(R[k], D[n])
    BY <1>1, <1>4, <1>7
  <2>. HIDE DEF n
  <2>2. D[n] = d[n] => Agree(r[n], R[n])
    BY <2>1, SameLineRead
  <2>3. ASSUME n >= first, d[first] = Header, first .. n \subseteq TableLines(d)
        PROVE  /\ r[n].place = "rows"
               /\ n # first => r[k].place = "rows"
    <3>1. CASE n = first
      <4>1. k < first /\ d[n] = Header
        BY <1>5, <2>1, <2>3, <3>1
      <4>2. r[k].place = "between"
        BY <2>1, <4>1
      <4>3. r[n] = Reading("rows", TRUE, r[k].tasks)
        BY <2>1, <4>1, <4>2, LinesAssumption DEF ReadLine, IsRow
      <4>. QED  BY <3>1, <4>3 DEF Reading
    <3>2. CASE n # first
      <4>1. k >= first /\ first .. k \subseteq first .. n
        BY <1>5, <2>1, <2>3, <3>2
      <4>2. r[k].place = "rows"
        BY <2>1, <2>3, <4>1
      <4>3. n \in TableLines(d)
        BY <1>5, <2>1, <2>3
      <4>4. d[n] \in Row \cup {Torn, Header}
        BY <4>3 DEF TableLines, IsRow
      <4>. QED  BY <2>1, <4>2, <4>4, LinesAssumption DEF ReadLine, Reading, IsRow
    <3>. QED  BY <3>1, <3>2
  <2>4. ASSUME /\ d[n] \in Row /\ D[n] \in Row /\ D[n].id = d[n].id
               /\ D[n].status = NormalStatus(d[n].status)
               /\ d[first] = Header /\ first .. n \subseteq TableLines(d)
        PROVE  Agree(r[n], R[n])
    <3>1. n \in TableLines(d)
      BY <2>1, <2>4 DEF TableLines, IsRow
    <3>2. n >= first /\ n # first
      <4>1. n # first
        BY <2>4, LinesAssumption
      <4>2. first <= n /\ n \in Nat /\ first \in Nat
        BY <1>5, <2>1, <3>1
      <4>. QED  BY <4>1, <4>2
    <3>3. r[k].place = "rows"
      BY <2>3, <2>4, <3>2
    <3>. QED  BY <2>1, <2>4, <3>3, SameRowRead
  <2>5. ASSUME n < first  PROVE r[n].place = "between"
    <3>1. n \notin TableLines(d) /\ k < first
      BY <1>5, <2>1, <2>5
    <3>2. d[n] \in {Blank, Prose}
      BY <1>1, <2>1, <3>1 DEF TableLines, IsRow, Line
    <3>3. r[k].place = "between"
      BY <2>1, <3>1
    <3>4. r[n] = r[k] \/ r[n] = Reading("between", r[k].seen, r[k].tasks)
      BY <2>1, <3>2, LinesAssumption DEF ReadLine, IsRow
    <3>. QED  BY <3>3, <3>4 DEF Reading
  <2>6. D[n] = d[n] \/ /\ d[n] \in Row /\ D[n] \in Row /\ D[n].id = d[n].id
                       /\ D[n].status = NormalStatus(d[n].status)
                       /\ d[first] = Header /\ first .. n \subseteq TableLines(d)
    BY <2>1, NormalLines DEF D, first
  <2>7. Good(n)
    BY <2>2, <2>3, <2>4, <2>5, <2>6
  <2>. QED  BY <2>7 DEF n
<1>8. Agree(r[Len(d)], R[Len(d)])
  <2>1. Nat \subseteq S
    <3>. HIDE DEF S
    <3>. QED  BY <1>6, <1>7, NatSetInduction
  <2>. QED  BY <1>1, <2>1
<1>9. r[Len(d)].seen /\ r[Len(d)].tasks # Unparsed
  BY <1>2
<1>. QED  BY <1>1, <1>2, <1>3, <1>8, <1>9 DEF D, Agree

\* A step from "write" either leaves the document or writes it normalised.
LEMMA NormalizeRewrites == NormalizeTypeOK /\ NormalizeNext => RewritesSameTasks
<1>. SUFFICES ASSUME NormalizeTypeOK, NormalizeNext, step = "write", step' # "write",
                     document' # document
              PROVE  /\ ReadTasks(call.digest) # Unparsed
                           => ReadTasks(document') = ReadTasks(call.digest)
                     /\ Normalized(document') = document'
  BY DEF RewritesSameTasks
<1>1. call.digest \in Documents
  BY DEF NormalizeTypeOK, OpTypeOK, NormalizeCalls
<1>2. PICK outcome \in Outcomes : WriteNormalized(outcome)
  BY DEF NormalizeNext, NormalizeWrites, StartNormalize, Enter, AbortNormalizeOperation,
         BeginNormalize, CommitNormalize, AbortNormalize, BeginNormalizeRefused,
         NormalizeRefused, AbortNormalizeRefused, ReleaseNormalize, CrashNormalize,
         ReconcileNormalizeLock, AppendLine, opVars
<1>3. document' = Normalized(call.digest) /\ TableLines(call.digest) # {}
  BY <1>2 DEF WriteNormalized, Written, Normalizable
<1>. QED  BY <1>1, <1>3, SameTasks, NormalizedAgain

\* At first there is an empty file and no call.
LEMMA NormalizeInitial == NormalizeInit => NormalizeTypeOK
<1>. SUFFICES ASSUME NormalizeInit  PROVE NormalizeTypeOK
  OBVIOUS
<1>1. document \in Documents
  <2>1. document \in [1 .. 0 -> Line]
    BY DEF NormalizeInit, NormalizeEmpty
  <2>2. 0 \in 0 .. MaxLines
    BY MaxLinesAssumption
  <2>. QED  BY <2>1, <2>2 DEF Documents
<1>. QED
  BY <1>1, FaultsAssumption
     DEF NormalizeInit, NormalizeEmpty, NormalizeTypeOK, OpInit, OpTypeOK, Answers

\* Every step of normalize_tasks and of its environment keeps the types.
LEMMA NormalizeTypesKept == NormalizeTypeOK /\ NormalizeNext => NormalizeTypeOK'
<1>. SUFFICES ASSUME NormalizeTypeOK, NormalizeNext  PROVE NormalizeTypeOK'
  OBVIOUS
<1>. USE DEF NormalizeTypeOK
<1>1. /\ NormalizeSteps \cup {"idle"} = {"begin", "write", "commit", "abort", "release", "idle"}
      /\ "idle" \notin NormalizeSteps
      /\ {"begin", "write", "commit", "abort", "release"} \subseteq NormalizeSteps
  BY DEF NormalizeSteps
<1>2. /\ answer \in Answers /\ "replay" \in Answers /\ "error" \in Answers
      /\ step # "idle" => /\ call \in NormalizeCalls
                          /\ call.id \in NormalizeOps /\ call.digest \in Documents
  BY DEF OpTypeOK, NormalizeCalls, Answers
<1>3. ASSUME NEW o \in NormalizeOps, StartNormalize(o)  PROVE NormalizeTypeOK'
  <2>1. [id |-> o, digest |-> document] \in NormalizeCalls
    BY DEF NormalizeCalls
  <2>. QED  BY <1>1, <1>3, <2>1 DEF StartNormalize, Enter, OpTypeOK, Answers
<1>4. ASSUME NEW outcome \in Outcomes,
             BeginNormalize(outcome) \/ CommitNormalize(outcome) \/ AbortNormalize(outcome)
      PROVE  NormalizeTypeOK'
  <2>1. OpTypeOK(NormalizeOps, Documents, NormalizeCalls, NormalizeSteps)'
    BY <1>1, <1>2, <1>4, BeginTypes, CommitTypes, AbortTypes
       DEF BeginNormalize, CommitNormalize, AbortNormalize
  <2>. QED  BY <1>4, <2>1 DEF BeginNormalize, CommitNormalize, AbortNormalize
<1>5. CASE BeginNormalizeRefused \/ AbortNormalizeRefused
  <2>1. OpTypeOK(NormalizeOps, Documents, NormalizeCalls, NormalizeSteps)'
    BY <1>1, <1>2, <1>5, BeginRefusedTypes, AbortRefusedTypes
       DEF BeginNormalizeRefused, AbortNormalizeRefused
  <2>. QED  BY <1>5, <2>1 DEF BeginNormalizeRefused, AbortNormalizeRefused
<1>6. CASE NormalizeRefused
  BY <1>1, <1>2, <1>6 DEF NormalizeRefused, OpTypeOK
<1>7. ASSUME NEW outcome \in Outcomes, WriteNormalized(outcome)  PROVE NormalizeTypeOK'
  <2>1. /\ UNCHANGED <<receipts, lock, call>> /\ step # "idle"
        /\ step' \in {"commit", "abort"}
        /\ answer' \in Answers /\ faults' \in 0 .. MaxFaults
    BY <1>2, <1>7, FaultsAssumption DEF WriteNormalized, Write, Failed, Continue, OpTypeOK
  <2>2. document' \in Documents
    <3>1. Normalized(call.digest) \in Documents
      BY <1>2, <2>1, NormalLines
    <3>. QED  BY <1>7, <3>1 DEF WriteNormalized, Written
  <2>. QED  BY <1>1, <2>1, <2>2 DEF OpTypeOK
<1>8. CASE \/ ReleaseNormalize \/ CrashNormalize \/ ReconcileNormalizeLock
           \/ \E o \in NormalizeOps : AbortNormalizeOperation(o)
  <2>1. OpTypeOK(NormalizeOps, Documents, NormalizeCalls, NormalizeSteps)'
    BY <1>8, EndTypes
       DEF ReleaseNormalize, CrashNormalize, ReconcileNormalizeLock, AbortNormalizeOperation
  <2>. QED
    BY <1>8, <2>1
       DEF ReleaseNormalize, CrashNormalize, ReconcileNormalizeLock, AbortNormalizeOperation
<1>9. ASSUME NEW line \in Line, AppendLine(line)  PROVE NormalizeTypeOK'
  <2>1. PICK k \in 0 .. MaxLines : document \in [1 .. k -> Line]
    BY DEF Documents
  <2>2. k + 1 \in 0 .. MaxLines /\ document' \in [1 .. k + 1 -> Line]
    <3>1. document \in Seq(Line) /\ Len(document) = k /\ k \in Nat /\ k < MaxLines
      BY <1>9, <2>1, MaxLinesAssumption DEF AppendLine
    <3>2. document' = Append(document, line)
      BY <1>9 DEF AppendLine
    <3>3. k + 1 \in 0 .. MaxLines
      BY <3>1, MaxLinesAssumption
    <3>4. Append(document, line) \in [1 .. k + 1 -> Line]
      <4>. HIDE DEF NormalizeTypeOK
      <4>1. Append(document, line) \in Seq(Line) /\ Len(Append(document, line)) = k + 1
        BY <3>1, AppendProperties
      <4>. QED  BY <4>1, LenProperties
    <3>. QED  BY <3>2, <3>3, <3>4
  <2>3. document' \in Documents
    BY <2>2 DEF Documents
  <2>. QED  BY <1>9, <2>3 DEF AppendLine, opVars, OpTypeOK
<1>. QED
  BY <1>3, <1>4, <1>5, <1>6, <1>7, <1>8, <1>9 DEF NormalizeNext, NormalizeWrites

\* The types of normalize_tasks, under every step.
LEMMA NormalizeKept == NormalizeTypeOK /\ [NormalizeNext]_<<opVars, document>> => NormalizeTypeOK'
<1>1. NormalizeTypeOK /\ UNCHANGED <<opVars, document>> => NormalizeTypeOK'
  BY DEF NormalizeTypeOK, OpTypeOK, opVars
<1>. QED  BY <1>1, NormalizeTypesKept

-------------------------------------------------------------------------------
(* The components next to the others. *)

OperationsInv ==
    /\ part = "external" => ExternalInv
    /\ part = "pulse" => PulseInv
    /\ part = "gate" => SnapshotInv
    /\ part = "sync" => SyncInv
    /\ part = "closeout" => CloseoutInv
    /\ part = "map" => MapInv
    /\ part = "init" => ScaffoldInv /\ TemplatesInv
    /\ part = "normalize" => NormalizeTypeOK
    /\ GateJustified
    /\ part \in Parts

\* The invariants of the eight operations hold in the composition: each is
\* disturbed by the steps of its own component only.
LEMMA OperationsInvariant == Spec => []OperationsInv
<1>1. Init => OperationsInv
  <2>. SUFFICES ASSUME NEW p \in Parts, part = p, InitOf(p), Idle(p)  PROVE OperationsInv
    BY DEF Init
  <2>1. /\ p = "external" => ExternalInit
        /\ p = "pulse" => PulseInit
        /\ p = "gate" => SnapshotInit
        /\ p = "sync" => SyncInit
        /\ p = "closeout" => CloseoutInit
        /\ p = "map" => MapInit
        /\ p = "init" => ScaffoldInit
        /\ p = "normalize" => NormalizeInit
    BY DEF InitOf
  <2>2. GateJustified
    <3>1. p # "gate" => SnapshotEmpty
      BY DEF Idle
    <3>. QED
      BY <2>1, <3>1 DEF SnapshotInit, SnapshotEmpty, NoSnapshot, GateJustified
  <2>. QED
    BY <2>1, <2>2, ExternalInitial, PulseInitial, SnapshotInitial, SyncInitial,
       CloseoutInitial, MapInitial, ScaffoldInitial, TemplatesInitial, NormalizeInitial
       DEF OperationsInv
<1>2. OperationsInv /\ [Next]_allVars => OperationsInv'
  <2>. SUFFICES ASSUME OperationsInv, [Next]_allVars  PROVE OperationsInv'
    OBVIOUS
  <2>1. part' = part
    BY DEF Next, OperationNext, ReaderNext, Runs, Frame, allVars
  <2>2. /\ part = "external" => [ExternalNext]_<<opVars, extVars>>
        /\ part = "pulse" => [PulseNext]_<<opVars, pulseVars>>
        /\ part = "gate" => [SnapshotNext]_<<opVars, snapshotVars>>
        /\ part = "sync" => [SyncNext]_<<opVars, syncVars>>
        /\ part = "closeout" => [CloseoutNext]_<<opVars, closeoutVars>>
        /\ part = "map" => [MapNext]_<<opVars, mapVars>>
        /\ part = "init" => [ScaffoldNext]_<<opVars, scaffold>>
        /\ part = "normalize" => [NormalizeNext]_<<opVars, document>>
    BY DEF Next, OperationNext, ReaderNext, Runs, allVars, opFileVars
  <2>3. GateJustified'
    <3>1. part = "gate" => SnapshotInv'
      BY <2>2, SnapshotKept DEF OperationsInv
    <3>2. part # "gate" => snapshot' = snapshot /\ due' = due
      BY DEF Next, OperationNext, ReaderNext, Runs, Frame, allVars, opFileVars, snapshotVars
    <3>. QED
      BY <3>1, <3>2 DEF OperationsInv, SnapshotInv, Justified, Shut, GateJustified
  <2>. QED
    BY <2>1, <2>2, <2>3, ExternalKept, PulseKept, SnapshotKept, SyncKept, CloseoutKept,
       MapKept, ScaffoldKept, TemplatesKept, NormalizeKept DEF OperationsInv
<1>. QED  BY <1>1, <1>2, PTL DEF Spec

\* In the composition, too, whatever a caller was told stays true: results of
\* external operations, pulses and archives of closeouts.
THEOREM ToldStaysTold == Spec => []ToldStands
<1>1. OperationsInv => ToldStands
  BY CloseoutInvPromises
     DEF OperationsInv, ToldStands, ExternalInv, AnswerTrue, ToldIsFinal, PulseInv, PulsesTold
<1>. QED  BY <1>1, OperationsInvariant, PTL

\* In the composition, too, sync, closeout, project-map and init leave what they
\* have found when they fail and nothing disturbs the rollback.
THEOREM FailuresAreUndone == Spec => []Restored
<1>1. OperationsInv => Restored
  BY SyncInvPromises, CloseoutInvPromises, MapInvPromises, TemplatesRestored
     DEF OperationsInv, Restored
<1>. QED  BY <1>1, OperationsInvariant, PTL

\* In the composition, too, a gate allows a retry only where no failure repeats
\* and, once shut, after a pass where the code does not waive it; and it asks for
\* a verification only where there is a hypothesis.
THEOREM GatesStayJustified == Spec => []GateJustified
BY OperationsInvariant, PTL DEF OperationsInv

\* In the composition, too, no step replaces or removes a tasks.md that init has
\* found to be somebody's own.
THEOREM TasksStay == Spec => TasksKept
<1>1. OperationsInv /\ [Next]_allVars
         => [scaffold[TasksFile] = OwnFile => scaffold'[TasksFile] = OwnFile]_scaffold
  <2>. SUFFICES ASSUME OperationsInv, [Next]_allVars, scaffold' # scaffold
                PROVE  scaffold[TasksFile] = OwnFile => scaffold'[TasksFile] = OwnFile
    OBVIOUS
  <2>1. part = "init" /\ ScaffoldNext
    BY DEF Next, OperationNext, ReaderNext, Runs, Frame, allVars, opFileVars
  <2>. QED  BY <2>1, TasksSpared DEF OperationsInv
<1>. QED  BY <1>1, OperationsInvariant, PTL DEF Spec, TasksKept

\* What operations write can be used: the ledger can be read and its handoffs are
\* chains of causes, the daily log loses no entry, and a project map reported as
\* written was current; for any pulses, entries, versions, failures and crashes.
THEOREM WhatIsWrittenIsTrue == Spec => []FilesTrue
<1>1. PulseInv => LedgerReadable /\ HandoffTrue
  BY LedgerHandsOver DEF PulseInv, PulsesSound, PulseTypeOK
<1>2. OperationsInv => FilesTrue
  BY <1>1, SyncInvPromises, MapInvPromises DEF OperationsInv, FilesTrue
<1>. QED  BY <1>2, OperationsInvariant, PTL

\* No step of an operation gives up a result that counts or a verification that is
\* due, an error brings no result, and normalising a tasks.md that could be read
\* leaves the same tasks: for any records, attempts and documents.
THEOREM StepsAreSound == Spec => StepsSound
<1>. DEFINE Sound == /\ part = "external" => ErrorBringsNothing /\ ResultsKept
                     /\ part = "gate" => VerificationKept
                     /\ part = "normalize" => RewritesSameTasks
<1>1. OperationsInv /\ [Next]_allVars => [Sound]_allVars
  <2>. SUFFICES ASSUME OperationsInv, Next  PROVE Sound
    OBVIOUS
  <2>1. ASSUME part = "external"  PROVE ErrorBringsNothing /\ ResultsKept
    <3>1. ExternalInv /\ ExternalNext
      BY <2>1 DEF OperationsInv, Next, OperationNext, ReaderNext, Runs
    <3>2. CASE UNCHANGED <<opVars, extVars>>
      <4>1. receipts' = receipts /\ externals' = externals
        BY <3>2 DEF opVars, extVars
      <4>2. ResultsKept
        BY <4>1 DEF ResultsKept, Counted, Vouched
      <4>. QED  BY <3>1, <4>2, ErrorsLeaveNothing
    <3>3. CASE ~UNCHANGED <<opVars, extVars>>
      BY <3>1, <3>3, ResultsKeptByStep, ErrorsLeaveNothing
    <3>. QED  BY <3>2, <3>3
  <2>2. ASSUME part = "gate"  PROVE VerificationKept
    <3>1. SnapshotInv /\ SnapshotNext
      BY <2>2 DEF OperationsInv, Next, OperationNext, ReaderNext, Runs
    <3>2. CASE snapshot' # snapshot
      BY <3>1, <3>2, VerificationKeptByStep
    <3>3. CASE snapshot' = snapshot
      BY <3>3 DEF VerificationKept
    <3>. QED  BY <3>2, <3>3
  <2>3. ASSUME part = "normalize"  PROVE RewritesSameTasks
    <3>1. NormalizeTypeOK /\ NormalizeNext
      BY <2>3 DEF OperationsInv, Next, OperationNext, ReaderNext, Runs
    <3>. QED  BY <3>1, NormalizeRewrites
  <2>. QED  BY <2>1, <2>2, <2>3
<1>. QED  BY <1>1, OperationsInvariant, PTL DEF Spec, StepsSound

===============================================================================
