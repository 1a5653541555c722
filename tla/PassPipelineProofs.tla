--------------------------- MODULE PassPipelineProofs ---------------------------
(***************************************************************************)
(* For every set of passes, every dependency graph (with cycles and with   *)
(* names that are not registered) and every outcome of the calls: RunAll   *)
(* runs the passes in dependency order, and leaves out exactly those that  *)
(* lead into a cycle.                                                      *)
(***************************************************************************)
EXTENDS PassPipeline, SequenceTheorems, FiniteSetTheorems, WellFoundedInduction, TLAPS

-----------------------------------------------------------------------------
(* The elements of a queue.                                                *)

\* What a queue holds.
LEMMA Elements ==
    ASSUME NEW S, NEW w \in Seq(S)
    PROVE  \A x : x \in ToSet(w) <=> \E i \in 1..Len(w) : x = w[i]
BY DEF ToSet

\* What a queue holds after a push, and what it held before a pop.
LEMMA PushElements ==
    ASSUME NEW S, NEW w \in Seq(S), NEW e \in S
    PROVE  Append(w, e) \in Seq(S) /\ ToSet(Append(w, e)) = ToSet(w) \cup {e}
BY AppendProperties DEF ToSet

LEMMA PopElements ==
    ASSUME NEW S, NEW w \in Seq(S), w # <<>>
    PROVE  /\ Head(w) \in S /\ Tail(w) \in Seq(S)
           /\ ToSet(w) = {Head(w)} \cup ToSet(Tail(w))
<1> DEFINE t == Tail(w)
<1>1. Head(w) = w[1] /\ Head(w) \in S /\ t \in Seq(S) /\ Len(w) \in Nat \ {0}
    OBVIOUS
<1>2. Len(t) = Len(w) - 1 /\ \A i \in 1..Len(w) - 1 : t[i] = w[i + 1]
    BY <1>1
<1> HIDE DEF t
<1>3. ASSUME NEW x \in ToSet(w) PROVE x \in {Head(w)} \cup ToSet(t)
    <2>1. PICK i \in 1..Len(w) : x = w[i]
        BY Elements
    <2>2. i # 1 => i - 1 \in 1..Len(t) /\ x = t[i - 1]
        BY <2>1, <1>1, <1>2
    <2>3. i # 1 => x \in ToSet(t)
        BY <2>2, <1>1, Elements
    <2> QED BY <2>1, <2>3, <1>1
<1>4. ASSUME NEW x \in ToSet(t) PROVE x \in ToSet(w)
    <2>1. PICK i \in 1..Len(t) : x = t[i]
        BY <1>1, Elements
    <2>2. i + 1 \in 1..Len(w) /\ x = w[i + 1]
        BY <2>1, <1>1, <1>2
    <2> QED BY <2>2, Elements
<1>5. Head(w) \in ToSet(w)
    BY <1>1, Elements
<1> QED BY <1>1, <1>3, <1>4, <1>5 DEF t

LEMMA ConcatElements ==
    ASSUME NEW S, NEW w \in Seq(S), NEW r \in Seq(S)
    PROVE  w \o r \in Seq(S) /\ ToSet(w \o r) = ToSet(w) \cup ToSet(r)
<1>1. w \o r \in Seq(S) /\ Len(w \o r) = Len(w) + Len(r) /\ Len(w) \in Nat /\ Len(r) \in Nat
    BY ConcatProperties
<1>2. \A i \in 1..Len(w) + Len(r) : (w \o r)[i] = IF i <= Len(w) THEN w[i] ELSE r[i - Len(w)]
    BY ConcatProperties
<1>3. ASSUME NEW x \in ToSet(w \o r) PROVE x \in ToSet(w) \cup ToSet(r)
    <2>1. PICK i \in 1..Len(w) + Len(r) : x = (w \o r)[i]
        BY <1>1, Elements
    <2>2. IF i <= Len(w) THEN i \in 1..Len(w) /\ x = w[i]
          ELSE i - Len(w) \in 1..Len(r) /\ x = r[i - Len(w)]
        BY <1>1, <1>2, <2>1
    <2> QED BY <2>2, Elements
<1>4. ASSUME NEW x \in ToSet(w) PROVE x \in ToSet(w \o r)
    <2>1. PICK i \in 1..Len(w) : x = w[i]
        BY Elements
    <2>2. i \in 1..Len(w \o r) /\ x = (w \o r)[i]
        BY <1>1, <1>2, <2>1
    <2> QED BY <1>1, <2>2, Elements
<1>5. ASSUME NEW x \in ToSet(r) PROVE x \in ToSet(w \o r)
    <2>1. PICK i \in 1..Len(r) : x = r[i]
        BY Elements
    <2>2. Len(w) + i \in 1..Len(w \o r) /\ x = (w \o r)[Len(w) + i]
        BY <1>1, <1>2, <2>1
    <2> QED BY <1>1, <2>2, Elements
<1> QED BY <1>1, <1>3, <1>4, <1>5

-----------------------------------------------------------------------------
(* Queues that hold nothing twice.                                         *)

LEMMA PopInjective ==
    ASSUME NEW S, NEW w \in Seq(S), w # <<>>, IsInjective(w)
    PROVE  /\ IsInjective(Tail(w))
           /\ ToSet(Tail(w)) = ToSet(w) \ {Head(w)}
<1>1. /\ Head(w) = w[1] /\ Tail(w) \in Seq(S) /\ Len(w) \in Nat \ {0}
      /\ Len(Tail(w)) = Len(w) - 1 /\ \A i \in 1..Len(w) - 1 : Tail(w)[i] = w[i + 1]
    OBVIOUS
<1>2. \A i, j \in 1..Len(w) : w[i] = w[j] => i = j
    BY DEF IsInjective
<1>3. \A i, j \in 1..Len(w) - 1 : Tail(w)[i] = Tail(w)[j] => i = j
    BY <1>1, <1>2
<1>4. IsInjective(Tail(w))
    BY <1>1, <1>3 DEF IsInjective
<1>5. \A i \in 1..Len(w) - 1 : Tail(w)[i] # Head(w)
    BY <1>1, <1>2
<1>6. Head(w) \notin ToSet(Tail(w))
    <2>1. \A i \in 1..Len(Tail(w)) : Tail(w)[i] # Head(w)
        BY <1>1, <1>5
    <2> DEFINE t == Tail(w)
    <2>2. t \in Seq(S)
        BY <1>1
    <2> HIDE DEF t
    <2>3. \A x \in ToSet(t) : \E i \in 1..Len(t) : x = t[i]
        BY <2>2, Elements
    <2> QED BY <2>1, <2>3 DEF t
<1> QED BY <1>4, <1>6, PopElements

LEMMA PushInjective ==
    ASSUME NEW S, NEW w \in Seq(S), NEW e \in S, IsInjective(w), e \notin ToSet(w)
    PROVE  IsInjective(Append(w, e))
<1>1. \A i, j \in 1..Len(w) : w[i] = w[j] => i = j
    BY DEF IsInjective
<1>2. \A i \in 1..Len(w) : w[i] # e
    BY Elements
<1>3. /\ Append(w, e) \in Seq(S) /\ Len(w) \in Nat /\ Len(Append(w, e)) = Len(w) + 1
      /\ \A i \in 1..Len(w) : Append(w, e)[i] = w[i]
      /\ Append(w, e)[Len(w) + 1] = e
    BY AppendProperties
<1>4. \A i, j \in 1..Len(w) + 1 : Append(w, e)[i] = Append(w, e)[j] => i = j
    BY <1>1, <1>2, <1>3
<1> QED BY <1>3, <1>4 DEF IsInjective

LEMMA ConcatInjective ==
    ASSUME NEW S, NEW w \in Seq(S), NEW r \in Seq(S), IsInjective(w), IsInjective(r),
           ToSet(w) \cap ToSet(r) = {}
    PROVE  IsInjective(w \o r)
<1>1. \A i, j \in 1..Len(w) : w[i] = w[j] => i = j
    BY DEF IsInjective
<1>2. \A i, j \in 1..Len(r) : r[i] = r[j] => i = j
    BY DEF IsInjective
<1>3. \A i \in 1..Len(w), j \in 1..Len(r) : w[i] # r[j]
    BY Elements
<1>4. /\ w \o r \in Seq(S) /\ Len(w) \in Nat /\ Len(r) \in Nat
      /\ Len(w \o r) = Len(w) + Len(r)
      /\ \A i \in 1..Len(w) + Len(r) : (w \o r)[i] = IF i <= Len(w) THEN w[i] ELSE r[i - Len(w)]
    BY ConcatProperties
<1>5. ASSUME NEW i \in 1..Len(w) + Len(r), NEW j \in 1..Len(w) + Len(r),
             (w \o r)[i] = (w \o r)[j]
      PROVE  i = j
    <2>1. CASE i <= Len(w) /\ j <= Len(w)
        BY <1>1, <1>4, <1>5, <2>1
    <2>2. CASE i <= Len(w) /\ j > Len(w)
        <3>1. j - Len(w) \in 1..Len(r) /\ i \in 1..Len(w)
            BY <1>4, <2>2
        <3> QED BY <1>3, <1>4, <1>5, <2>2, <3>1
    <2>3. CASE i > Len(w) /\ j <= Len(w)
        <3>1. i - Len(w) \in 1..Len(r) /\ j \in 1..Len(w)
            BY <1>4, <2>3
        <3> QED BY <1>3, <1>4, <1>5, <2>3, <3>1
    <2>4. CASE i > Len(w) /\ j > Len(w)
        <3>1. i - Len(w) \in 1..Len(r) /\ j - Len(w) \in 1..Len(r)
            BY <1>4, <2>4
        <3>2. r[i - Len(w)] = r[j - Len(w)]
            BY <1>4, <1>5, <2>4
        <3>3. i - Len(w) = j - Len(w)
            BY <1>2, <3>1, <3>2
        <3> QED BY <1>4, <3>3
    <2> QED BY <1>4, <2>1, <2>2, <2>3, <2>4
<1> QED BY <1>4, <1>5 DEF IsInjective

-----------------------------------------------------------------------------
(* The least element of a set of natural numbers.                          *)

LEMMA NatMin ==
    ASSUME NEW S \in SUBSET Nat, S # {}
    PROVE  Min(S) \in S /\ \A y \in S : Min(S) <= y
<1>1. PICK x \in S : \A y \in S : ~ (<<y, x>> \in OpToRel(<, Nat))
    BY NatLessThanWellFounded, WFMin
<1>2. ASSUME NEW y \in S PROVE x <= y
    <2>1. <<y, x>> \in Nat \X Nat
        OBVIOUS
    <2>2. ~ (y < x)
        BY <1>1, <2>1 DEF OpToRel
    <2> QED BY <2>2
<1> QED BY <1>2 DEF Min

-----------------------------------------------------------------------------
(* The type invariant. *)

LEMMA AnyOrderFacts ==
    ASSUME NEW S, IsFiniteSet(S), NEW s \in AnyOrder(S)
    PROVE  s \in Seq(S) /\ ToSet(s) = S /\ IsInjective(s)
<1>1. Cardinality(S) \in Nat
    BY FS_CardinalityType
<1>2. s \in Seq(S) /\ IsInjective(s) /\ \A t \in S : \E i \in 1..Cardinality(S) : s[i] = t
    BY <1>1 DEF AnyOrder, Bijection, Injection, Surjection
<1>3. Len(s) = Cardinality(S) /\ \A i \in 1..Len(s) : s[i] \in S
    BY <1>1 DEF AnyOrder, Bijection, Injection
<1>4. ToSet(s) = S
    <2>1. \A x : x \in ToSet(s) <=> \E i \in 1..Len(s) : x = s[i]
        BY <1>2, Elements
    <2> QED BY <1>2, <1>3, <2>1
<1> QED BY <1>2, <1>4

LEMMA PassesFinite == ASSUME TypeOK PROVE \A S \in SUBSET passes : IsFiniteSet(S)
BY NamesAssumption, FS_Subset DEF TypeOK

LEMMA InitType == Init => TypeOK
<1> SUFFICES ASSUME Init PROVE TypeOK
    OBVIOUS
<1>1. q \in Seq(passes) /\ result \in Seq(passes) /\ toRun \in Seq(passes)
    BY EmptySeq DEF Init
<1>2. deps \in [Names -> SUBSET Names]
    BY GraphsAssumption DEF Init
<1>3. runs \in 0..MaxRuns
    BY MaxRunsAssumption DEF Init
<1>4. passes \in SUBSET Names /\ completed \in SUBSET passes /\ at \in Places /\ at # "sort"
    BY DEF Init, Places
<1>5. initialized \in BOOLEAN /\ ok \in BOOLEAN
    BY DEF Init
<1> QED BY <1>1, <1>2, <1>3, <1>4, <1>5 DEF TypeOK

LEMMA RegistryType ==
    ASSUME TypeOK, RunAll \/ \E p \in Names : AddPass(p)
    PROVE  TypeOK'
<1>1. EnsureInitialized \subseteq Names /\ passes \subseteq EnsureInitialized
    BY NamesAssumption DEF EnsureInitialized, TypeOK
<1>2. \A S : passes \subseteq S => Seq(passes) \subseteq Seq(S)
    BY SeqMonotonic
<1>3. CASE RunAll
    <2>1. passes' \subseteq Names /\ passes \subseteq passes'
        BY <1>1, <1>3 DEF RunAll
    <2>2. \A S \in SUBSET passes' : IsFiniteSet(S)
        BY <2>1, NamesAssumption, FS_Subset
    <2>3. inDegree' \in [passes' -> Nat]
        <3>1. \A p \in passes' : Cardinality(deps[p] \cap passes') \in Nat
            BY <2>2, FS_CardinalityType
        <3> QED BY <1>3, <3>1 DEF RunAll
    <2>4. q' \in Seq(passes')
        <3> DEFINE F == {p \in passes' : inDegree'[p] = 0}
        <3>1. q' \in Seq(F)
            BY <1>3, <2>2, AnyOrderFacts DEF RunAll
        <3> QED BY <3>1, SeqMonotonic
    <2>5. result' \in Seq(passes') /\ toRun' \in Seq(passes')
        BY <1>2, <1>3, <2>1, EmptySeq DEF RunAll, TypeOK
    <2>6. runs' \in 0..MaxRuns
        BY <1>3, MaxRunsAssumption DEF RunAll, TypeOK
    <2> QED BY <1>3, <2>1, <2>3, <2>4, <2>5, <2>6 DEF RunAll, TypeOK, Places
<1>4. CASE \E p \in Names : AddPass(p)
    <2>1. passes' \subseteq Names /\ passes \subseteq passes'
        BY <1>1, <1>4 DEF AddPass
    <2>2. Seq(passes) \subseteq Seq(passes')
        BY <1>2, <2>1
    <2> QED BY <1>4, <2>1, <2>2 DEF AddPass, TypeOK, Places, sorting
<1> QED BY <1>3, <1>4

LEMMA SortType ==
    ASSUME TypeOK, SortInductive, OrderNext
    PROVE  TypeOK'
<1> DEFINE h == Head(q)
           dependents == {p \in passes : h \in deps[p]}
           freed == {p \in dependents : inDegree'[p] = 0}
<1>1. h \in passes /\ Tail(q) \in Seq(passes)
    BY PopElements DEF OrderNext, TypeOK
<1>2. h \in ToSet(q)
    BY PopElements DEF OrderNext, TypeOK
<1>3. h \notin Placed
    BY <1>2 DEF OrderNext, SortInductive
<1>4. inDegree' \in [passes -> Nat]
    <2> SUFFICES ASSUME NEW p \in passes, p \in dependents PROVE inDegree[p] - 1 \in Nat
        BY DEF OrderNext, TypeOK
    <2> DEFINE D == (deps[p] \cap passes) \ Placed
    <2>1. IsFiniteSet(D)
        BY PassesFinite
    <2>2. h \in D
        BY <1>1, <1>3
    <2>3. inDegree[p] = Cardinality(D) /\ inDegree[p] \in Nat
        BY DEF OrderNext, SortInductive, TypeOK
    <2>4. inDegree[p] # 0
        BY <2>1, <2>2, <2>3, FS_EmptySet
    <2> QED BY <2>3, <2>4
<1>5. q' \in Seq(passes)
    <2>1. PICK f \in AnyOrder(freed) : q' = Tail(q) \o f
        BY DEF OrderNext
    <2>2. IsFiniteSet(freed)
        BY PassesFinite
    <2>3. f \in Seq(passes)
        BY <2>2, AnyOrderFacts, SeqMonotonic
    <2> QED BY <1>1, <2>1, <2>3, ConcatProperties
<1>6. result' \in Seq(passes)
    BY <1>1, PushElements DEF OrderNext, TypeOK
<1> QED BY <1>4, <1>5, <1>6 DEF OrderNext, TypeOK, Places, registry

LEMMA CallsType ==
    ASSUME TypeOK,
           EndSort \/ EndRun \/ \E s \in BOOLEAN : PreRun(s) \/ Run(s) \/ PostRun(s)
    PROVE  TypeOK'
<1> USE DEF TypeOK, Places, registry, sorting
<1>1. CASE EndSort
    BY <1>1 DEF EndSort
<1>2. CASE EndRun
    BY <1>2 DEF EndRun
<1>3. ASSUME NEW s \in BOOLEAN, PreRun(s) \/ Run(s)
      PROVE  TypeOK'
    BY <1>3 DEF PreRun, Run, Call
<1>4. ASSUME NEW s \in BOOLEAN, PostRun(s)
      PROVE  TypeOK'
    <2>1. toRun # <<>> => Head(toRun) \in passes /\ Tail(toRun) \in Seq(passes)
        BY PopElements
    <2> QED BY <1>4, <2>1 DEF PostRun, Call
<1> QED BY <1>1, <1>2, <1>3, <1>4

LEMMA StepType == TypeOK /\ SortInductive /\ [Next]_vars => TypeOK'
<1> SUFFICES ASSUME TypeOK, SortInductive, [Next]_vars PROVE TypeOK'
    OBVIOUS
<1>1. CASE UNCHANGED vars
    BY <1>1 DEF vars, TypeOK, registry, sorting
<1>2. CASE Next
    BY <1>2, RegistryType, SortType, CallsType DEF Next, Step
<1> QED BY <1>1, <1>2
-----------------------------------------------------------------------------
(* The inductive invariant: the sort. *)

LEMMA RunAllInductive ==
    ASSUME TypeOK, RunAll
    PROVE  PipelineInductive'
<1>1. result' = <<>> /\ Placed' = {} /\ Len(result') = 0
    BY DEF RunAll, Placed, ToSet
<1>2. \A p \in passes' : inDegree'[p] = Cardinality((deps'[p] \cap passes') \ Placed')
    BY <1>1 DEF RunAll
<1>3. /\ ToSet(q') = {p \in passes' : inDegree'[p] = 0}
      /\ IsInjective(q')
    <2>1. passes' \subseteq Names
        BY NamesAssumption DEF RunAll, EnsureInitialized, TypeOK
    <2>2. IsFiniteSet({p \in passes' : inDegree'[p] = 0})
        BY <2>1, NamesAssumption, FS_Subset
    <2> QED BY <2>2, AnyOrderFacts DEF RunAll
<1>4. SortInductive'
    BY <1>1, <1>2, <1>3 DEF RunAll, SortInductive
<1>5. IsInjective(result')
    BY <1>1 DEF IsInjective
<1>6. at' = "sort"
    BY DEF RunAll
<1> QED BY <1>1, <1>4, <1>5, <1>6 DEF PipelineInductive, OrderInductive, RunInductive

\* Placing the head of the queue: it waits for nothing, it is taken out of
\* the degrees that count it, and what that frees is queued.
LEMMA OrderNextInductive ==
    ASSUME TypeOK, PipelineInductive, OrderNext
    PROVE  PipelineInductive'
<1> DEFINE h == Head(q)
           dependents == {p \in passes : h \in deps[p]}
           zeros == {p \in passes : inDegree[p] = 0}
           freed == {p \in dependents : inDegree'[p] = 0}
           Waits(p) == (deps[p] \cap passes) \ Placed
<1>1. /\ at = "sort" /\ at' = "sort" /\ q \in Seq(passes) /\ q # <<>>
      /\ result \in Seq(passes) /\ result' = Append(result, h)
      /\ UNCHANGED <<deps, passes, completed>>
    BY DEF OrderNext, TypeOK, registry
<1>2. /\ \A p \in passes : inDegree[p] = Cardinality(Waits(p)) /\ inDegree[p] \in Nat
      /\ \A p \in passes : IsFiniteSet(Waits(p))
    BY <1>1, PassesFinite DEF PipelineInductive, SortInductive, TypeOK
<1>3. ToSet(q) = zeros \ Placed /\ IsInjective(q) /\ IsInjective(result)
    BY <1>1 DEF PipelineInductive, SortInductive, OrderInductive
<1>4. h \in ToSet(q) /\ Tail(q) \in Seq(passes)
    BY <1>1, PopElements
<1>5. h \in passes /\ h \notin Placed /\ Waits(h) = {}
    BY <1>2, <1>3, <1>4, FS_EmptySet
<1>6. Placed' = Placed \cup {h}
    BY <1>1, <1>5, PushElements DEF Placed
<1>7. \A p \in passes : inDegree'[p] = IF p \in dependents THEN inDegree[p] - 1 ELSE inDegree[p]
    BY DEF OrderNext
<1>8. ASSUME NEW p \in passes
      PROVE  inDegree'[p] = Cardinality((deps'[p] \cap passes') \ Placed')
    <2>1. (deps'[p] \cap passes') \ Placed' = Waits(p) \ {h}
        BY <1>1, <1>6
    <2>2. h \in Waits(p) <=> p \in dependents
        BY <1>5
    <2> DEFINE W == Waits(p)
    <2>3. IsFiniteSet(W) /\ inDegree[p] = Cardinality(W)
        BY <1>2
    <2> HIDE DEF W
    <2>4. Cardinality(W \ {h}) = IF h \in W THEN Cardinality(W) - 1 ELSE Cardinality(W)
        BY <2>3, FS_RemoveElement
    <2> QED BY <1>7, <2>1, <2>2, <2>3, <2>4 DEF W
<1>9. \A p \in zeros : p \notin dependents
    <2> SUFFICES ASSUME NEW p \in zeros PROVE h \notin Waits(p)
        BY <1>5
    <2> QED BY <1>2, FS_EmptySet
<1>10. \A p \in Placed' : inDegree'[p] = 0
    <2>1. Placed \subseteq zeros
        BY <1>1, Elements, ElementOfSeq DEF PipelineInductive, SortInductive, Placed
    <2> QED BY <1>3, <1>4, <1>6, <1>7, <1>9, <2>1
<1>11. PICK f \in AnyOrder(freed) : q' = Tail(q) \o f
    BY DEF OrderNext
<1>12. f \in Seq(freed) /\ ToSet(f) = freed /\ IsInjective(f)
    <2>1. IsFiniteSet(freed)
        BY PassesFinite
    <2> QED BY <1>11, <2>1, AnyOrderFacts
<1>13. f \in Seq(passes)
    BY <1>12, SeqMonotonic
<1>14. IsInjective(Tail(q)) /\ ToSet(Tail(q)) = (zeros \ Placed) \ {h}
    BY <1>1, <1>3, PopInjective
<1>15. ToSet(q') = {p \in passes' : inDegree'[p] = 0} \ Placed'
    <2>1. {p \in passes' : inDegree'[p] = 0} = zeros \cup freed
        BY <1>1, <1>7, <1>9
    <2>2. freed \cap Placed' = {}
        <3>1. Placed' \subseteq zeros
            BY <1>1, <1>3, <1>4, <1>6, Elements, ElementOfSeq
               DEF PipelineInductive, SortInductive, Placed
        <3> QED BY <1>9, <3>1
    <2>3. ToSet(q') = ToSet(Tail(q)) \cup freed
        <3> DEFINE t == Tail(q)
        <3>1. t \in Seq(passes) /\ q' = t \o f
            BY <1>4, <1>11
        <3> HIDE DEF t
        <3>2. ToSet(q') = ToSet(t) \cup ToSet(f)
            BY <1>13, <3>1, ConcatElements
        <3> QED BY <1>12, <3>2 DEF t
    <2> QED BY <1>6, <1>14, <2>1, <2>2, <2>3
<1>16. IsInjective(q')
    <2>1. ToSet(Tail(q)) \cap ToSet(f) = {}
        BY <1>9, <1>12, <1>14
    <2> QED BY <1>4, <1>11, <1>12, <1>13, <1>14, <2>1, ConcatInjective
<1>17. IsInjective(result')
    BY <1>1, <1>3, <1>5, PushInjective DEF Placed
<1>18. ASSUME NEW i \in 1..Len(result')
       PROVE  deps'[result'[i]] \cap passes' \subseteq {result'[j] : j \in 1..i - 1}
    <2>1. /\ Len(result) \in Nat /\ Len(result') = Len(result) + 1
          /\ \A j \in 1..Len(result) : result'[j] = result[j]
          /\ result'[Len(result) + 1] = h
        BY <1>1, <1>5, AppendProperties
    <2>2. CASE i \in 1..Len(result)
        <3>1. deps[result[i]] \cap passes \subseteq {result[j] : j \in 1..i - 1}
            BY <1>1, <2>2 DEF PipelineInductive, OrderInductive
        <3>2. \A j \in 1..i - 1 : result'[j] = result[j]
            BY <2>1, <2>2
        <3> QED BY <1>1, <2>1, <2>2, <3>1, <3>2
    <2>3. CASE i = Len(result) + 1
        <3>1. Placed = {result[j] : j \in 1..Len(result)}
            BY <1>1 DEF Placed, ToSet
        <3>2. deps[h] \cap passes \subseteq {result[j] : j \in 1..Len(result)}
            BY <1>5, <3>1
        <3> QED BY <1>1, <2>1, <2>3, <3>2
    <2> QED BY <2>1, <2>2, <2>3
<1>19. SortInductive'
    BY <1>1, <1>8, <1>10, <1>15, <1>16 DEF PipelineInductive, SortInductive
<1>20. OrderInductive'
    BY <1>17, <1>18 DEF OrderInductive
<1> QED BY <1>1, <1>19, <1>20 DEF PipelineInductive, RunInductive

\* The queue is empty: whatever waits for nothing has been placed.
LEMMA EndSortInductive ==
    ASSUME TypeOK, PipelineInductive, EndSort
    PROVE  PipelineInductive'
<1>1. /\ at = "sort" /\ at' = "PreRun" /\ q = <<>> /\ toRun' = result
      /\ UNCHANGED <<deps, passes, result, completed>> /\ result \in Seq(passes)
    BY DEF EndSort, registry, sorting, TypeOK
<1>2. Position' = 0 /\ Len(result') \in Nat
    BY <1>1 DEF Position
<1>3. ASSUME NEW p \in passes, FreeOf(p) PROVE p \in Placed
    <2>1. (deps[p] \cap passes) \ Placed = {}
        BY <1>3 DEF FreeOf
    <2>2. inDegree[p] = 0
        BY <1>1, <2>1, FS_EmptySet DEF PipelineInductive, SortInductive
    <2>3. ToSet(q) = {}
        BY <1>1 DEF ToSet
    <2> QED BY <1>1, <2>2, <2>3 DEF PipelineInductive, SortInductive
<1>4. completed' = {result'[j] : j \in 1..Position'}
    BY <1>1, <1>2 DEF PipelineInductive, SortInductive
<1>5. RunInductive'
    BY <1>1, <1>2, <1>3, <1>4 DEF RunInductive, FreeOf, Placed
<1> QED BY <1>1, <1>5 DEF PipelineInductive, SortInductive, OrderInductive
-----------------------------------------------------------------------------
(* The inductive invariant: the calls. *)

\* Where toRun stands in the result.
LEMMA RunPosition ==
    ASSUME TypeOK, PipelineInductive, at \in {"PreRun", "Run", "PostRun"}
    PROVE  /\ Len(toRun) \in Nat /\ Len(result) \in Nat /\ Position \in 0..Len(result)
           /\ toRun = <<>> => Position = Len(result)
           /\ toRun # <<>> => /\ Position + 1 \in 1..Len(result)
                              /\ Head(toRun) = result[Position + 1]
                              /\ Head(toRun) \in passes
<1>1. toRun \in Seq(passes) /\ result \in Seq(passes)
    BY DEF TypeOK
<1>2. Position \in 0..Len(result) /\ \A k \in 1..Len(toRun) : toRun[k] = result[Position + k]
    BY DEF PipelineInductive, RunInductive
<1>3. Len(toRun) \in Nat /\ Len(result) \in Nat
    BY <1>1
<1>4. ASSUME toRun # <<>>
      PROVE  Len(toRun) >= 1 /\ Head(toRun) = toRun[1] /\ Head(toRun) \in passes
    BY <1>1, <1>4
<1> QED BY <1>1, <1>2, <1>3, <1>4 DEF Position

LEMMA PostRunInductive ==
    ASSUME TypeOK, PipelineInductive, PostRun(TRUE)
    PROVE  PipelineInductive'
<1>1. /\ at = "PostRun" /\ at' = "PreRun" /\ toRun # <<>> /\ toRun' = Tail(toRun)
      /\ completed' = completed \cup {Head(toRun)}
      /\ UNCHANGED <<deps, passes, result>> /\ toRun \in Seq(passes)
    BY DEF PostRun, Call, registry, sorting, TypeOK
<1>2. /\ Len(toRun') = Len(toRun) - 1 /\ Len(toRun) \in Nat /\ Len(result) \in Nat
      /\ \A k \in 1..Len(toRun') : toRun'[k] = toRun[k + 1]
    BY <1>1, RunPosition
<1>3. Position' = Position + 1 /\ Position' \in 0..Len(result') /\ Position \in Nat
    BY <1>1, <1>2, RunPosition DEF Position
<1>4. ASSUME NEW k \in 1..Len(toRun') PROVE toRun'[k] = result'[Position' + k]
    <2>1. k + 1 \in 1..Len(toRun)
        BY <1>2
    <2>2. toRun[k + 1] = result[Position + (k + 1)]
        BY <1>1, <2>1 DEF PipelineInductive, RunInductive
    <2>3. Position + (k + 1) = Position' + k
        BY <1>3, <1>2
    <2> QED BY <1>1, <1>2, <2>2, <2>3
<1>5. completed' = {result'[j] : j \in 1..Position'}
    <2>1. completed = {result[j] : j \in 1..Position}
        BY <1>1 DEF PipelineInductive, RunInductive
    <2>2. 1..Position + 1 = (1..Position) \cup {Position + 1}
        BY <1>3
    <2>3. Head(toRun) = result[Position + 1]
        BY <1>1, RunPosition
    <2> QED BY <1>1, <1>3, <2>1, <2>2, <2>3
<1>6. \A p \in passes' : FreeOf(p)' => p \in Placed'
    BY <1>1 DEF PipelineInductive, RunInductive, FreeOf, Placed
<1> QED BY <1>1, <1>3, <1>4, <1>5, <1>6
        DEF PipelineInductive, SortInductive, OrderInductive, RunInductive

LEMMA CallsInductive ==
    ASSUME TypeOK, PipelineInductive,
           EndRun \/ \E s \in BOOLEAN : PreRun(s) \/ Run(s) \/ PostRun(s)
    PROVE  PipelineInductive'
<1>1. CASE at' = "idle"
    BY <1>1 DEF PipelineInductive, SortInductive, OrderInductive, RunInductive
<1>2. CASE PostRun(TRUE)
    BY <1>2, PostRunInductive
<1>3. CASE PreRun(TRUE) \/ Run(TRUE)
    <2>1. /\ at \in {"PreRun", "Run"} /\ at' \in {"Run", "PostRun"} /\ toRun # <<>>
          /\ UNCHANGED <<deps, passes, result, toRun, completed>>
        BY <1>3 DEF PreRun, Run, Call, registry, sorting
    <2>2. RunInductive'
        BY <2>1 DEF PipelineInductive, RunInductive, Position, FreeOf, Placed
    <2>3. OrderInductive'
        BY <2>1 DEF PipelineInductive, OrderInductive
    <2> QED BY <2>1, <2>2, <2>3 DEF PipelineInductive, SortInductive
<1>4. ASSUME NEW s \in BOOLEAN, PreRun(s) \/ Run(s) \/ PostRun(s), ~ s
      PROVE  at' = "idle"
    BY <1>4 DEF PreRun, Run, PostRun, Call
<1>5. EndRun => at' = "idle"
    BY DEF EndRun
<1> QED BY <1>1, <1>2, <1>3, <1>4, <1>5

LEMMA StepInductive == TypeOK /\ PipelineInductive /\ [Next]_vars => PipelineInductive'
<1> SUFFICES ASSUME TypeOK, PipelineInductive, [Next]_vars PROVE PipelineInductive'
    OBVIOUS
<1>1. CASE UNCHANGED vars
    <2>1. SortInductive'
        BY <1>1 DEF vars, registry, sorting, PipelineInductive, SortInductive, Placed
    <2>2. OrderInductive'
        BY <1>1 DEF vars, registry, sorting, PipelineInductive, OrderInductive
    <2>3. RunInductive'
        BY <1>1 DEF vars, registry, sorting, PipelineInductive, RunInductive, Position, FreeOf, Placed
    <2> QED BY <2>1, <2>2, <2>3 DEF PipelineInductive
<1>2. CASE \E p \in Names : AddPass(p)
    BY <1>2 DEF AddPass, PipelineInductive, SortInductive, OrderInductive, RunInductive
<1>3. CASE RunAll \/ Step
    BY <1>3, RunAllInductive, OrderNextInductive, EndSortInductive, CallsInductive DEF Step
<1> QED BY <1>1, <1>2, <1>3 DEF Next

THEOREM PipelineCorrect == Spec => [](TypeOK /\ PipelineInductive)
<1>1. Init => PipelineInductive
    BY DEF Init, PipelineInductive, SortInductive, OrderInductive, RunInductive
<1>2. TypeOK /\ PipelineInductive /\ [Next]_vars => TypeOK' /\ PipelineInductive'
    BY StepType, StepInductive DEF PipelineInductive
<1> QED BY <1>1, <1>2, InitType, PTL DEF Spec
-----------------------------------------------------------------------------
(* What is left out, and the refinement. *)

\* At its end RunAll has completed exactly what the sort has placed.
LEMMA EndOfRun ==
    ASSUME TypeOK, PipelineInductive, at = "PreRun", toRun = <<>>
    PROVE  completed = Placed
<1>1. completed = {result[j] : j \in 1..Len(result)}
    BY RunPosition DEF PipelineInductive, RunInductive
<1> QED BY <1>1 DEF TypeOK, Placed, ToSet

\* A set of passes each of which depends on a member of the set is never
\* entered: the first member placed would come before what it depends on.
LEMMA BlockedNeverPlaced ==
    ASSUME TypeOK, PipelineInductive, at # "idle",
           NEW C \in SUBSET passes, \A p \in C : deps[p] \cap C # {}
    PROVE  Placed \cap C = {}
<1> SUFFICES ASSUME NEW x \in Placed \cap C PROVE FALSE
    OBVIOUS
<1> DEFINE I == {i \in 1..Len(result) : result[i] \in C}
<1>1. result \in Seq(passes)
    BY DEF TypeOK
<1>2. I # {}
    BY <1>1, Elements DEF Placed
<1>3. I \in SUBSET Nat
    OBVIOUS
<1> HIDE DEF I
<1>4. PICK m \in I : \A i \in I : m <= i
    BY <1>2, <1>3, NatMin
<1>5. m \in 1..Len(result) /\ result[m] \in C
    BY DEF I
<1>6. PICK d \in deps[result[m]] \cap C : TRUE
    BY <1>5
<1>7. PICK j \in 1..m - 1 : d = result[j]
    BY <1>5, <1>6 DEF PipelineInductive, OrderInductive
<1>8. j \in I
    BY <1>1, <1>5, <1>6, <1>7 DEF I
<1> QED BY <1>4, <1>5, <1>7, <1>8

\* RunAll leaves out exactly the passes that lead into a cycle of registered
\* dependencies, for every graph.
THEOREM OnlyCyclesLeftOut == Spec => []LeavesOutOnlyCycles
<1>1. TypeOK /\ PipelineInductive => LeavesOutOnlyCycles
    <2> SUFFICES ASSUME TypeOK, PipelineInductive, at = "PreRun", toRun = <<>>
                 PROVE  completed = passes \ Blocked
        BY DEF LeavesOutOnlyCycles
    <2>1. completed = Placed
        BY EndOfRun
    <2>2. Placed \subseteq passes
        <3>1. result \in Seq(passes)
            BY DEF TypeOK
        <3> QED BY <3>1, Elements, ElementOfSeq DEF Placed
    <2>3. \A p \in passes \ Placed : deps[p] \cap (passes \ Placed) # {}
        BY DEF PipelineInductive, RunInductive, FreeOf
    <2>4. passes \ Placed \subseteq Blocked
        BY <2>3 DEF Blocked
    <2>5. Placed \cap Blocked = {}
        BY BlockedNeverPlaced DEF Blocked
    <2> QED BY <2>1, <2>2, <2>4, <2>5
<1> QED BY <1>1, PipelineCorrect, PTL

LEMMA RefineInit == Init => Order!Init
BY DEF Init, Order!Init

LEMMA RefineRegistry ==
    ASSUME TypeOK, RunAll \/ \E p \in Names : AddPass(p)
    PROVE  [Order!Next]_Order!vars
<1>1. EnsureInitialized \subseteq Names /\ \E more \in SUBSET Names : EnsureInitialized = passes \cup more
    BY NamesAssumption DEF EnsureInitialized, TypeOK
<1>2. CASE RunAll
    <2>1. Order!Begin
        BY <1>1, <1>2 DEF RunAll, Order!Begin
    <2> QED BY <2>1 DEF Order!Next
<1>3. CASE \E p \in Names : AddPass(p)
    <2>1. PICK p \in Names : AddPass(p)
        BY <1>3
    <2>2. \E more \in SUBSET Names : passes' = passes \cup more
        <3>1. PICK more \in SUBSET Names : EnsureInitialized = passes \cup more
            BY <1>1
        <3>2. passes' = passes \cup (more \cup {p}) /\ more \cup {p} \in SUBSET Names
            BY <2>1, <3>1 DEF AddPass
        <3> QED BY <3>2
    <2>3. Order!Register
        BY <2>1, <2>2 DEF AddPass, Order!Register
    <2> QED BY <2>3 DEF Order!Next
<1> QED BY <1>2, <1>3

LEMMA RefineStart ==
    ASSUME TypeOK, PipelineInductive, PreRun(TRUE)
    PROVE  \E p \in Names : Order!Start(p)
<1> DEFINE p == Head(toRun)
<1>1. /\ at = "PreRun" /\ at' = "Run" /\ toRun # <<>>
      /\ UNCHANGED <<deps, passes, result, toRun, completed>>
    BY DEF PreRun, Call, registry, sorting
<1>2. Position + 1 \in 1..Len(result) /\ p = result[Position + 1] /\ p \in passes
      /\ Position \in Nat /\ Len(result) \in Nat
    BY <1>1, RunPosition
<1>3. completed = {result[j] : j \in 1..Position}
    BY <1>1 DEF PipelineInductive, RunInductive
<1>4. p \notin completed
    <2>1. \A j \in 1..Position : result[j] # result[Position + 1]
        <3>1. \A i, j \in 1..Len(result) : result[i] = result[j] => i = j
            BY <1>1 DEF PipelineInductive, OrderInductive, IsInjective, TypeOK
        <3> QED BY <1>2, <3>1
    <2> QED BY <1>2, <1>3, <2>1
<1>5. deps[p] \cap passes \subseteq completed
    <2>1. deps[p] \cap passes \subseteq {result[j] : j \in 1..(Position + 1) - 1}
        BY <1>1, <1>2 DEF PipelineInductive, OrderInductive
    <2>2. (Position + 1) - 1 = Position
        BY <1>2
    <2> QED BY <1>3, <2>1, <2>2
<1>6. Order!Start(p)
    BY <1>1, <1>2, <1>4, <1>5 DEF Order!Start, Order!Ready
<1>7. p \in Names
    BY <1>2 DEF TypeOK
<1> QED BY <1>6, <1>7

LEMMA RefineEnd ==
    ASSUME TypeOK, PipelineInductive, EndRun
    PROVE  Order!Finish \/ Order!Abandon
<1>1. /\ at = "PreRun" /\ toRun = <<>> /\ at' = "idle"
      /\ UNCHANGED <<deps, passes, toRun, ok, completed>>
    BY DEF EndRun, registry
<1>2. completed = Placed
    BY <1>1, EndOfRun
<1>3. Order!Ready = {}
    BY <1>1, <1>2 DEF Order!Ready, PipelineInductive, RunInductive, FreeOf
<1> QED BY <1>1, <1>3 DEF Order!Finish, Order!Abandon

LEMMA RefineStep ==
    TypeOK /\ PipelineInductive /\ [Next]_vars => [Order!Next]_Order!vars
<1> SUFFICES ASSUME TypeOK, PipelineInductive, [Next]_vars
             PROVE  [Order!Next]_Order!vars
    OBVIOUS
<1>1. CASE UNCHANGED vars
    BY <1>1 DEF vars, registry, sorting, Order!vars
<1>2. CASE RunAll \/ \E p \in Names : AddPass(p)
    BY <1>2, RefineRegistry
<1>3. CASE OrderNext \/ EndSort
    BY <1>3 DEF OrderNext, EndSort, registry, sorting, Order!vars
<1>4. CASE EndRun
    BY <1>4, RefineEnd DEF Order!Next
<1>5. ASSUME NEW s \in BOOLEAN, PreRun(s) \/ Run(s) \/ PostRun(s)
      PROVE  [Order!Next]_Order!vars
    <2>1. CASE ~ s
        <3>1. Order!Abandon
            BY <1>5, <2>1 DEF PreRun, Run, PostRun, Call, registry, Order!Abandon
        <3> QED BY <3>1 DEF Order!Next
    <2>2. CASE s /\ PreRun(s)
        BY <2>2, RefineStart DEF Order!Next
    <2>3. CASE s /\ Run(s)
        BY <2>3 DEF Run, Call, registry, Order!vars
    <2>4. CASE s /\ PostRun(s)
        <3>1. Order!Complete
            BY <2>4 DEF PostRun, Call, registry, Order!Complete
        <3> QED BY <3>1 DEF Order!Next
    <2> QED BY <1>5, <2>1, <2>2, <2>3, <2>4
<1> QED BY <1>1, <1>2, <1>3, <1>4, <1>5 DEF Next, Step

\* RunAll implements the dependency order: one pass at a time, each once and
\* after its registered dependencies, for every graph and every failure.
THEOREM RunAllRespectsDependencies == Spec => ImplementsDependencyOrder
BY RefineInit, RefineStep, PipelineCorrect, PTL DEF Spec, ImplementsDependencyOrder, Order!Spec

=============================================================================
