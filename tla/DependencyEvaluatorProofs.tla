---------------------- MODULE DependencyEvaluatorProofs ----------------------
(***************************************************************************)
(* Proofs about DependencyEvaluator, for every set of items and every      *)
(* checked graph.                                                          *)
(*                                                                         *)
(* The inductive invariant says, beside the types, what the worklist of a  *)
(* re-evaluation guarantees at every point of it: an item that is waiting  *)
(* and not (or no longer) on the list really is blocked.                   *)
(***************************************************************************)
EXTENDS DependencyEvaluator, ListLemmas

\* A waiting item whose evaluation is not owed waits for an unfinished
\* dependency, and no dependency the evaluation looks at has failed.
Owed ==
  \A i \in Items :
    states[i] = "waiting" /\ i \notin Elems(pending) =>
      Blocked(i) /\ ~DependencyFailed(i)

\* An item is only skipped because of a dependency that failed.
SkippedForCause ==
  propagate_failure =>
    \A i \in Items :
      states[i] = "depfailed" => \E d \in Deps(i) : Unsuccessful(d)

IInv ==
  /\ TypeOK
  /\ RunAfterDependencies
  /\ Owed
  /\ SkippedForCause
  /\ NumRunningExact

-----------------------------------------------------------------------------
(* Facts about the graph *)

\* Dependencies and reverse dependencies are items, and converse.
LEMMA GraphFacts ==
  ASSUME TypeOK, NEW i \in Items
  PROVE  /\ getDirectDependencies(i) \in Seq(Items)
         /\ getReverseDependencies(i) \in Seq(Items)
         /\ DOMAIN getDirectDependencies(i) = 1..Len(getDirectDependencies(i))
         /\ Len(getDirectDependencies(i)) \in Nat
         /\ \A n \in DOMAIN getDirectDependencies(i) :
              getDirectDependencies(i)[n] \in Deps(i)
         /\ Deps(i) \subseteq Items
         /\ \A j \in Items : j \in Elems(getReverseDependencies(i)) <=> i \in Deps(j)
<1>1. /\ graph.deps \in [Items -> Seq(Items)]
      /\ graph.rdeps \in [Items -> Seq(Items)]
      /\ Reverses(graph.rdeps, graph.deps, Items)
  BY DEF TypeOK, CheckedGraph
<1>2. /\ graph.deps[i] \in Seq(Items) /\ graph.rdeps[i] \in Seq(Items)
      /\ DOMAIN graph.deps[i] = 1..Len(graph.deps[i])
      /\ Len(graph.deps[i]) \in Nat
  BY <1>1
<1>3. \A n \in DOMAIN graph.deps[i] : graph.deps[i][n] \in Items
  BY <1>2
<1> QED
  BY <1>1, <1>2, <1>3
  DEF Reverses, Deps, Elems, getDirectDependencies, getReverseDependencies

\* If some dependency failed, the loop of evaluate meets the first one.
LEMMA FirstFailureIsMet ==
  ASSUME TypeOK, NEW i \in Items, propagate_failure,
         NEW d \in Deps(i), Unsuccessful(d)
  PROVE  DependencyFailed(i)
<1> DEFINE deps == getDirectDependencies(i)
           S == {n \in DOMAIN deps : Unsuccessful(deps[n])}
<1>1. S # {} /\ S \subseteq Nat
  <2>1. PICK k \in DOMAIN deps : deps[k] = d
    BY DEF Deps, Elems
  <2>2. S # {}
    BY <2>1
  <2>3. DOMAIN deps \subseteq Nat
    BY GraphFacts
  <2> QED BY <2>2, <2>3
<1>2. PICK n \in S : \A m \in S : n <= m
  <2> HIDE DEF S
  <2> QED BY <1>1, LeastNatural
<1>3. n \in LookedAt(i)
  <2>1. ASSUME NEW m \in 1..(n - 1) PROVE ~Unsuccessful(deps[m])
    <3>1. m \in DOMAIN deps /\ m < n
      <4>1. n \in DOMAIN deps /\ DOMAIN deps = 1..Len(deps) /\ Len(deps) \in Nat
        BY <1>2, GraphFacts
      <4> QED BY <2>1, <4>1
    <3>2. n \in Nat /\ m \in Nat /\ ~(n <= m)
      BY <3>1, <1>1, <1>2, GraphFacts
    <3>3. m \notin S
      <4> HIDE DEF S
      <4> QED BY <3>2, <1>2
    <3> QED BY <3>1, <3>3
  <2> QED BY <2>1 DEF LookedAt
<1> QED BY <1>3 DEF DependencyFailed

\* What evaluate finds for an item depends on its dependencies only, and on
\* them only as far as they are finished.
LEMMA EvaluationIsLocal ==
  ASSUME TypeOK, NEW i \in Items,
         UNCHANGED <<graph, propagate_failure>>,
         \A d \in Deps(i) : \/ states'[d] = states[d]
                            \/ states[d] \notin Terminal /\ states'[d] \notin Terminal
  PROVE  /\ Blocked(i)' = Blocked(i)
         /\ DependencyFailed(i)' = DependencyFailed(i)
<1>1. getDirectDependencies(i)' = getDirectDependencies(i)
  BY DEF getDirectDependencies
<1>2. \A n \in DOMAIN getDirectDependencies(i) :
        LET d == getDirectDependencies(i)[n]
        IN /\ (states'[d] = "completed") = (states[d] = "completed")
           /\ (states'[d] \in {"failed", "depfailed"}) =
                (states[d] \in {"failed", "depfailed"})
  BY GraphFacts DEF Terminal, Finished
<1>3. LookedAt(i)' = LookedAt(i)
  <2>1. \A n \in DOMAIN getDirectDependencies(i) :
          \A m \in 1..(n - 1) : m \in DOMAIN getDirectDependencies(i)
    BY GraphFacts
  <2> QED BY <1>1, <1>2, <2>1 DEF LookedAt, Unsuccessful
<1>4. \A n \in LookedAt(i) : n \in DOMAIN getDirectDependencies(i)
  BY DEF LookedAt
<1>5. Blocked(i)' = Blocked(i)
  BY <1>1, <1>2, <1>3, <1>4 DEF Blocked, Unsuccessful
<1>6. DependencyFailed(i)' = DependencyFailed(i)
  BY <1>1, <1>2, <1>3, <1>4 DEF DependencyFailed, Unsuccessful
<1> QED BY <1>5, <1>6
-----------------------------------------------------------------------------
(* The initial states *)

LEMMA InitIInv == Init => IInv
<1> SUFFICES ASSUME Init PROVE IInv
  OBVIOUS
<1> USE DEF Init
<1>1. CheckedGraph(graph, Items)
  BY GraphsAssumption
<1>2. TypeOK
  BY <1>1 DEF TypeOK, ItemState
<1>3. ASSUME NEW i \in Items, getDirectDependencies(i) = <<>>
      PROVE  Deps(i) = {}
  BY <1>3 DEF Deps, Elems
<1>4. RunAfterDependencies
  BY <1>3 DEF RunAfterDependencies
<1>5. Owed
  <2> SUFFICES ASSUME NEW i \in Items, states[i] = "waiting"
               PROVE  Blocked(i) /\ ~DependencyFailed(i)
    BY DEF Owed
  <2>1. getDirectDependencies(i) # <<>> /\ getDirectDependencies(i) \in Seq(Items)
    BY <1>2, GraphFacts
  <2>2. 1 \in DOMAIN getDirectDependencies(i)
        /\ getDirectDependencies(i)[1] \in Items
    BY <2>1
  <2>3. \A d \in Items : ~Unsuccessful(d) /\ states[d] # "completed"
    BY DEF Unsuccessful
  <2>4. 1 \in LookedAt(i)
    BY <2>2 DEF LookedAt
  <2>5. Blocked(i)
    BY <2>2, <2>3, <2>4 DEF Blocked
  <2>6. \A n \in LookedAt(i) : getDirectDependencies(i)[n] \in Items
    BY <1>2, GraphFacts DEF LookedAt
  <2>7. ~DependencyFailed(i)
    BY <2>3, <2>6 DEF DependencyFailed
  <2> QED BY <2>5, <2>7
<1>6. SkippedForCause
  BY DEF SkippedForCause
<1>7. NumRunningExact
  <2>1. {i \in Items : states[i] = "running"} = {}
    OBVIOUS
  <2> QED BY <2>1, FS_EmptySet DEF NumRunningExact
<1> QED BY <1>2, <1>4, <1>5, <1>6, <1>7 DEF IInv

-----------------------------------------------------------------------------
(* The steps *)

Running == {i \in Items : states[i] = "running"}

LEMMA RunningIsFinite == IsFiniteSet(Running) /\ IsFiniteSet(Running')
<1>1. Running \in SUBSET Items /\ Running' \in SUBSET Items
  BY DEF Running
<1> QED BY <1>1, FS_Subset, ItemsAssumption

LEMMA DisableStep == IInv /\ disableFailurePropagation => IInv'
<1> SUFFICES ASSUME IInv, disableFailurePropagation PROVE IInv'
  OBVIOUS
<1> USE DEF IInv, disableFailurePropagation
<1>1. TypeOK'
  BY DEF TypeOK
<1>2. RunAfterDependencies' /\ SkippedForCause'
  BY DEF RunAfterDependencies, SkippedForCause
<1>3. Owed'
  BY DEF Owed, Blocked, DependencyFailed, LookedAt, Unsuccessful,
         getDirectDependencies
<1>4. NumRunningExact'
  BY DEF NumRunningExact
<1> QED BY <1>1, <1>2, <1>3, <1>4

LEMMA SetRunningStep ==
  ASSUME IInv, NEW item \in Items, setRunning(item)
  PROVE  IInv'
<1> USE DEF IInv, setRunning
<1>1. TypeOK'
  BY DEF TypeOK, ItemState
<1>2. RunAfterDependencies'
  <2> SUFFICES ASSUME propagate_failure, NEW i \in Items,
                      states'[i] \in {"ready", "running", "completed", "failed"},
                      NEW d \in Deps(i)
               PROVE  states'[d] = "completed"
    BY DEF RunAfterDependencies, Deps, getDirectDependencies
  <2>1. states[i] \in {"ready", "running", "completed", "failed"}
    BY DEF TypeOK
  <2>2. states[d] = "completed" /\ d \in Items
    BY <2>1, GraphFacts DEF RunAfterDependencies
  <2> QED BY <2>2 DEF TypeOK
<1>3. \A d \in Items : \/ states'[d] = states[d]
                       \/ states[d] \notin Terminal /\ states'[d] \notin Terminal
  BY DEF TypeOK, Terminal, Finished
<1>4. Owed'
  <2> SUFFICES ASSUME NEW i \in Items, states'[i] = "waiting",
                      i \notin Elems(pending')
               PROVE  Blocked(i)' /\ ~DependencyFailed(i)'
    BY DEF Owed
  <2>1. states[i] = "waiting" /\ i \notin Elems(pending)
    BY DEF TypeOK
  <2>2. Blocked(i) /\ ~DependencyFailed(i)
    BY <2>1 DEF Owed
  <2> QED BY <2>2, <1>3, EvaluationIsLocal, GraphFacts
<1>5. SkippedForCause'
  BY GraphFacts
  DEF SkippedForCause, TypeOK, Unsuccessful, Deps, getDirectDependencies
<1>6. NumRunningExact'
  <2>1. Running' = Running \cup {item} /\ item \notin Running
    BY DEF Running, TypeOK
  <2>2. Cardinality(Running') = Cardinality(Running) + 1
    BY <2>1, RunningIsFinite, FS_AddElement
  <2> QED BY <2>2 DEF NumRunningExact, Running
<1> QED BY <1>1, <1>2, <1>4, <1>5, <1>6

LEMMA SetFinishedStep ==
  ASSUME IInv, NEW item \in Items, NEW state \in Finished,
         setFinished(item, state)
  PROVE  IInv'
<1> USE DEF IInv, setFinished
<1>0. pending' = getReverseDependencies(item) /\ pending' \in Seq(Items)
  BY GraphFacts
<1>1. TypeOK'
  <2>1. item \in Running /\ IsFiniteSet(Running)
    BY RunningIsFinite DEF Running
  <2>2. Cardinality(Running) # 0 /\ Cardinality(Running) \in Nat
    BY <2>1, FS_EmptySet, FS_CardinalityType
  <2>3. num_running' \in Nat
    BY <2>2 DEF NumRunningExact, Running
  <2> QED BY <1>0, <2>3 DEF TypeOK, ItemState, Finished
<1>2. RunAfterDependencies'
  <2> SUFFICES ASSUME propagate_failure, NEW i \in Items,
                      states'[i] \in {"ready", "running", "completed", "failed"},
                      NEW d \in Deps(i)
               PROVE  states'[d] = "completed"
    BY DEF RunAfterDependencies, Deps, getDirectDependencies
  <2>1. states[i] \in {"ready", "running", "completed", "failed"}
    BY DEF TypeOK
  <2>2. states[d] = "completed" /\ d \in Items
    BY <2>1, GraphFacts DEF RunAfterDependencies
  <2> QED BY <2>2 DEF TypeOK
<1>3. Owed'
  <2> SUFFICES ASSUME NEW i \in Items, states'[i] = "waiting",
                      i \notin Elems(pending')
               PROVE  Blocked(i)' /\ ~DependencyFailed(i)'
    BY DEF Owed
  <2>1. states[i] = "waiting" /\ i \notin Elems(pending)
    BY DEF TypeOK, Elems, Finished
  <2>2. Blocked(i) /\ ~DependencyFailed(i)
    BY <2>1 DEF Owed
  <2>3. item \notin Deps(i)
    BY <1>0, GraphFacts
  <2>4. \A d \in Deps(i) : states'[d] = states[d]
    BY <2>3, GraphFacts DEF TypeOK
  <2> QED BY <2>2, <2>4, EvaluationIsLocal
<1>4. SkippedForCause'
  <2> SUFFICES ASSUME propagate_failure, NEW i \in Items,
                      states'[i] = "depfailed"
               PROVE  \E d \in Deps(i) : Unsuccessful(d)'
    BY DEF SkippedForCause, Deps, getDirectDependencies
  <2>1. states[i] = "depfailed"
    BY DEF TypeOK, Finished
  <2>2. PICK d \in Deps(i) : Unsuccessful(d)
    BY <2>1 DEF SkippedForCause
  <2>3. d \in Items /\ d # item
    BY <2>2, GraphFacts DEF Unsuccessful
  <2>4. Unsuccessful(d)'
    BY <2>2, <2>3 DEF Unsuccessful, TypeOK
  <2> QED BY <2>4
<1>5. NumRunningExact'
  <2>1. Running' = Running \ {item} /\ item \in Running
    BY DEF Running, TypeOK, Finished
  <2>2. Cardinality(Running') = Cardinality(Running) - 1
    BY <2>1, RunningIsFinite, FS_RemoveElement
  <2> QED BY <2>2 DEF NumRunningExact, Running
<1> QED BY <1>1, <1>2, <1>3, <1>4, <1>5

\* A re-evaluation can only make a waiting item ready or depfailed: with
\* failure propagation, a ready item stays ready because its dependencies
\* are all completed, and without, nothing becomes depfailed.
LEMMA ReadyStaysReady ==
  ASSUME IInv, NEW i \in Items, states[i] = "ready"
  PROVE  ~DependencyFailed(i)
<1>1. SUFFICES ASSUME DependencyFailed(i) PROVE FALSE
  OBVIOUS
<1>2. PICK n \in LookedAt(i) : Unsuccessful(getDirectDependencies(i)[n])
  BY <1>1 DEF DependencyFailed
<1>3. getDirectDependencies(i)[n] \in Deps(i)
  BY GraphFacts DEF LookedAt, IInv
<1> QED
  BY <1>1, <1>2, <1>3
  DEF IInv, RunAfterDependencies, DependencyFailed, Unsuccessful

LEMMA EvaluateStep == IInv /\ evaluate => IInv'
<1> SUFFICES ASSUME IInv, evaluate PROVE IInv'
  OBVIOUS
<1> DEFINE item == Head(pending)
           rest == Tail(pending)
<1> USE DEF IInv
<1>0. /\ pending # <<>> /\ pending \in Seq(Items)
      /\ evaluateItem(item)
      /\ UNCHANGED <<graph, propagate_failure, num_running>>
  BY DEF evaluate, TypeOK
<1>1. item \in Items /\ rest \in Seq(Items) /\ Elems(pending) = {item} \cup Elems(rest)
  BY <1>0, ElemsOfTail
<1> HIDE DEF item, rest
<1>2. CASE /\ states[item] \in {"waiting", "ready"}
           /\ DependencyFailed(item)
           /\ states' = [states EXCEPT ![item] = "depfailed"]
           /\ pending' = getReverseDependencies(item) \o rest
  <2>0. states[item] = "waiting" /\ propagate_failure
    BY <1>1, <1>2, ReadyStaysReady DEF DependencyFailed
  <2>1. /\ getReverseDependencies(item) \in Seq(Items)
        /\ pending' \in Seq(Items)
        /\ Elems(pending') = Elems(getReverseDependencies(item)) \cup Elems(rest)
    BY <1>1, <1>2, GraphFacts, ElemsOfConcat
  <2>2. TypeOK'
    BY <1>0, <1>1, <1>2, <2>1 DEF TypeOK, ItemState
  <2>3. RunAfterDependencies'
    <3> SUFFICES ASSUME NEW i \in Items,
                        states'[i] \in {"ready", "running", "completed", "failed"},
                        NEW d \in Deps(i)
                 PROVE  states'[d] = "completed"
      BY <1>0 DEF RunAfterDependencies, Deps, getDirectDependencies
    <3>1. states[i] \in {"ready", "running", "completed", "failed"}
      BY <1>1, <1>2 DEF TypeOK
    <3>2. states[d] = "completed" /\ d \in Items
      BY <2>0, <3>1, GraphFacts DEF RunAfterDependencies
    <3> QED BY <2>0, <3>2, <1>2 DEF TypeOK
  <2>4. Owed'
    <3> SUFFICES ASSUME NEW i \in Items, states'[i] = "waiting",
                        i \notin Elems(pending')
                 PROVE  Blocked(i)' /\ ~DependencyFailed(i)'
      BY DEF Owed
    <3>1. states[i] = "waiting" /\ i # item
      BY <1>1, <1>2 DEF TypeOK
    <3>2. i \notin Elems(pending) /\ item \notin Deps(i)
      BY <1>1, <2>1, <3>1, GraphFacts
    <3>3. Blocked(i) /\ ~DependencyFailed(i)
      BY <3>1, <3>2 DEF Owed
    <3>4. \A d \in Deps(i) : states'[d] = states[d]
      BY <3>2, <1>2, GraphFacts DEF TypeOK
    <3> QED BY <1>0, <3>3, <3>4, EvaluationIsLocal
  <2>5. SkippedForCause'
    <3> SUFFICES ASSUME NEW i \in Items, states'[i] = "depfailed"
                 PROVE  \E d \in Deps(i) : Unsuccessful(d)'
      BY <1>0 DEF SkippedForCause, Deps, getDirectDependencies
    <3>1. \E d \in Deps(i) : Unsuccessful(d)
      <4>1. CASE i = item
        BY <1>2, <4>1, GraphFacts DEF DependencyFailed, LookedAt
      <4>2. CASE i # item
        BY <1>2, <4>2, <2>0 DEF SkippedForCause, TypeOK
      <4> QED BY <4>1, <4>2
    <3>2. PICK d \in Deps(i) : Unsuccessful(d)
      BY <3>1
    <3>3. Unsuccessful(d)'
      BY <3>2, <1>1, <1>2, GraphFacts DEF Unsuccessful, TypeOK
    <3> QED BY <3>3
  <2>6. NumRunningExact'
    <3>1. Running' = Running
      BY <1>1, <1>2 DEF Running, TypeOK
    <3> QED BY <1>0, <3>1 DEF NumRunningExact, Running
  <2> QED BY <2>2, <2>3, <2>4, <2>5, <2>6
<1>3. CASE /\ states[item] \in {"waiting", "ready"}
           /\ ~DependencyFailed(item)
           /\ ~Blocked(item)
           /\ states' = [states EXCEPT ![item] = "ready"]
           /\ pending' = rest
  <2>1. \A d \in Items : \/ states'[d] = states[d]
                         \/ states[d] \notin Terminal /\ states'[d] \notin Terminal
    BY <1>1, <1>3 DEF TypeOK, Terminal, Finished
  <2>2. TypeOK'
    BY <1>0, <1>1, <1>3 DEF TypeOK, ItemState
  <2>3. RunAfterDependencies'
    <3> SUFFICES ASSUME propagate_failure, NEW i \in Items,
                        states'[i] \in {"ready", "running", "completed", "failed"},
                        NEW d \in Deps(i)
                 PROVE  states[d] = "completed"
      <4>1. \A e \in Items :
              states[e] = "completed" => states'[e] = "completed"
        BY <1>1, <1>3 DEF TypeOK
      <4>2. \A j \in Items : Deps(j)' = Deps(j) /\ Deps(j) \subseteq Items
        BY <1>0, GraphFacts DEF Deps, getDirectDependencies
      <4> QED BY <4>1, <4>2, <1>0 DEF RunAfterDependencies
    <3>1. CASE i = item
      <4>1. ~Unsuccessful(d)
        BY <1>3, <3>1, FirstFailureIsMet
      <4>2. \A e \in Deps(i) : ~Unsuccessful(e)
        BY <1>3, <3>1, FirstFailureIsMet
      <4>3. PICK n \in DOMAIN getDirectDependencies(i) :
              getDirectDependencies(i)[n] = d
        BY DEF Deps, Elems
      <4>4. n \in LookedAt(i)
        <5>1. \A m \in 1..(n - 1) : m \in DOMAIN getDirectDependencies(i)
          BY GraphFacts
        <5> QED BY <4>2, <5>1, GraphFacts DEF LookedAt
      <4> QED BY <1>3, <3>1, <4>1, <4>3, <4>4 DEF Blocked
    <3>2. CASE i # item
      BY <1>1, <1>3, <3>2 DEF RunAfterDependencies, TypeOK
    <3> QED BY <3>1, <3>2
  <2>4. Owed'
    <3> SUFFICES ASSUME NEW i \in Items, states'[i] = "waiting",
                        i \notin Elems(pending')
                 PROVE  Blocked(i)' /\ ~DependencyFailed(i)'
      BY DEF Owed
    <3>1. states[i] = "waiting" /\ i \notin Elems(pending)
      BY <1>1, <1>3 DEF TypeOK
    <3>2. Blocked(i) /\ ~DependencyFailed(i)
      BY <3>1 DEF Owed
    <3> QED BY <1>0, <2>1, <3>2, EvaluationIsLocal, GraphFacts
  <2>5. SkippedForCause'
    <3> SUFFICES ASSUME propagate_failure, NEW i \in Items,
                        states'[i] = "depfailed"
                 PROVE  \E d \in Deps(i) : Unsuccessful(d)'
      BY <1>0 DEF SkippedForCause, Deps, getDirectDependencies
    <3>1. states[i] = "depfailed"
      BY <1>1, <1>3 DEF TypeOK
    <3>2. PICK d \in Deps(i) : Unsuccessful(d)
      BY <3>1 DEF SkippedForCause
    <3>3. Unsuccessful(d)'
      BY <3>2, <1>1, <1>3, GraphFacts DEF Unsuccessful, TypeOK
    <3> QED BY <3>3
  <2>6. NumRunningExact'
    <3>1. Running' = Running
      BY <1>1, <1>3 DEF Running, TypeOK
    <3> QED BY <1>0, <3>1 DEF NumRunningExact, Running
  <2> QED BY <2>2, <2>3, <2>4, <2>5, <2>6
<1>4. CASE /\ \/ states[item] \notin {"waiting", "ready"}
              \/ ~DependencyFailed(item) /\ Blocked(item)
           /\ states' = states
           /\ pending' = rest
  <2>1. TypeOK'
    BY <1>0, <1>1, <1>4 DEF TypeOK
  <2>2. RunAfterDependencies' /\ SkippedForCause' /\ NumRunningExact'
    BY <1>0, <1>4 DEF RunAfterDependencies, SkippedForCause, NumRunningExact,
                      Deps, getDirectDependencies, Unsuccessful
  <2>3. Owed'
    <3> SUFFICES ASSUME NEW i \in Items, states[i] = "waiting",
                        i \notin Elems(rest)
                 PROVE  Blocked(i)' /\ ~DependencyFailed(i)'
      BY <1>4 DEF Owed
    <3>1. Blocked(i) /\ ~DependencyFailed(i)
      BY <1>1, <1>4 DEF Owed
    <3> QED BY <1>0, <1>4, <3>1, EvaluationIsLocal
  <2> QED BY <2>1, <2>2, <2>3
<1> QED BY <1>0, <1>2, <1>3, <1>4 DEF evaluateItem, item, rest

LEMMA NextIInv == IInv /\ [Next]_vars => IInv'
<1> SUFFICES ASSUME IInv, [Next]_vars PROVE IInv'
  OBVIOUS
<1>1. CASE disableFailurePropagation
  BY <1>1, DisableStep
<1>2. CASE \E item \in Items : setRunning(item)
  BY <1>2, SetRunningStep
<1>3. CASE \E item \in Items : setCompleted(item)
  BY <1>3, SetFinishedStep DEF setCompleted, Finished
<1>4. CASE \E item \in Items : setFailed(item)
  BY <1>4, SetFinishedStep DEF setFailed, Finished
<1>5. CASE evaluate
  BY <1>5, EvaluateStep
<1>6. CASE UNCHANGED vars
  BY <1>6
  DEF vars, IInv, TypeOK, RunAfterDependencies, Owed, SkippedForCause,
      NumRunningExact, Blocked, DependencyFailed, LookedAt, Unsuccessful, Deps,
      getDirectDependencies
<1> QED
  BY <1>1, <1>2, <1>3, <1>4, <1>5, <1>6 DEF Next, AllTerminal

-----------------------------------------------------------------------------
(* The theorems *)

THEOREM Invariance == Spec => []IInv
<1>1. Init => IInv
  BY InitIInv
<1>2. IInv /\ [Next]_vars => IInv'
  BY NextIInv
<1> QED BY <1>1, <1>2, PTL DEF Spec

\* The states, the counter and the worklist keep their types.
THEOREM TypeCorrectness == Spec => []TypeOK
<1>1. IInv => TypeOK
  BY DEF IInv
<1> QED BY <1>1, Invariance, PTL

\* With failure propagation no item is made ready, run or finished before
\* all of its dependencies have completed, whatever the graph.
THEOREM RunOrder == Spec => []RunAfterDependencies
<1>1. IInv => RunAfterDependencies
  BY DEF IInv
<1> QED BY <1>1, Invariance, PTL

\* The counter is the number of running items (the argument the comment in
\* numRunning gives).
THEOREM NumRunningIsACount == Spec => []NumRunningExact
<1>1. IInv => NumRunningExact
  BY DEF IInv
<1> QED BY <1>1, Invariance, PTL

\* After a re-evaluation the states are the ones the header documents.
THEOREM Documented == Spec => []StatesAsDocumented
<1>1. ASSUME IInv PROVE StatesAsDocumented
  <2> SUFFICES ASSUME propagate_failure, pending = <<>>, NEW i \in Items
               PROVE  /\ states[i] = "depfailed" <=> \E d \in Deps(i) : Unsuccessful(d)
                      /\ states[i] = "waiting" <=>
                           /\ \A d \in Deps(i) : ~Unsuccessful(d)
                           /\ \E d \in Deps(i) : states[d] # "completed"
    BY DEF StatesAsDocumented
  <2> USE <1>1 DEF IInv
  <2>1. i \notin Elems(pending)
    BY DEF Elems
  <2>2. states[i] = "depfailed" => \E d \in Deps(i) : Unsuccessful(d)
    BY DEF SkippedForCause
  <2>3. states[i] = "waiting" =>
          /\ \A d \in Deps(i) : ~Unsuccessful(d)
          /\ \E d \in Deps(i) : states[d] # "completed"
    <3> SUFFICES ASSUME states[i] = "waiting"
                 PROVE  /\ \A d \in Deps(i) : ~Unsuccessful(d)
                        /\ \E d \in Deps(i) : states[d] # "completed"
      OBVIOUS
    <3>1. Blocked(i) /\ ~DependencyFailed(i)
      BY <2>1 DEF Owed
    <3>2. \A d \in Deps(i) : ~Unsuccessful(d)
      BY <3>1, FirstFailureIsMet
    <3>3. \E d \in Deps(i) : states[d] # "completed"
      BY <3>1, GraphFacts DEF Blocked, LookedAt
    <3> QED BY <3>2, <3>3
  <2>4. states[i] \in {"ready", "running", "completed", "failed"} =>
          \A d \in Deps(i) : states[d] = "completed"
    BY DEF RunAfterDependencies
  <2>5. states[i] \in ItemState
    BY DEF TypeOK
  <2> QED BY <2>2, <2>3, <2>4, <2>5 DEF ItemState, Unsuccessful
<1> QED BY <1>1, Invariance, PTL

\* A waiting item that is first in dependency order among the waiting ones
\* has all its dependencies at a final state; so, with nothing ready or
\* running, nothing is waiting.  This is where the graph being acyclic
\* matters, and it holds with and without failure propagation.
THEOREM NobodyStranded == Spec => []NothingStranded
<1>1. ASSUME IInv PROVE NothingStranded
  <2> SUFFICES ASSUME pending = <<>>,
                      \A i \in Items : states[i] \notin {"ready", "running"},
                      \E i \in Items : states[i] \notin Terminal
               PROVE  FALSE
    BY DEF NothingStranded
  <2> DEFINE order == graph.in_order
             S == {n \in DOMAIN order : states[order[n]] = "waiting"}
  <2> USE <1>1 DEF IInv
  <2>1. PICK i \in Items : states[i] = "waiting"
    BY DEF TypeOK, ItemState, Terminal, Finished
  <2>2. /\ Enumerates(order, Items)
        /\ DependenciesFirst(order, graph.deps)
    BY DEF TypeOK, CheckedGraph
  <2>3. S # {} /\ S \subseteq Nat
    <3>1. order \in Seq(Items)
      BY <2>2 DEF Enumerates
    <3>2. DOMAIN order = 1..Len(order) /\ Len(order) \in Nat
      BY <3>1
    <3>3. PICK n \in DOMAIN order : order[n] = i
      BY <2>2 DEF Enumerates
    <3> QED BY <2>1, <3>2, <3>3
  <2>4. PICK n \in S : \A m \in S : n <= m
    <3> HIDE DEF S
    <3> QED BY <2>3, LeastNatural
  <2>5. order[n] \in Items /\ states[order[n]] = "waiting"
    BY <2>2, <2>4 DEF Enumerates
  <2>6. Blocked(order[n])
    BY <2>5 DEF Owed, Elems
  <2>7. PICK d \in Deps(order[n]) : ~Unsuccessful(d) /\ states[d] # "completed"
    BY <2>5, <2>6, GraphFacts DEF Blocked, LookedAt
  <2>8. states[d] = "waiting"
    BY <2>5, <2>7, GraphFacts DEF TypeOK, ItemState, Unsuccessful
  <2>9. PICK m \in DOMAIN order : m < n /\ order[m] = d
    BY <2>2, <2>4, <2>7 DEF DependenciesFirst, Deps, getDirectDependencies
  <2> QED BY <2>3, <2>4, <2>8, <2>9
<1> QED BY <1>1, Invariance, PTL

\* What a step may do to an item, as a lemma for the theorems below.
LEMMA AdvanceStep ==
  ASSUME IInv, [Next]_vars, NEW i \in Items
  PROVE  /\ states[i] \in Terminal => states'[i] = states[i]
         /\ states[i] = "ready" => states'[i] \in {"ready", "running"}
         /\ states[i] = "running" => states'[i] \in {"running"} \cup Finished
<1> USE DEF IInv
<1>1. states \in [Items -> ItemState]
  BY DEF TypeOK
<1>2. CASE UNCHANGED states
  BY <1>2
<1>3. CASE \E item \in Items : setRunning(item)
  BY <1>1, <1>3 DEF setRunning, Terminal, Finished
<1>4. CASE \E item \in Items, state \in Finished : setFinished(item, state)
  BY <1>1, <1>4 DEF setFinished, Terminal, Finished
<1>5. CASE evaluate
  <2>1. Head(pending) \in Items
    BY <1>5, ElemsOfTail DEF evaluate, TypeOK
  <2>2. states[Head(pending)] = "ready" => ~DependencyFailed(Head(pending))
    BY <2>1, ReadyStaysReady
  <2> QED
    BY <1>1, <1>5, <2>1, <2>2 DEF evaluate, evaluateItem, Terminal, Finished
<1> QED
  BY <1>2, <1>3, <1>4, <1>5
  DEF Next, vars, disableFailurePropagation, AllTerminal, setCompleted,
      setFailed, Finished

\* Final states are final, and an item that is ready or running never goes
\* back: no item is run twice.
THEOREM Advance == Spec => StatesAdvance
<1> DEFINE A(i) == /\ states[i] \in Terminal => states'[i] = states[i]
                   /\ states[i] = "ready" => states'[i] \in {"ready", "running"}
                   /\ states[i] = "running" => states'[i] \in {"running"} \cup Finished
<1>1. ASSUME IInv, [Next]_vars PROVE \A i \in Items : A(i)
  BY <1>1, AdvanceStep
<1> HIDE DEF A
<1>2. IInv /\ [Next]_vars => [\A i \in Items : A(i)]_vars
  BY <1>1
<1>3. [][\A i \in Items : A(i)]_vars => StatesAdvance
  BY PTL DEF StatesAdvance, A
<1> QED BY <1>2, <1>3, Invariance, PTL DEF Spec

\* Where an item has been skipped, one has failed: the skipped item that comes
\* first in dependency order has a dependency that was not skipped.
LEMMA SkippingHasOrigin ==
  ASSUME IInv, propagate_failure, NEW i \in Items, states[i] = "depfailed"
  PROVE  \E j \in Items : states[j] = "failed"
<1> DEFINE order == graph.in_order
           S == {n \in DOMAIN order : states[order[n]] = "depfailed"}
<1>1. /\ Enumerates(order, Items)
      /\ DependenciesFirst(order, graph.deps)
  BY DEF IInv, TypeOK, CheckedGraph
<1>2. DOMAIN order \subseteq Nat /\ \A n \in DOMAIN order : order[n] \in Items
  <2>1. order \in Seq(Items)
    BY <1>1 DEF Enumerates
  <2> HIDE DEF order
  <2> QED BY <2>1
<1> HIDE DEF order
<1>3. S # {} /\ S \subseteq Nat
  BY <1>1, <1>2 DEF Enumerates
<1>4. PICK n \in S : \A m \in S : n <= m
  <2> HIDE DEF S
  <2> QED BY <1>3, LeastNatural
<1>5. order[n] \in Items /\ states[order[n]] = "depfailed"
  BY <1>2, <1>4
<1>6. PICK d \in Deps(order[n]) : Unsuccessful(d)
  BY <1>5 DEF IInv, SkippedForCause
<1>7. d \in Items
  BY <1>5, <1>6, GraphFacts DEF IInv
<1>8. states[d] # "depfailed"
  <2>1. SUFFICES ASSUME states[d] = "depfailed" PROVE FALSE
    OBVIOUS
  <2>2. PICK m \in DOMAIN order : m < n /\ order[m] = d
    BY <1>1, <1>4, <1>6 DEF DependenciesFirst, Deps, getDirectDependencies
  <2>3. m \in S /\ m \in Nat /\ n \in Nat
    BY <1>2, <1>4, <2>1, <2>2
  <2>4. n <= m
    <3> HIDE DEF S
    <3> QED BY <1>4, <2>3
  <2> QED BY <2>2, <2>3, <2>4
<1> QED BY <1>6, <1>7, <1>8 DEF Unsuccessful

-----------------------------------------------------------------------------
(* Without failure propagation *)

\* Whatever was made ready had no unfinished dependency before the first one
\* that failed, and without propagation nothing is skipped.
ReadyForCause ==
  /\ \A i \in Items : states[i] = "ready" => ~Blocked(i)
  /\ ~propagate_failure => \A i \in Items : states[i] # "depfailed"

\* What has ended stays so, hence an item that is not blocked stays so.
LEMMA UnblockedStaysUnblocked ==
  ASSUME TypeOK, NEW i \in Items, ~Blocked(i), UNCHANGED graph,
         \A d \in Items : states[d] \in Terminal => states'[d] = states[d]
  PROVE  ~Blocked(i)'
<1> DEFINE deps == getDirectDependencies(i)
           Failed(d) == states'[d] \in {"failed", "depfailed"}
<1>1. /\ \A n \in DOMAIN deps : deps[n] \in Items
      /\ \A n \in DOMAIN deps : \A m \in 1..(n - 1) : m \in DOMAIN deps
  BY GraphFacts
<1>2. LookedAt(i)' = {n \in DOMAIN deps : \A m \in 1..(n - 1) : ~Failed(deps[m])}
  BY DEF LookedAt, Unsuccessful, getDirectDependencies
<1>3. Blocked(i)' = \E n \in LookedAt(i)' : ~Failed(deps[n]) /\ states'[deps[n]] # "completed"
  BY DEF Blocked, Unsuccessful, getDirectDependencies
<1>4. SUFFICES ASSUME NEW n \in LookedAt(i)',
                      ~Failed(deps[n]), states'[deps[n]] # "completed"
               PROVE  FALSE
  BY <1>3
<1>5. n \in DOMAIN deps /\ \A m \in 1..(n - 1) : ~Failed(deps[m])
  BY <1>2, <1>4
<1>6. ASSUME NEW d \in Items, ~Failed(d) PROVE ~Unsuccessful(d)
  BY <1>6 DEF Unsuccessful, Terminal, Finished
<1>7. \A m \in 1..(n - 1) : ~Unsuccessful(deps[m])
  <2> HIDE DEF deps, Failed
  <2> QED BY <1>1, <1>5, <1>6
<1>8. ~Unsuccessful(deps[n]) /\ states[deps[n]] # "completed"
  <2>1. PICK d \in Items : d = deps[n]
    BY <1>1, <1>5
  <2> QED BY <2>1, <1>4, <1>6 DEF Terminal, Finished
<1> QED BY <1>5, <1>7, <1>8 DEF LookedAt, Blocked

\* Whatever is ready has only completed dependencies before the first one that
\* did not succeed, if there is one; and nothing is skipped without failure
\* propagation.
THEOREM ReadyHasCause == Spec => []ReadyForCause
<1>1. Init => ReadyForCause
  <2> SUFFICES ASSUME Init PROVE ReadyForCause
    OBVIOUS
  <2>1. \A i \in Items : states[i] = "ready" => getDirectDependencies(i) = <<>>
    BY DEF Init
  <2>2. \A i \in Items : states[i] = "ready" => ~Blocked(i)
    BY <2>1 DEF Blocked, LookedAt
  <2> QED BY <2>2 DEF Init, ReadyForCause
<1>2. IInv /\ ReadyForCause /\ [Next]_vars => ReadyForCause'
  <2> SUFFICES ASSUME IInv, ReadyForCause, [Next]_vars PROVE ReadyForCause'
    OBVIOUS
  <2>1. states \in [Items -> ItemState] /\ UNCHANGED graph
    BY DEF IInv, TypeOK, Next, vars, disableFailurePropagation, setRunning,
           setCompleted, setFailed, setFinished, evaluate, AllTerminal
  <2>2. ASSUME NEW i \in Items, states'[i] = "ready" PROVE ~Blocked(i)'
    <3>1. ~Blocked(i)
      <4>1. CASE states[i] = "ready"
        BY <4>1 DEF ReadyForCause
      <4>2. CASE states[i] # "ready"
        <5>1. evaluate
          BY <2>1, <2>2, <4>2
          DEF Next, vars, disableFailurePropagation, setRunning, setCompleted,
              setFailed, setFinished, AllTerminal
        <5>2. Head(pending) \in Items
          BY <5>1, ElemsOfTail DEF evaluate, IInv, TypeOK
        <5> QED BY <2>1, <2>2, <4>2, <5>1, <5>2 DEF evaluate, evaluateItem
      <4> QED BY <4>1, <4>2
    <3> QED BY <3>1, <2>1, AdvanceStep, UnblockedStaysUnblocked DEF IInv
  <2>3. ASSUME ~propagate_failure', NEW i \in Items PROVE states'[i] # "depfailed"
    <3>1. CASE disableFailurePropagation
      BY <2>1, <3>1 DEF disableFailurePropagation
    <3>2. CASE evaluate
      <4>1. Head(pending) \in Items
        BY <3>2, ElemsOfTail DEF evaluate, IInv, TypeOK
      <4> QED BY <2>1, <2>3, <3>2, <4>1 DEF evaluate, evaluateItem, DependencyFailed,
                                          ReadyForCause
    <3> QED
      BY <2>1, <2>3, <3>1, <3>2
      DEF Next, vars, setRunning, setCompleted, setFailed, setFinished, AllTerminal,
          ReadyForCause
  <2> QED BY <2>2, <2>3 DEF ReadyForCause
<1> QED BY <1>1, <1>2, Invariance, PTL DEF Spec
=============================================================================
