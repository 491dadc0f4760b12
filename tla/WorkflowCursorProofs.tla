------------------------ MODULE WorkflowCursorProofs ------------------------
(***************************************************************************)
(* Proofs about WorkflowCursor: for every definition the validator accepts, *)
(* of any size and shape, however its steps interleave.                     *)
(***************************************************************************)
EXTENDS WorkflowCursor, TLAPS

-----------------------------------------------------------------------------
(* Reachability *)

LEMMA ReachSelf == \A d, x : CanReach(d, x, x)
BY DEF CanReach

LEMMA ReachTransitive ==
    ASSUME NEW d, NEW x, NEW y, NEW z, CanReach(d, x, y), CanReach(d, y, z)
    PROVE  CanReach(d, x, z)
BY DEF CanReach

\* A path may be prolonged by an edge in front of it.
LEMMA ReachFromSuccessor ==
    ASSUME NEW d, NEW x \in StepsOf(d), NEW n \in d.next[x], NEW y, CanReach(d, n, y)
    PROVE  CanReach(d, x, y)
BY DEF CanReach

\* A path that leads anywhere else goes through a successor.
LEMMA ReachThroughSuccessor ==
    ASSUME NEW d, NEW x \in StepsOf(d), NEW y, CanReach(d, x, y), x # y,
           \A s \in StepsOf(d) : d.next[s] \subseteq StepsOf(d)
    PROVE  \E n \in d.next[x] : CanReach(d, n, y)
<1> DEFINE D == {z \in StepsOf(d) : z = x \/ \E n \in d.next[x] : CanReach(d, n, z)}
<1>1. ASSUME NEW z \in D, NEW w \in d.next[z]
      PROVE  w \in D
  <2>1. w \in StepsOf(d)
    OBVIOUS
  <2>2. CASE z = x
    BY <2>1, <2>2, ReachSelf
  <2>3. ASSUME NEW n \in d.next[x], CanReach(d, n, z)
        PROVE  w \in D
    <3>1. CanReach(d, z, w)
      BY ReachSelf, ReachFromSuccessor
    <3>2. CanReach(d, n, w)
      BY <2>3, <3>1, ReachTransitive
    <3>3. QED
      BY <2>1, <3>2
  <2>4. QED
    BY <2>2, <2>3
<1>2. D \in SUBSET StepsOf(d) /\ x \in D /\ \A z \in D : d.next[z] \subseteq D
  BY <1>1
<1> HIDE DEF D
<1>3. y \in D
  BY <1>2 DEF CanReach
<1>4. QED
  BY <1>3 DEF D

-----------------------------------------------------------------------------
(* What advance_cursor promises *)

\* Every successor of the finished step is runnable or ahead of a runnable one.
LEMMA AdvanceKeepsSuccessors ==
    ASSUME NEW d, NEW cur, NEW done, NEW n \in d.next[done]
    PROVE  \E x \in AdvanceCursor(d, cur, done) : CanReach(d, x, n)
<1> DEFINE next == AdvanceCursor(d, cur, done)
<1>1. cur \ {done} \subseteq next
  BY DEF AdvanceCursor
<1>2. CASE n \in next
  BY <1>2, ReachSelf
<1>3. CASE n \notin next
  <2>1. \E active \in cur \ {done} : CanReach(d, active, n)
    BY <1>3 DEF AdvanceCursor
  <2>2. QED
    BY <1>1, <2>1
<1>4. QED
  BY <1>2, <1>3

\* What a runnable step was ahead of stays ahead of one, except that step itself.
LEMMA AdvanceKeepsReach ==
    ASSUME NEW d, ValidDefinition(d), NEW cur \in SUBSET StepsOf(d), NEW done \in cur,
           NEW n, n # done, NEW x \in cur, CanReach(d, x, n)
    PROVE  \E y \in AdvanceCursor(d, cur, done) : CanReach(d, y, n)
<1>1. CASE x # done
  BY <1>1 DEF AdvanceCursor
<1>2. CASE x = done
  <2>1. PICK m \in d.next[done] : CanReach(d, m, n)
    BY <1>2, ReachThroughSuccessor DEF ValidDefinition
  <2>2. PICK y \in AdvanceCursor(d, cur, done) : CanReach(d, y, m)
    BY AdvanceKeepsSuccessors
  <2>3. QED
    BY <2>1, <2>2, ReachTransitive
<1>3. QED
  BY <1>1, <1>2

LEMMA AdvanceTyped ==
    ASSUME NEW d, ValidDefinition(d), NEW cur \in SUBSET StepsOf(d), NEW done \in cur
    PROVE  AdvanceCursor(d, cur, done) \in SUBSET StepsOf(d)
BY DEF AdvanceCursor, ValidDefinition

-----------------------------------------------------------------------------
(* The inductive invariant *)

\* The entry step has run or may run, and no branch has been dropped.
Covered ==
    /\ definition.entry \in finished \cup cursor
    /\ \A s \in finished : \A n \in definition.next[s] :
          n \in finished \/ \E x \in cursor : CanReach(definition, x, n)

\* No branch leads back to a join that has run.
JoinsBehind ==
    \A j \in finished : definition.kind[j] = "join" =>
        \A x \in cursor : ~CanReach(definition, x, j)

CursorInv ==
    /\ TypeOK
    /\ status \in Runnable \cup {"completed"} => Covered
    /\ status = "completed" => cursor = {}
    /\ ~Shortcut(definition) => JoinBarrier /\ JoinsBehind

LEMMA FinishCovered ==
    ASSUME CursorInv, NEW step \in cursor, FinishStep(step)
    PROVE  Covered'
<1> DEFINE d == definition
<1>1. /\ ValidDefinition(d) /\ cursor \in SUBSET StepsOf(d)
      /\ Covered
      /\ definition' = d
      /\ cursor' = AdvanceCursor(d, cursor, step)
      /\ finished' = finished \cup {step}
  BY DEF CursorInv, TypeOK, FinishStep
<1>2. definition.entry \in finished' \cup cursor'
  BY <1>1 DEF Covered, AdvanceCursor
<1>3. ASSUME NEW s \in finished, NEW n \in d.next[s], n \notin finished'
      PROVE  \E x \in cursor' : CanReach(d, x, n)
  <2>1. PICK x \in cursor : CanReach(d, x, n)
    BY <1>1, <1>3 DEF Covered
  <2>2. n # step
    BY <1>1, <1>3
  <2>3. QED
    BY <1>1, <2>1, <2>2, AdvanceKeepsReach
<1>4. ASSUME NEW n \in d.next[step]
      PROVE  \E x \in cursor' : CanReach(d, x, n)
  BY <1>1, AdvanceKeepsSuccessors
<1>5. QED
  BY <1>1, <1>2, <1>3, <1>4 DEF Covered

LEMMA FinishBarrier ==
    ASSUME CursorInv, NEW step \in cursor, FinishStep(step), ~Shortcut(definition)
    PROVE  JoinBarrier' /\ JoinsBehind'
<1> DEFINE d == definition
           next == AdvanceCursor(d, cursor, step)
<1>1. /\ ValidDefinition(d) /\ cursor \in SUBSET StepsOf(d)
      /\ JoinBarrier /\ JoinsBehind
      /\ definition' = d /\ cursor' = next /\ finished' = finished \cup {step}
  BY DEF CursorInv, TypeOK, FinishStep
<1>2. next \subseteq (cursor \ {step}) \cup d.next[step]
  BY DEF AdvanceCursor
<1>3. ASSUME NEW x \in d.next[step], NEW y, CanReach(d, x, y)
      PROVE  CanReach(d, step, y)
  BY <1>1, <1>3, ReachFromSuccessor
<1>4. ASSUME NEW j \in next, d.kind[j] = "join", NEW x \in next, x # j
      PROVE  ~CanReach(d, x, j)
  <2>1. CASE j \in cursor \ {step}
    <3>1. \A y \in cursor \ {j} : ~CanReach(d, y, j)
      BY <1>1, <1>4, <2>1 DEF JoinBarrier
    <3>2. ~CanReach(d, step, j)
      BY <2>1, <3>1
    <3>3. QED
      BY <1>2, <1>3, <1>4, <3>1, <3>2
  <2>2. CASE j \in d.next[step] /\ j \notin cursor \ {step}
    <3>1. \A y \in cursor \ {step} : ~CanReach(d, y, j)
      BY <1>4, <2>2 DEF AdvanceCursor
    <3>2. x \in d.next[step] => ~CanReach(d, x, j)
      BY <1>1, <1>4, <2>2 DEF Shortcut
    <3>3. QED
      BY <1>2, <3>1, <3>2
  <2>3. QED
    BY <1>2, <2>1, <2>2
<1>5. ASSUME NEW j \in finished \cup {step}, d.kind[j] = "join", NEW x \in next
      PROVE  ~CanReach(d, x, j)
  <2>1. CASE j \in finished
    <3>1. \A y \in cursor : ~CanReach(d, y, j)
      BY <1>1, <1>5, <2>1 DEF JoinsBehind
    <3>2. QED
      BY <1>2, <1>3, <3>1
  <2>2. CASE j = step
    <3>1. \A y \in cursor \ {step} : ~CanReach(d, y, step)
      BY <1>1, <1>5, <2>2 DEF JoinBarrier
    <3>2. \A y \in d.next[step] : ~CanReach(d, y, step)
      BY <1>1 DEF ValidDefinition
    <3>3. QED
      BY <1>2, <2>2, <3>1, <3>2
  <2>3. QED
    BY <2>1, <2>2
<1>6. QED
  BY <1>1, <1>4, <1>5 DEF JoinBarrier, JoinsBehind

LEMMA CursorStep ==
    ASSUME CursorInv, [Next]_vars
    PROVE  CursorInv'
<1>1. ASSUME NEW step \in cursor, FinishStep(step)
      PROVE  CursorInv'
  <2> DEFINE next == AdvanceCursor(definition, cursor, step)
  <2>1. /\ ValidDefinition(definition) /\ cursor \in SUBSET StepsOf(definition)
        /\ finished \subseteq StepsOf(definition)
        /\ definition' = definition /\ cursor' = next /\ finished' = finished \cup {step}
        /\ status' = CursorStatus(definition, next)
    BY <1>1 DEF CursorInv, TypeOK, FinishStep
  <2>2. next \in SUBSET StepsOf(definition)
    BY <2>1, AdvanceTyped
  <2> HIDE DEF next
  <2>3. status' \in Runnable \cup Closed /\ (status' = "completed" => next = {})
    BY <2>1 DEF CursorStatus, Runnable, Closed
  <2>4. TypeOK'
    BY <2>1, <2>2, <2>3 DEF TypeOK
  <2>5. Covered'
    BY <1>1, FinishCovered
  <2>6. ~Shortcut(definition') => JoinBarrier' /\ JoinsBehind'
    BY <1>1, <2>1, FinishBarrier
  <2>7. QED
    BY <2>1, <2>3, <2>4, <2>5, <2>6 DEF CursorInv
<1>2. ASSUME NEW outcome \in {"failed", "cancelled"}, AbortWorkflow(outcome)
      PROVE  CursorInv'
  BY <1>2 DEF AbortWorkflow, CursorInv, TypeOK, Runnable, Closed, JoinBarrier, JoinsBehind
<1>3. CASE UNCHANGED vars
  BY <1>3 DEF vars, CursorInv, TypeOK, Covered, JoinBarrier, JoinsBehind
<1>4. QED
  BY <1>1, <1>2, <1>3 DEF Next

THEOREM CursorInvariant == Spec => []CursorInv
<1>1. Init => CursorInv
  BY DEF Init, CursorInv, TypeOK, Covered, JoinBarrier, JoinsBehind, ValidDefinition,
         Runnable, Closed
<1>2. CursorInv /\ [Next]_vars => CursorInv'
  BY CursorStep
<1>3. QED
  BY <1>1, <1>2, PTL DEF Spec

-----------------------------------------------------------------------------
(* The three promises of the cursor *)

\* No fan-out branch is ever lost, whatever order its siblings finish in.
LEMMA BranchesKept == Spec => []NoBranchDropped
<1>1. CursorInv => NoBranchDropped
  BY DEF CursorInv, Covered, NoBranchDropped
<1>2. QED
  BY <1>1, CursorInvariant, PTL

\* Without shortcuts the join barrier holds and no join runs twice.
THEOREM JoinsWait == Spec => []JoinRunsOnceAfterItsBranches
<1>1. CursorInv => JoinRunsOnceAfterItsBranches
  BY ReachSelf DEF CursorInv, JoinsBehind, JoinRunsOnceAfterItsBranches
<1>2. QED
  BY <1>1, CursorInvariant, PTL

\* A workflow shown as completed ran every step its entry leads to.
LEMMA CompletedIsComplete == Spec => []CompletedRanEverything
<1>1. ASSUME CursorInv, status = "completed"
      PROVE  \A n \in StepsOf(definition) :
                CanReach(definition, definition.entry, n) => n \in finished
  <2>1. /\ finished \in SUBSET StepsOf(definition)
        /\ definition.entry \in finished
        /\ \A s \in finished : definition.next[s] \subseteq finished
    BY <1>1 DEF CursorInv, TypeOK, Covered
  <2>2. QED
    BY <2>1 DEF CanReach
<1>2. CursorInv => CompletedRanEverything
  BY <1>1 DEF CompletedRanEverything
<1>3. QED
  BY <1>2, CursorInvariant, PTL

\* Over every definition the validator accepts, no successor of a finished step is lost,
\* and a workflow shown as completed ran every step its entry leads to.
THEOREM NothingSkipped == Spec => []NothingIsSkipped
<1>1. NoBranchDropped /\ CompletedRanEverything => NothingIsSkipped
  BY DEF NothingIsSkipped
<1>2. QED
  BY <1>1, BranchesKept, CompletedIsComplete, PTL

\* Over every definition the validator accepts, the cursor follows the graph: joins wait
\* for the branches that lead to them and run once, and nothing is skipped.
THEOREM GraphFollowed == Spec => []GraphIsFollowed
<1>1. JoinRunsOnceAfterItsBranches /\ NothingIsSkipped => GraphIsFollowed
  BY DEF GraphIsFollowed
<1>2. QED
  BY <1>1, JoinsWait, NothingSkipped, PTL
=============================================================================
