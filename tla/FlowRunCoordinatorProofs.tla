----------------------- MODULE FlowRunCoordinatorProofs -----------------------
(***************************************************************************)
(* The safety of one segment of a flow run, then of the run, for every     *)
(* finite flow and every concurrency limit:                                *)
(*                                                                         *)
(*   - the ready-set scheduler, for every admissible set of segments, and  *)
(*     its refinement of the abstract flow execution;                      *)
(*   - the run, from its row to the end of its last segment, for every     *)
(*     flow (RunInv), for flows whose skips the traces tell (RebuiltInv)   *)
(*     and for flows that pause for one batch (OnePauseInv).               *)
(***************************************************************************)
EXTENDS FlowRunCoordinator, TLAPS, FiniteSetTheorems, WellFoundedInduction

-----------------------------------------------------------------------------
(* The graph of a flow: what the skip cascade and branch skipping return.  *)

(* The children and parents of a node are nodes, and mirror each other.    *)
LEMMA Adjacency ==
  \A n, m : /\ (m \in Children(n)) <=> (n \in Parents(m))
            /\ m \in Children(n) => n \in Node /\ m \in Node /\ Incoming(m) # {}
  BY GraphAssumption DEF Children, Parents, Incoming, Outgoing

(* A target of an edge of n is a child of n.                               *)
LEMMA TargetsAreChildren ==
  \A n, handles : TargetsOf(n, handles) \subseteq Children(n)
  BY DEF TargetsOf, Children

(* The cascade adds to the skip set, and only nodes.                       *)
LEMMA CascadeType ==
  ASSUME NEW starts, NEW S \in SUBSET Node
  PROVE  /\ MarkDownstreamNodesAsSkipped(starts, S) \subseteq Node
         /\ S \subseteq MarkDownstreamNodesAsSkipped(starts, S)
  BY DEF MarkDownstreamNodesAsSkipped, SkipClosed

(* The cascade lies within every set that is closed under skipping.        *)
LEMMA CascadeLeast ==
  ASSUME NEW starts, NEW S \in SUBSET Node, NEW T \in SUBSET Node,
         SkipClosed(T, starts, S)
  PROVE  MarkDownstreamNodesAsSkipped(starts, S) \subseteq T
  BY DEF MarkDownstreamNodesAsSkipped

(* The cascade is itself closed under skipping.                            *)
LEMMA CascadeClosed ==
  ASSUME NEW starts, NEW S \in SUBSET Node
  PROVE  SkipClosed(MarkDownstreamNodesAsSkipped(starts, S), starts, S)
<1> DEFINE M == MarkDownstreamNodesAsSkipped(starts, S)
<1>1. M \subseteq Node /\ S \subseteq M
  BY CascadeType
<1>2. ASSUME NEW p \in starts \cup (M \ S), NEW c \in Children(p),
             ShouldNodeBeSkipped(c, M)
      PROVE  c \in M
  <2>1. c \in Node
    BY Adjacency
  <2>2. ASSUME NEW T \in SUBSET Node, SkipClosed(T, starts, S)
        PROVE  c \in T
    <3>1. M \subseteq T
      BY <2>2, CascadeLeast
    <3>2. p \in starts \cup (T \ S)
      BY <3>1
    <3>3. ShouldNodeBeSkipped(c, T)
      BY <1>2, <3>1 DEF ShouldNodeBeSkipped
    <3>4. QED  BY <2>2, <3>2, <3>3 DEF SkipClosed
  <2>3. QED  BY <2>1, <2>2 DEF MarkDownstreamNodesAsSkipped
<1>3. QED  BY <1>1, <1>2 DEF SkipClosed

(***************************************************************************)
(* "Only skips nodes if ALL their incoming edges come from skipped nodes": *)
(* whatever the cascade adds has all its parents in the final skip set.    *)
(***************************************************************************)
LEMMA CascadeParents ==
  ASSUME NEW starts, NEW S \in SUBSET Node,
         NEW n \in MarkDownstreamNodesAsSkipped(starts, S) \ S
  PROVE  Parents(n) \subseteq MarkDownstreamNodesAsSkipped(starts, S)
<1> DEFINE M == MarkDownstreamNodesAsSkipped(starts, S)
           T == {m \in M : m \in S \/ Parents(m) \subseteq M}
<1>1. M \subseteq Node /\ S \subseteq M /\ T \in SUBSET Node
  BY CascadeType
<1>2. SkipClosed(T, starts, S)
  <2>1. S \subseteq T
    BY <1>1
  <2>2. ASSUME NEW p \in starts \cup (T \ S), NEW c \in Children(p),
               ShouldNodeBeSkipped(c, T)
        PROVE  c \in T
    <3>1. Parents(c) \subseteq M /\ ShouldNodeBeSkipped(c, M)
      BY <2>2 DEF ShouldNodeBeSkipped
    <3>2. p \in starts \cup (M \ S)
      OBVIOUS
    <3>3. c \in M
      BY <3>1, <3>2, CascadeClosed DEF SkipClosed
    <3>4. QED  BY <3>1, <3>3
  <2>3. QED  BY <2>1, <2>2 DEF SkipClosed
<1>3. M \subseteq T
  BY <1>1, <1>2, CascadeLeast
<1>4. QED  BY <1>3

(* Whatever the cascade adds has a parent it starts from or has added.     *)
LEMMA CascadeReached ==
  ASSUME NEW starts, NEW S \in SUBSET Node,
         NEW n \in MarkDownstreamNodesAsSkipped(starts, S) \ S
  PROVE  \E p \in starts \cup (MarkDownstreamNodesAsSkipped(starts, S) \ S) : p \in Parents(n)
<1> DEFINE M == MarkDownstreamNodesAsSkipped(starts, S)
           T == {m \in M : m \in S \/ \E p \in starts \cup (M \ S) : p \in Parents(m)}
<1>1. M \subseteq Node /\ S \subseteq M /\ T \in SUBSET Node
  BY CascadeType
<1>2. SkipClosed(T, starts, S)
  <2>1. S \subseteq T
    BY <1>1
  <2>2. ASSUME NEW p \in starts \cup (T \ S), NEW c \in Children(p),
               ShouldNodeBeSkipped(c, T)
        PROVE  c \in T
    <3>1. ShouldNodeBeSkipped(c, M)
      BY <2>2 DEF ShouldNodeBeSkipped
    <3>2. p \in starts \cup (M \ S) /\ p \in Parents(c)
      BY Adjacency
    <3>3. c \in M
      BY <3>1, <3>2, CascadeClosed DEF SkipClosed
    <3>4. QED  BY <3>2, <3>3
  <2>3. QED  BY <2>1, <2>2 DEF SkipClosed
<1>3. M \subseteq T
  BY <1>1, <1>2, CascadeLeast
<1>4. QED  BY <1>3

(***************************************************************************)
(* The cascade does not reach a node that was considered before: when the  *)
(* parents of every node of Seen are in Seen, and the cascade starts       *)
(* outside Seen, so does everything it adds.                               *)
(***************************************************************************)
LEMMA CascadeFresh ==
  ASSUME NEW S \in SUBSET Node, NEW targets \in SUBSET Node,
         NEW Seen \in SUBSET Node,
         \A n \in Seen : Parents(n) \subseteq Seen,
         targets \cap Seen = {}
  PROVE  MarkDownstreamNodesAsSkipped(targets, S \cup targets) \cap Seen \subseteq S
<1> DEFINE T == S \cup targets \cup (Node \ Seen)
<1>1. S \cup targets \in SUBSET Node /\ T \in SUBSET Node
  OBVIOUS
<1>2. SkipClosed(T, targets, S \cup targets)
  <2>1. ASSUME NEW p \in targets \cup (T \ (S \cup targets)), NEW c \in Children(p)
        PROVE  c \in T
    <3>1. p \notin Seen /\ p \in Parents(c) /\ c \in Node
      BY Adjacency
    <3>2. QED  BY <3>1
  <2>2. QED  BY <2>1 DEF SkipClosed
<1>3. MarkDownstreamNodesAsSkipped(targets, S \cup targets) \subseteq T
  BY <1>1, <1>2, CascadeLeast
<1>4. QED  BY <1>3

-----------------------------------------------------------------------------

(***************************************************************************)
(* What a branching node n may skip.  Seen stands for the nodes already    *)
(* completed, running or queued when n completes: none of them is skipped. *)
(***************************************************************************)
LEMMA BranchSkipping ==
  ASSUME NEW n \in Node, NEW active, NEW S \in SUBSET Node,
         NEW Seen \in SUBSET Node,
         \A m \in Seen : Parents(m) \subseteq Seen \ {n}
  PROVE  LET R == HandleBranchSkipping(n, active, S)
         IN  /\ R \subseteq Node
             /\ S \subseteq R
             /\ R \cap Seen \subseteq S
             /\ \A m \in R \ S : Parents(m) \subseteq R \cup {n}
             /\ \A m \in R \ S : ~(Parents(m) \subseteq Seen \ {n})
<1> DEFINE targets == InactiveTargets(n, active, S)
           R == HandleBranchSkipping(n, active, S)
<1>1. targets \subseteq Children(n) /\ targets \in SUBSET Node
  BY TargetsAreChildren, Adjacency DEF InactiveTargets
<1>2. R = MarkDownstreamNodesAsSkipped(targets, S \cup targets)
  BY DEF HandleBranchSkipping
<1>3. S \cup targets \in SUBSET Node
  BY <1>1
<1>4. R \subseteq Node /\ S \cup targets \subseteq R
  BY <1>2, <1>3, CascadeType
<1>5. targets \cap Seen = {}
  BY <1>1, Adjacency
<1>6. R \cap Seen \subseteq S
  BY <1>1, <1>2, <1>5, CascadeFresh
<1>7. ASSUME NEW m \in R \ S
      PROVE  Parents(m) \subseteq R \cup {n}
  <2>1. CASE m \in targets
    BY <2>1, <1>4 DEF InactiveTargets
  <2>2. CASE m \notin targets
    BY <2>2, <1>2, <1>3, CascadeParents
  <2>3. QED  BY <2>1, <2>2
<1>8. ASSUME NEW m \in R \ S
      PROVE  ~(Parents(m) \subseteq Seen \ {n})
  <2>1. CASE m \in targets
    BY <2>1, <1>1, Adjacency
  <2>2. CASE m \notin targets
    <3>1. PICK p \in targets \cup (R \ (S \cup targets)) : p \in Parents(m)
      BY <2>2, <1>2, <1>3, CascadeReached
    <3>2. p \notin Seen
      BY <3>1, <1>5, <1>6
    <3>3. QED  BY <3>1, <3>2
  <2>3. QED  BY <2>1, <2>2
<1>9. QED  BY <1>4, <1>6, <1>7, <1>8

-----------------------------------------------------------------------------
(* The scheduler.                                                          *)

(* A growing subset of Node that keeps its size has not changed.           *)
LEMMA SameSizeSameSet ==
  ASSUME NEW S \in SUBSET Node, NEW T \in SUBSET Node, S \subseteq T,
         Cardinality(T) = Cardinality(S)
  PROVE  S = T
  BY FS_Subset, GraphAssumption

LEMMA SubsetCardinality ==
  ASSUME NEW S \in SUBSET Node
  PROVE  IsFiniteSet(S) /\ Cardinality(S) \in Nat
  BY FS_Subset, FS_CardinalityType, GraphAssumption

-----------------------------------------------------------------------------

LEMMA InitInv == Init => Inv
<1> SUFFICES ASSUME Init PROVE Inv
  OBVIOUS
<1>1. Cardinality({}) = 0
  BY FS_EmptySet
<1>2. TypeOK
  BY DEF Init, TypeOK
<1>3. BookkeepingAgrees
  BY <1>1 DEF Init, BookkeepingAgrees
<1>4. ExecutedAtMostOnce /\ RunXorSkipped /\ ParentsFirst /\ OutsideSettled
      /\ NothingForgotten /\ PhasesAgree
  BY DEF Init, ExecutedAtMostOnce, RunXorSkipped, ParentsFirst, OutsideSettled,
         NothingForgotten, PhasesAgree
<1>5. QED  BY <1>2, <1>3, <1>4 DEF Inv

(* What StartsAssumption asks of a segment.                                *)
Admissible(s) ==
  /\ s.nodes \subseteq Node /\ s.complete \subseteq Node /\ s.skipped \subseteq Node
  /\ s.complete \cap s.skipped = {}
  /\ AncestorClosed(s.complete \cup s.skipped)
  /\ \A n \in s.nodes : \A p \in Parents(n) \ s.nodes :
       Parents(p) \subseteq s.complete \cup s.skipped

(* Inv holds at the start of every admissible segment, whatever was before. *)
LEMMA StartInv ==
  ASSUME NEW s, Admissible(s), StartSegment(s), aborted' \in BOOLEAN
  PROVE  Inv'
<1> DEFINE start == s.complete \cup s.skipped
<1>1. /\ s.nodes \subseteq Node /\ s.complete \subseteq Node /\ s.skipped \subseteq Node
      /\ s.complete \cap s.skipped = {}
      /\ \A n \in start : Parents(n) \subseteq start
      /\ \A n \in s.nodes : \A p \in Parents(n) \ s.nodes : Parents(p) \subseteq start
  BY DEF Admissible, AncestorClosed
<1>2. /\ pc' = "launching" /\ nodes' = s.nodes /\ nodeOutputs' = s.complete
      /\ skipped' = s.skipped /\ lastSkippedSize' = Cardinality(s.skipped)
      /\ terminal' = start /\ done' = start
      /\ ready' = {n \in s.nodes \ start : Parents(n) \subseteq start}
      /\ inFlight' = {} /\ firstFailure' = None /\ batchPending' = {}
      /\ paused' = FALSE
  BY DEF StartSegment, AllParentsTerminal
<1>3. TypeOK'
  <2>1. Cardinality(s.skipped) \in Nat
    BY <1>1, SubsetCardinality
  <2>2. QED  BY <1>1, <1>2, <2>1 DEF TypeOK
<1>4. BookkeepingAgrees' /\ ExecutedAtMostOnce' /\ RunXorSkipped'
  BY <1>1, <1>2 DEF BookkeepingAgrees, ExecutedAtMostOnce, RunXorSkipped
<1>5. ParentsFirst' /\ OutsideSettled' /\ NothingForgotten'
  BY <1>1, <1>2 DEF ParentsFirst, OutsideSettled, NothingForgotten
<1>6. PhasesAgree'
  BY <1>2 DEF PhasesAgree
<1>7. QED  BY <1>3, <1>4, <1>5, <1>6 DEF Inv

LEMMA RunStartsInv ==
  ASSUME Inv, NEW s \in Starts, Run(s)
  PROVE  Inv'
<1>1. Admissible(s)
  BY StartsAssumption DEF Admissible
<1>2. aborted' \in BOOLEAN
  BY DEF Run, Inv, TypeOK
<1>3. QED  BY <1>1, <1>2, StartInv DEF Run

LEMMA LaunchInv ==
  ASSUME Inv, NEW n \in Node, Launch(n)
  PROVE  Inv'
<1>1. TypeOK'
  BY DEF Inv, TypeOK, Launch
<1>2. BookkeepingAgrees'
  BY DEF Inv, BookkeepingAgrees, Launch
<1>3. ExecutedAtMostOnce'
  BY DEF Inv, ExecutedAtMostOnce, Launch
<1>4. RunXorSkipped'
  BY DEF Inv, RunXorSkipped, Launch
<1>5. ParentsFirst' /\ OutsideSettled'
  BY DEF Inv, ParentsFirst, OutsideSettled, Launch
<1>6. NothingForgotten'
  BY DEF Inv, NothingForgotten, Launch
<1>7. PhasesAgree'
  BY DEF Inv, PhasesAgree, Launch, Halted
<1>8. QED  BY <1>1, <1>2, <1>3, <1>4, <1>5, <1>6, <1>7 DEF Inv

(* When nothing is in flight and no launch is possible, the segment is     *)
(* over: a free slot is no reason to stop.                                 *)
LEMMA StopsForAReason ==
  ASSUME ~CanLaunch, inFlight = {}
  PROVE  ready = {} \/ Halted
<1>1. Cardinality(inFlight) < Concurrency
  BY FS_EmptySet, ConcurrencyAssumption
<1>2. QED  BY <1>1 DEF CanLaunch, Halted

LEMMA LoopInv ==
  ASSUME Inv, RaceCompletion \/ Return \/ Abort
  PROVE  Inv'
<1>1. TypeOK'
  BY DEF Inv, TypeOK, RaceCompletion, Return, Abort
<1>2. BookkeepingAgrees' /\ ExecutedAtMostOnce' /\ RunXorSkipped' /\ ParentsFirst'
      /\ OutsideSettled'
  BY DEF Inv, BookkeepingAgrees, ExecutedAtMostOnce, RunXorSkipped, ParentsFirst, OutsideSettled,
         RaceCompletion, Return, Abort
<1>3. NothingForgotten'
  BY DEF Inv, NothingForgotten, RaceCompletion, Return, Abort
<1>4. PhasesAgree'
  BY StopsForAReason DEF Inv, PhasesAgree, RaceCompletion, Return, Abort, Halted
<1>5. QED  BY <1>1, <1>2, <1>3, <1>4 DEF Inv

LEMMA StopInv ==
  ASSUME Inv, NEW n \in Node, CompleteFailed(n) \/ CompleteBatchSubmitted(n)
  PROVE  Inv'
<1>1. /\ n \in inFlight /\ n \notin done /\ n \notin terminal /\ n \notin ready
      /\ n \notin skipped
  BY DEF Inv, ExecutedAtMostOnce, BookkeepingAgrees, RunXorSkipped, Settled,
         CompleteFailed, CompleteBatchSubmitted
<1>2. TypeOK'
  BY DEF Inv, TypeOK, Settled, CompleteFailed, CompleteBatchSubmitted
<1>3. BookkeepingAgrees'
  BY <1>1, NoneAssumption
     DEF Inv, BookkeepingAgrees, Settled, CompleteFailed, CompleteBatchSubmitted
<1>4. ExecutedAtMostOnce' /\ RunXorSkipped'
  BY <1>1 DEF Inv, ExecutedAtMostOnce, RunXorSkipped, Settled, CompleteFailed,
              CompleteBatchSubmitted
<1>5. ParentsFirst' /\ OutsideSettled' /\ NothingForgotten'
  BY <1>1 DEF Inv, ParentsFirst, OutsideSettled, NothingForgotten, Settled, CompleteFailed,
              CompleteBatchSubmitted
<1>6. PhasesAgree'
  BY DEF PhasesAgree, Settled, CompleteFailed, CompleteBatchSubmitted
<1>7. QED  BY <1>2, <1>3, <1>4, <1>5, <1>6 DEF Inv

(***************************************************************************)
(* The common tail of SUCCESS and SKIPPED.  The hypotheses say what the    *)
(* two cases do to the skip set and to nodeOutputs.                        *)
(***************************************************************************)
LEMMA FinishInv ==
  ASSUME Inv, NEW n \in Node, NEW skips \in SUBSET Node, Finish(n, skips),
         skipped \subseteq skips,
         (skips \ skipped) \cap (done \cup (ready \cap nodes) \cup inFlight) \subseteq {n},
         \A m \in skips \ skipped : Parents(m) \subseteq terminal \cup skips \cup {n},
         \A m \in skips \ (skipped \cup {n}) : ~(Parents(m) \subseteq terminal),
         \/ nodeOutputs' = nodeOutputs /\ n \in skips
         \/ nodeOutputs' = nodeOutputs \cup {n} /\ n \notin skips
  PROVE  Inv'
<1> USE DEF Inv
<1>1. /\ n \in inFlight /\ n \notin done /\ n \notin terminal /\ n \notin ready
      /\ n \notin skipped /\ n \in nodes
  BY DEF ExecutedAtMostOnce, BookkeepingAgrees, RunXorSkipped, Finish, Settled, TypeOK
<1>2. NewlySkipped(n, skips) = skips \ (skipped \cup {n})
  <2>1. CASE Cardinality(skips) = lastSkippedSize
    <3>1. skips = skipped
      BY <2>1, SameSizeSameSet DEF BookkeepingAgrees, TypeOK
    <3>2. QED  BY <2>1, <3>1 DEF NewlySkipped
  <2>2. CASE Cardinality(skips) # lastSkippedSize
    <3>1. skips \cap done \subseteq skipped /\ skipped \subseteq done
      BY <1>1 DEF BookkeepingAgrees
    <3>2. QED  BY <2>2, <3>1 DEF NewlySkipped
  <2>3. QED  BY <2>1, <2>2
<1> DEFINE new == {n} \cup skips
<1>3. /\ inFlight' = inFlight \ {n} /\ pc' = "launching" /\ nodes' = nodes
      /\ aborted' = aborted /\ skipped' = skips
      /\ lastSkippedSize' = Cardinality(skips)
      /\ UNCHANGED <<firstFailure, batchPending, paused>>
  BY DEF Finish, Settled
<1>4. done' = done \cup new /\ terminal' = terminal \cup new
  BY <1>2 DEF Finish, BookkeepingAgrees
<1>5. ready' = ready \cup Promoted(n, skips \ (skipped \cup {n}), skips)
  BY <1>2 DEF Finish
<1>6. new \cap (done \cup (ready \cap nodes) \cup (inFlight \ {n})) \subseteq skipped
  BY <1>1
<1>7. \A m \in ready' \ ready : /\ m \in Node
                                /\ m \notin done' \cup inFlight' \cup skips
                                /\ m \in nodes => Parents(m) \subseteq terminal'
  BY <1>3, <1>4, <1>5, Adjacency DEF Promoted, AllParentsTerminal
<1>8. TypeOK'
  <2>1. Cardinality(skips) \in Nat
    BY SubsetCardinality
  <2>2. ready' \subseteq Node
    BY <1>7 DEF TypeOK
  <2>3. QED  BY <1>3, <1>4, <2>1, <2>2 DEF TypeOK
<1>9. BookkeepingAgrees'
  <2>1. terminal' = nodeOutputs' \cup skipped'
    BY <1>3, <1>4 DEF BookkeepingAgrees
  <2>2. batchPending' \subseteq done' \ terminal'
    BY <1>1, <1>3, <1>4, <1>6 DEF BookkeepingAgrees
  <2>3. QED  BY <1>3, <1>4, <2>1, <2>2 DEF BookkeepingAgrees
<1>10. ExecutedAtMostOnce'
  <2>1. done' \cap inFlight' = {}
    BY <1>1, <1>3, <1>4, <1>6 DEF ExecutedAtMostOnce, RunXorSkipped
  <2>2. done' \cap ready' \cap nodes' = {}
    BY <1>1, <1>3, <1>4, <1>6, <1>7 DEF ExecutedAtMostOnce, RunXorSkipped
  <2>3. ready' \cap inFlight' = {}
    BY <1>3, <1>7 DEF ExecutedAtMostOnce
  <2>4. QED  BY <2>1, <2>2, <2>3 DEF ExecutedAtMostOnce
<1>11. RunXorSkipped'
  <2>1. skips \cap nodeOutputs' = {}
    BY <1>1 DEF RunXorSkipped, BookkeepingAgrees
  <2>2. skips \cap (inFlight' \cup (ready' \cap nodes)) = {}
    BY <1>1, <1>3, <1>6, <1>7 DEF RunXorSkipped
  <2>3. QED  BY <1>3, <2>1, <2>2 DEF RunXorSkipped
<1>12. ParentsFirst'
  <2>1. ASSUME NEW m \in done' \cup (ready' \cap nodes') \cup inFlight'
        PROVE  Parents(m) \subseteq terminal'
    <3>1. CASE m \in done \cup (ready \cap nodes) \cup inFlight
      BY <3>1, <1>4 DEF ParentsFirst
    <3>2. CASE m \in skips \ skipped
      BY <3>2, <1>4
    <3>3. CASE m \in ready' \ ready /\ m \in nodes
      BY <3>3, <1>7
    <3>4. m \in skipped => m \in done
      BY DEF BookkeepingAgrees
    <3>5. QED  BY <1>1, <1>3, <1>4, <2>1, <3>1, <3>2, <3>3, <3>4
  <2>2. QED  BY <2>1 DEF ParentsFirst
<1>13. NothingForgotten'
  <2>1. SUFFICES ASSUME NEW m \in nodes \ (done' \cup inFlight' \cup ready'),
                        Parents(m) \subseteq terminal'
                 PROVE  FALSE
    BY <1>3 DEF NothingForgotten
  <2>2. pc = "racing"
    BY DEF Finish, Settled
  <2>3. m \notin done \cup inFlight \cup ready /\ m \notin skips
    BY <1>3, <1>4, <1>5, <2>1
  <2>4. ~(Parents(m) \subseteq terminal)
    BY <2>1, <2>2, <2>3 DEF NothingForgotten
  <2>5. PICK p \in Parents(m) : p \in new \ terminal
    BY <1>4, <2>1, <2>4
  <2>6. p \in {n} \cup (skips \ (skipped \cup {n})) /\ m \in Children(p)
    BY <2>5, Adjacency DEF BookkeepingAgrees
  <2>7. p \in nodes
    BY <1>1, <2>1, <2>5, <2>6 DEF OutsideSettled
  <2>8. m \in Promoted(n, skips \ (skipped \cup {n}), skips)
    <3>1. m \notin done \cup {n} \cup inFlight' \cup ready \cup skips
      BY <1>1, <1>3, <1>4, <2>1, <2>3
    <3>2. m \in UNION {Children(q) : q \in ({n} \cup (skips \ (skipped \cup {n}))) \cap nodes}
      BY <2>6, <2>7
    <3>3. QED  BY <2>1, <3>1, <3>2 DEF Promoted, AllParentsTerminal
  <2>9. QED  BY <1>5, <2>1, <2>8
<1>14. OutsideSettled'
  BY <1>3, <1>4 DEF OutsideSettled
<1>15. PhasesAgree'
  BY <1>3 DEF PhasesAgree
<1>16. QED  BY <1>8, <1>9, <1>10, <1>11, <1>12, <1>13, <1>14, <1>15

LEMMA CompleteSkippedInv ==
  ASSUME Inv, NEW n \in Node, CompleteSkipped(n)
  PROVE  Inv'
<1>1. n \in inFlight /\ Finish(n, skipped \cup {n}) /\ nodeOutputs' = nodeOutputs
  BY DEF CompleteSkipped, Finish, Settled
<1>2. skipped \cup {n} \in SUBSET Node
  BY DEF Inv, TypeOK
<1>3. Parents(n) \subseteq terminal
  BY <1>1 DEF Inv, ParentsFirst
<1>4. QED  BY <1>1, <1>2, <1>3, FinishInv

LEMMA CompleteSuccessInv ==
  ASSUME Inv, NEW n \in Node, NEW active, CompleteSuccess(n, active)
  PROVE  Inv'
<1> DEFINE skips == HandleBranchSkipping(n, active, skipped)
           Seen  == done \cup (ready \cap nodes) \cup inFlight
<1>1. n \in inFlight /\ Finish(n, skips) /\ nodeOutputs' = nodeOutputs \cup {n}
  BY DEF CompleteSuccess, Finish, Settled
<1>2. n \notin terminal /\ n \notin skipped
  BY <1>1 DEF Inv, ExecutedAtMostOnce, RunXorSkipped, BookkeepingAgrees
<1>3. skipped \in SUBSET Node /\ Seen \in SUBSET Node
  BY DEF Inv, TypeOK
<1>4. \A m \in Seen : Parents(m) \subseteq Seen \ {n}
  BY <1>2 DEF Inv, ParentsFirst, BookkeepingAgrees
<1>5. /\ skips \subseteq Node /\ skipped \subseteq skips
      /\ skips \cap Seen \subseteq skipped
      /\ \A m \in skips \ skipped : Parents(m) \subseteq skips \cup {n}
      /\ \A m \in skips \ skipped : ~(Parents(m) \subseteq Seen \ {n})
  <2> HIDE DEF Seen
  <2>1. QED  BY <1>3, <1>4, BranchSkipping
<1>6. n \notin skips
  BY <1>1, <1>2, <1>5
<1>7. terminal \subseteq Seen \ {n}
  BY <1>2 DEF Inv, BookkeepingAgrees
<1> HIDE DEF skips
<1>8. QED  BY <1>1, <1>5, <1>6, <1>7, FinishInv

-----------------------------------------------------------------------------

LEMMA NextInv == Inv /\ [Next]_vars => Inv'
<1> SUFFICES ASSUME Inv, [Next]_vars PROVE Inv'
  OBVIOUS
<1>1. ASSUME NEW s \in Starts, Run(s) PROVE Inv'
  BY <1>1, RunStartsInv
<1>2. ASSUME NEW n \in Node, Launch(n) PROVE Inv'
  BY <1>2, LaunchInv
<1>3. ASSUME NEW n \in Node, Complete(n) PROVE Inv'
  BY <1>3, CompleteSuccessInv, CompleteSkippedInv, StopInv DEF Complete
<1>4. CASE RaceCompletion \/ Return \/ Abort
  BY <1>4, LoopInv
<1>5. CASE UNCHANGED vars
  BY <1>5 DEF vars, Inv, TypeOK, BookkeepingAgrees, ExecutedAtMostOnce, RunXorSkipped,
              ParentsFirst, OutsideSettled, NothingForgotten, PhasesAgree, Halted
<1>6. QED  BY <1>1, <1>2, <1>3, <1>4, <1>5 DEF Next

(* The strengthened invariant holds throughout every run of the scheduler. *)
THEOREM Invariance == Spec => []Inv
  BY InitInv, NextInv, PTL DEF Spec

(* Every variable of the scheduler keeps its type.                         *)
THEOREM TypeCorrect == Spec => []TypeOK
<1>1. Inv => TypeOK
  BY DEF Inv
<1>2. QED  BY <1>1, Invariance, PTL

(* A running node has its inputs: all its parents have left outputs or     *)
(* were skipped.                                                           *)
THEOREM InputsAvailableCorrect == Spec => []InputsAvailable
<1>1. Inv => InputsAvailable
  BY DEF Inv, ParentsFirst, BookkeepingAgrees, InputsAvailable
<1>2. QED  BY <1>1, Invariance, PTL

(* No completion ever skips a node that is queued, running or has run.     *)
THEOREM RunXorSkippedCorrect == Spec => []RunXorSkipped
<1>1. Inv => RunXorSkipped
  BY DEF Inv
<1>2. QED  BY <1>1, Invariance, PTL

(* A node that has completed is neither queued nor launched again.         *)
THEOREM ExecutedAtMostOnceCorrect == Spec => []ExecutedAtMostOnce
<1>1. Inv => ExecutedAtMostOnce
  BY DEF Inv
<1>2. QED  BY <1>1, Invariance, PTL

(* Comparing sizes is enough to notice every newly skipped node.           *)
THEOREM SkipsAbsorbedCorrect == Spec => []SkipsAbsorbed
<1>1. Inv => SkipsAbsorbed
  BY DEF Inv, BookkeepingAgrees, SkipsAbsorbed
<1>2. QED  BY <1>1, Invariance, PTL

(* A clean return leaves no node of an acyclic flow unexecuted.            *)
THEOREM NothingLeftBehindCorrect == Spec => []NothingLeftBehind
<1>1. ASSUME Inv, pc = "returned", ~Halted, Acyclic, AncestorClosed(nodes)
      PROVE  nodes \subseteq nodeOutputs \cup skipped
  <2> DEFINE left == nodes \ terminal
  <2>1. inFlight = {} /\ ready = {} /\ done = terminal
    BY <1>1 DEF Inv, PhasesAgree, BookkeepingAgrees, Halted
  <2>2. \A m \in left : ~(Parents(m) \subseteq terminal)
    BY <1>1, <2>1 DEF Inv, NothingForgotten
  <2>3. \A m \in left : Parents(m) \cap left # {}
    BY <1>1, <2>2 DEF AncestorClosed
  <2>4. left \in SUBSET Node
    BY <1>1 DEF Inv, TypeOK
  <2>5. left = {}
    BY <1>1, <2>3, <2>4 DEF Acyclic
  <2>6. QED  BY <1>1, <2>5 DEF Inv, BookkeepingAgrees
<1>2. Inv => NothingLeftBehind
  BY <1>1 DEF NothingLeftBehind
<1>3. QED  BY <1>2, Invariance, PTL

(* After a failure, a pause or an abort the running nodes only settle.     *)
THEOREM NoLaunchWhenHaltedCorrect == Spec => NoLaunchWhenHalted
<1>1. Inv /\ [Next]_vars => [Halted => inFlight' \subseteq inFlight]_vars
  BY DEF Inv, PhasesAgree, Next, Run, StartSegment, Launch, CanLaunch, Complete, CompleteSuccess,
         CompleteSkipped, CompleteFailed, CompleteBatchSubmitted, Finish, Settled,
         RaceCompletion, Return, Abort, Halted, vars
<1>2. QED  BY <1>1, Invariance, PTL DEF Spec, NoLaunchWhenHalted

-----------------------------------------------------------------------------
(* Every run of the scheduler is a run of FlowExecution.                   *)

(* The graph operators of the instance are those of the flow.              *)
LEMMA SameGraph ==
  \A n : Abs!Parents(n) = Parents(n)
  BY DEF Abs!Parents, Abs!Incoming, Parents, Incoming

LEMMA SameCardinality ==
  \A S : Abs!Cardinality(S) = Cardinality(S)
  BY DEF Abs!Cardinality, Cardinality

(* What the status of a node says about the bookkeeping.                   *)
StatusAgrees ==
  \A n \in Node :
    /\ absStatus[n] = "running"   <=> n \in inFlight
    /\ absStatus[n] = "skipped"   <=> n \in skipped
    /\ absStatus[n] = "succeeded" <=> n \in nodeOutputs
    /\ absStatus[n] = "submitted" <=> n \in batchPending
    /\ absStatus[n] = "failed"    <=> n \in done \ (terminal \cup batchPending)
    /\ absStatus[n] = "waiting"   <=> n \notin done \cup inFlight
    /\ absStatus[n] \in {"running", "skipped", "succeeded", "submitted", "failed", "waiting"}

(* The arms of absStatus exclude each other.                               *)
LEMMA StatusMeaning == Inv => StatusAgrees
<1> SUFFICES ASSUME Inv, NEW n \in Node
    PROVE  /\ absStatus[n] = "running"   <=> n \in inFlight
           /\ absStatus[n] = "skipped"   <=> n \in skipped
           /\ absStatus[n] = "succeeded" <=> n \in nodeOutputs
           /\ absStatus[n] = "submitted" <=> n \in batchPending
           /\ absStatus[n] = "failed"    <=> n \in done \ (terminal \cup batchPending)
           /\ absStatus[n] = "waiting"   <=> n \notin done \cup inFlight
           /\ absStatus[n] \in {"running", "skipped", "succeeded", "submitted", "failed", "waiting"}
  BY DEF StatusAgrees
<1>1. /\ inFlight \cap done = {}
      /\ terminal = nodeOutputs \cup skipped
      /\ terminal \subseteq done
      /\ skipped \cap nodeOutputs = {}
      /\ batchPending \subseteq done \ terminal
  BY DEF Inv, ExecutedAtMostOnce, BookkeepingAgrees, RunXorSkipped
<1>2. CASE n \in inFlight
  BY <1>1, <1>2 DEF absStatus
<1>3. CASE n \in skipped
  BY <1>1, <1>3 DEF absStatus
<1>4. CASE n \in nodeOutputs
  BY <1>1, <1>4 DEF absStatus
<1>5. CASE n \in batchPending
  BY <1>1, <1>5 DEF absStatus
<1>6. CASE n \in done \ (terminal \cup batchPending)
  BY <1>1, <1>6 DEF absStatus
<1>7. CASE n \notin done \cup inFlight
  BY <1>1, <1>7 DEF absStatus
<1>8. QED  BY <1>1, <1>2, <1>3, <1>4, <1>5, <1>6, <1>7

(* The two readings of "running" and "finished".                           *)
LEMMA SetsMeaning ==
  Inv => Abs!Running = inFlight /\ Abs!Finished = terminal
<1>1. Inv => /\ inFlight \subseteq Node /\ terminal \subseteq Node
             /\ terminal = nodeOutputs \cup skipped
  BY DEF Inv, TypeOK, BookkeepingAgrees
<1>2. QED  BY <1>1, StatusMeaning DEF StatusAgrees, Abs!Running, Abs!Finished

LEMMA AbsStatusFunction ==
  /\ absStatus = [n \in Node |-> absStatus[n]]
  /\ absStatus' = [n \in Node |-> absStatus'[n]]
  BY DEF absStatus

LEMMA InitRefines == Init => Abs!AbsInit
  BY DEF Init, Abs!AbsInit, absPhase, absStatus, Halted

-----------------------------------------------------------------------------

LEMMA RunRefines ==
  ASSUME Inv, Inv', NEW s \in Starts, Run(s)
  PROVE  Abs!AbsBegin(s)
<1>1. pc = "idle" /\ pc' = "launching"
  BY DEF Run, StartSegment
<1>2. /\ nodes' = s.nodes /\ nodeOutputs' = s.complete /\ skipped' = s.skipped
      /\ done' = s.complete \cup s.skipped
      /\ inFlight' = {} /\ batchPending' = {} /\ Halted' = Halted
  BY DEF Run, StartSegment, Inv, PhasesAgree, Halted
<1>3. absStatus' = [n \in Node |-> IF n \in s.skipped THEN "skipped"
                                   ELSE IF n \in s.complete THEN "succeeded"
                                   ELSE "waiting"]
  <2>1. StatusAgrees'
    BY StatusMeaning, PTL
  <2>2. \A n \in Node : absStatus'[n] = IF n \in s.skipped THEN "skipped"
                                        ELSE IF n \in s.complete THEN "succeeded"
                                        ELSE "waiting"
    BY <1>2, <2>1 DEF StatusAgrees
  <2>3. QED  BY <2>2, AbsStatusFunction
<1>4. QED  BY <1>1, <1>2, <1>3 DEF Abs!AbsBegin, absPhase

LEMMA LaunchRefines ==
  ASSUME Inv, Inv', NEW n \in Node, Launch(n)
  PROVE  Abs!AbsStart(n) \/ UNCHANGED Abs!absVars
<1>1. /\ pc = "launching" /\ pc' = pc /\ nodes' = nodes /\ Halted' = Halted /\ ~Halted
      /\ Cardinality(inFlight) < Concurrency
      /\ n \in ready /\ inFlight' = inFlight \cup ({n} \cap nodes)
      /\ UNCHANGED <<skipped, nodeOutputs, batchPending, done>>
  BY DEF Launch, CanLaunch, Halted
<1>2. CASE n \in nodes
  <2>1. n \notin done \cup inFlight /\ Parents(n) \subseteq terminal
    BY <1>1, <1>2 DEF Inv, ExecutedAtMostOnce, ParentsFirst
  <2>2. Abs!Startable(n)
    BY <1>2, <2>1, StatusMeaning, SetsMeaning, SameGraph DEF StatusAgrees, Abs!Startable
  <2>3. absStatus' = [absStatus EXCEPT ![n] = "running"]
    <3>1. StatusAgrees'
      BY StatusMeaning, PTL
    <3>2. absStatus'[n] = "running"
      BY <1>1, <1>2, <3>1 DEF StatusAgrees
    <3>3. ASSUME NEW m \in Node, m # n
          PROVE  absStatus'[m] = absStatus[m]
      BY <1>1, <3>3 DEF absStatus
    <3>4. QED  BY <3>2, <3>3, AbsStatusFunction
  <2>4. absPhase = "running" /\ absPhase' = absPhase
    BY <1>1 DEF absPhase
  <2>5. Abs!Cardinality(Abs!Running) < Concurrency
    BY <1>1, SetsMeaning, SameCardinality
  <2>6. Abs!AbsStart(n)
    BY <1>1, <2>2, <2>3, <2>4, <2>5 DEF Abs!AbsStart
  <2>7. QED  BY <2>6
<1>3. CASE n \notin nodes
  <2>1. inFlight' = inFlight
    BY <1>1, <1>3
  <2>2. absStatus' = absStatus
    BY <1>1, <2>1 DEF absStatus
  <2>3. QED  BY <1>1, <2>2 DEF Abs!absVars, absPhase
<1>4. QED  BY <1>2, <1>3

LEMMA RaceRefines ==
  ASSUME RaceCompletion
  PROVE  UNCHANGED Abs!absVars
<1>1. absStatus' = absStatus /\ absPhase' = absPhase /\ Halted' = Halted /\ nodes' = nodes
  BY DEF RaceCompletion, absStatus, absPhase, Halted
<1>2. QED  BY <1>1 DEF Abs!absVars

LEMMA ReturnRefines ==
  ASSUME Inv, Return
  PROVE  Abs!AbsReturn
<1>1. /\ pc = "launching" /\ pc' = "returned" /\ inFlight = {} /\ nodes' = nodes
      /\ Halted' = Halted /\ absStatus' = absStatus
  BY DEF Return, absStatus, Halted
<1>2. ready = {} \/ Halted
  BY StopsForAReason DEF Return
<1>3. ready = {} => \A n \in Node : ~Abs!Startable(n)
  BY <1>1, StatusMeaning, SetsMeaning, SameGraph
     DEF Inv, NothingForgotten, StatusAgrees, Abs!Startable
<1>4. Abs!Running = {}
  BY <1>1, SetsMeaning
<1>5. QED  BY <1>1, <1>2, <1>3, <1>4 DEF Abs!AbsReturn, absPhase

LEMMA AbortRefines ==
  ASSUME Abort
  PROVE  Abs!AbsAbort
<1>1. absStatus' = absStatus /\ absPhase' = absPhase /\ Halted' = TRUE /\ nodes' = nodes
  BY DEF Abort, absStatus, absPhase, Halted
<1>2. QED  BY <1>1 DEF Abs!AbsAbort

(* A failed or submitted node stops, and halts the segment.                *)
LEMMA StopRefines ==
  ASSUME Inv, Inv', NEW n \in Node, CompleteFailed(n) \/ CompleteBatchSubmitted(n)
  PROVE  Abs!AbsStop(n)
<1>1. /\ n \in inFlight /\ pc = "racing" /\ pc' = "launching" /\ nodes' = nodes
      /\ inFlight' = inFlight \ {n} /\ done' = done \cup {n}
      /\ UNCHANGED <<skipped, nodeOutputs, terminal>>
      /\ \/ batchPending' = batchPending \cup {n}
         \/ batchPending' = batchPending
  BY DEF CompleteFailed, CompleteBatchSubmitted, Settled
<1>2. Halted'
  BY NoneAssumption DEF CompleteFailed, CompleteBatchSubmitted, Halted
<1>3. n \notin done /\ n \notin terminal /\ absStatus[n] = "running"
  BY <1>1, StatusMeaning DEF Inv, ExecutedAtMostOnce, BookkeepingAgrees, StatusAgrees
<1>4. ASSUME NEW m \in Node, m # n
      PROVE  absStatus'[m] = absStatus[m]
  BY <1>1, <1>4 DEF absStatus
<1>5. absStatus'[n] \in {"failed", "submitted"}
  <2>1. StatusAgrees'
    BY StatusMeaning, PTL
  <2>2. QED  BY <1>1, <1>3, <2>1 DEF Inv, BookkeepingAgrees, StatusAgrees
<1>6. absStatus' = [absStatus EXCEPT ![n] = absStatus'[n]]
  BY <1>4, AbsStatusFunction
<1>7. QED  BY <1>1, <1>2, <1>3, <1>5, <1>6 DEF Abs!AbsStop, absPhase

(* A node that ends well may take waiting nodes with it, and no others.    *)
LEMMA FinishRefines ==
  ASSUME Inv, Inv', NEW n \in Node, NEW skips \in SUBSET Node, Finish(n, skips),
         skipped \subseteq skips,
         (skips \ skipped) \cap (done \cup inFlight) \subseteq {n},
         \/ nodeOutputs' = nodeOutputs /\ n \in skips
         \/ nodeOutputs' = nodeOutputs \cup {n} /\ n \notin skips
  PROVE  Abs!AbsFinish(n, skips \ (skipped \cup {n}))
<1> DEFINE fresh == skips \ (skipped \cup {n})
           result == IF n \in skips THEN "skipped" ELSE "succeeded"
<1>1. /\ n \in inFlight /\ pc = "racing" /\ pc' = "launching" /\ nodes' = nodes
      /\ inFlight' = inFlight \ {n} /\ skipped' = skips
      /\ done \subseteq done' /\ done' \subseteq done \cup {n} \cup skips
      /\ UNCHANGED batchPending /\ Halted' = Halted
  BY DEF Finish, Settled, NewlySkipped, Halted
<1>2. absStatus[n] = "running"
  BY <1>1, StatusMeaning DEF StatusAgrees
<1>3. \A m \in fresh : absStatus[m] = "waiting"
  BY StatusMeaning DEF StatusAgrees
<1>4. StatusAgrees'
  BY StatusMeaning, PTL
<1>5. absStatus'[n] = result
  BY <1>1, <1>4 DEF StatusAgrees
<1>6. \A m \in fresh : absStatus'[m] = "skipped"
  BY <1>1, <1>4 DEF StatusAgrees
<1>7. ASSUME NEW m \in Node, m # n, m \notin fresh
      PROVE  absStatus'[m] = absStatus[m]
  BY <1>1, <1>7 DEF absStatus
<1>8. absStatus' = [m \in Node |-> IF m = n THEN result
                                   ELSE IF m \in fresh THEN "skipped"
                                   ELSE absStatus[m]]
  BY <1>5, <1>6, <1>7, AbsStatusFunction
<1>9. QED
  BY <1>1, <1>2, <1>3, <1>8 DEF Abs!AbsFinish, absPhase

LEMMA CompleteSkippedRefines ==
  ASSUME Inv, Inv', NEW n \in Node, CompleteSkipped(n)
  PROVE  \E skips \in SUBSET Node : Abs!AbsFinish(n, skips)
<1>1. Finish(n, skipped \cup {n}) /\ nodeOutputs' = nodeOutputs
  BY DEF CompleteSkipped
<1>2. skipped \cup {n} \in SUBSET Node
  BY DEF Inv, TypeOK
<1>3. QED  BY <1>1, <1>2, FinishRefines

LEMMA CompleteSuccessRefines ==
  ASSUME Inv, Inv', NEW n \in Node, NEW active, CompleteSuccess(n, active)
  PROVE  \E skips \in SUBSET Node : Abs!AbsFinish(n, skips)
<1> DEFINE skips == HandleBranchSkipping(n, active, skipped)
           Seen  == done \cup (ready \cap nodes) \cup inFlight
<1>1. n \in inFlight /\ Finish(n, skips) /\ nodeOutputs' = nodeOutputs \cup {n}
  BY DEF CompleteSuccess, Finish, Settled
<1>2. n \notin terminal /\ n \notin skipped
  BY <1>1 DEF Inv, ExecutedAtMostOnce, RunXorSkipped, BookkeepingAgrees
<1>3. skipped \in SUBSET Node /\ Seen \in SUBSET Node
  BY DEF Inv, TypeOK
<1>4. \A m \in Seen : Parents(m) \subseteq Seen \ {n}
  BY <1>2 DEF Inv, ParentsFirst, BookkeepingAgrees
<1>5. /\ skips \subseteq Node /\ skipped \subseteq skips
      /\ skips \cap Seen \subseteq skipped
  <2> HIDE DEF Seen
  <2>1. QED  BY <1>3, <1>4, BranchSkipping
<1>6. n \notin skips /\ (skips \ skipped) \cap (done \cup inFlight) \subseteq {n}
  BY <1>1, <1>2, <1>5
<1> HIDE DEF skips
<1>7. QED  BY <1>1, <1>5, <1>6, FinishRefines

-----------------------------------------------------------------------------

LEMMA NextRefines == Inv /\ Inv' /\ [Next]_vars => [Abs!AbsNext]_Abs!absVars
<1> SUFFICES ASSUME Inv, Inv', [Next]_vars PROVE [Abs!AbsNext]_Abs!absVars
  OBVIOUS
<1>1. ASSUME NEW s \in Starts, Run(s) PROVE Abs!AbsNext
  BY <1>1, RunRefines DEF Abs!AbsNext
<1>2. ASSUME NEW n \in Node, Launch(n) PROVE [Abs!AbsNext]_Abs!absVars
  BY <1>2, LaunchRefines DEF Abs!AbsNext
<1>3. ASSUME NEW n \in Node, Complete(n) PROVE Abs!AbsNext
  BY <1>3, CompleteSuccessRefines, CompleteSkippedRefines, StopRefines
     DEF Complete, Abs!AbsNext
<1>4. CASE RaceCompletion
  BY <1>4, RaceRefines
<1>5. CASE Return
  BY <1>5, ReturnRefines DEF Abs!AbsNext
<1>6. CASE Abort
  BY <1>6, AbortRefines DEF Abs!AbsNext
<1>7. CASE UNCHANGED vars
  BY <1>7 DEF vars, Abs!absVars, absPhase, absStatus, Halted
<1>8. QED  BY <1>1, <1>2, <1>3, <1>4, <1>5, <1>6, <1>7 DEF Next

(* The scheduler implements the abstract flow execution.                   *)
THEOREM Refinement == Spec => ImplementsFlowExecution
  BY InitRefines, NextRefines, Invariance, PTL
     DEF Spec, ImplementsFlowExecution, Abs!AbsSpec

-----------------------------------------------------------------------------
(* The replay of the skips.                                                *)

(***************************************************************************)
(* A set of numbers has a least one.  Induction in the form the provers    *)
(* can use: the library's theorem about sets, applied to the intervals.    *)
(***************************************************************************)
LEMMA LeastNumber ==
  ASSUME NEW N \in Nat, NEW T \in SUBSET (0..N), T # {}
  PROVE  \E k \in T : \A j \in T : k <= j
<1> DEFINE W == 0..N
           U == {0..k : k \in T}
<1>1. IsFiniteSet(W)
  BY FS_Interval
<1>2. IsWellFoundedOn(StrictSubsetOrdering(W), FiniteSubsetsOf(W))
  BY FS_StrictSubsetOrderingWellFounded
<1>3. FiniteSubsetsOf(W) = SUBSET W
  BY <1>1, FS_FiniteSubsetsOfFinite
<1>4. U \subseteq FiniteSubsetsOf(W) /\ U # {}
  <2>1. ASSUME NEW k \in T PROVE (0..k) \subseteq W
    BY SMT
  <2>2. QED  BY <1>3, <2>1
<1>5. \E x \in U : \A y \in U : <<y, x>> \notin StrictSubsetOrdering(W)
  <2> HIDE DEF U, W
  <2>1. QED  BY <1>2, <1>4, WFMin
<1>6. PICK k \in T : \A j \in T : <<0..j, 0..k>> \notin StrictSubsetOrdering(W)
  BY <1>5
<1>7. ASSUME NEW j \in T, ~(k <= j) PROVE FALSE
  <2>1. (0..j) \subseteq (0..k) /\ (0..j) # (0..k)
    <3>1. k \in 0..k /\ k \notin 0..j
      BY <1>7, SMT
    <3>2. (0..j) \subseteq (0..k)
      BY <1>7, SMT
    <3>3. QED  BY <3>1, <3>2
  <2>2. (0..j) \in SUBSET W /\ (0..k) \in SUBSET W
    BY <1>4, <1>3
  <2>3. <<0..j, 0..k>> \in StrictSubsetOrdering(W)
    BY <2>1, <2>2 DEF StrictSubsetOrdering
  <2>4. QED  BY <2>3, <1>6
<1>8. QED  BY <1>7

(* Branch skipping adds to the skip set, and only nodes.                   *)
LEMMA BranchSkippingType ==
  ASSUME NEW n, NEW active, NEW S \in SUBSET Node
  PROVE  /\ HandleBranchSkipping(n, active, S) \subseteq Node
         /\ S \subseteq HandleBranchSkipping(n, active, S)
<1>1. InactiveTargets(n, active, S) \subseteq Node
  BY TargetsAreChildren, Adjacency DEF InactiveTargets
<1>2. QED  BY <1>1, CascadeType DEF HandleBranchSkipping

(* So does the replay of one trace.                                        *)
LEMMA ReplayTraceType ==
  ASSUME NEW t \in Trace, NEW S \in SUBSET Node
  PROVE  ReplayTrace(t, S) \subseteq Node /\ S \subseteq ReplayTrace(t, S)
<1>1. t.node \in Node
  BY DEF Trace
<1>2. CASE t.status = "SUCCESS"
  BY <1>2, BranchSkippingType DEF ReplayTrace
<1>3. CASE t.status = "SKIPPED"
  BY <1>1, <1>3 DEF ReplayTrace
<1>4. CASE t.status \notin {"SUCCESS", "SKIPPED"}
  BY <1>4 DEF ReplayTrace
<1>5. QED  BY <1>2, <1>3, <1>4

(* The recursive function of ReplaySkips, as a predicate.                  *)
Unfolds(f, tr, k) ==
  f = [j \in 0..k |-> IF j = 0 THEN {} ELSE ReplayTrace(tr[Len(tr) + 1 - j], f[j - 1])]

(* It exists: the least length without one would have a predecessor.       *)
LEMMA UnfoldExists ==
  ASSUME NEW tr \in Seq(Trace), NEW k \in 0..Len(tr)
  PROVE  \E f : Unfolds(f, tr, k)
<1> DEFINE T == {j \in 0..Len(tr) : ~\E f : Unfolds(f, tr, j)}
<1>1. SUFFICES ASSUME T # {} PROVE FALSE
  OBVIOUS
<1>2. Len(tr) \in Nat
  OBVIOUS
<1>3. PICK m \in T : \A j \in T : m <= j
  BY <1>1, <1>2, LeastNumber
<1>4. m # 0
  <2>1. Unfolds([j \in 0..0 |-> {}], tr, 0)
    BY DEF Unfolds
  <2>2. QED  BY <2>1
<1>5. m \in Nat /\ m - 1 \in 0..Len(tr) /\ m - 1 \notin T
  BY <1>2, <1>3, <1>4
<1>6. PICK g : Unfolds(g, tr, m - 1)
  BY <1>5
<1> DEFINE f == [j \in 0..m |-> IF j = m THEN ReplayTrace(tr[Len(tr) + 1 - j], g[m - 1])
                                ELSE g[j]]
<1>7. Unfolds(f, tr, m)
  <2>1. ASSUME NEW j \in 0..m
        PROVE  f[j] = IF j = 0 THEN {} ELSE ReplayTrace(tr[Len(tr) + 1 - j], f[j - 1])
    <3>1. CASE j = m
      <4>1. m - 1 \in 0..m /\ m - 1 # m
        BY <1>4, <1>5
      <4>2. f[m - 1] = g[m - 1]
        BY <4>1
      <4>3. QED  BY <1>4, <3>1, <4>2
    <3>2. CASE j # m /\ j # 0
      <4>1. j \in 0..(m - 1) /\ j - 1 \in 0..m /\ j - 1 # m
        BY <1>5, <3>2
      <4>2. f[j] = g[j] /\ f[j - 1] = g[j - 1]
        BY <3>2, <4>1
      <4>3. g[j] = ReplayTrace(tr[Len(tr) + 1 - j], g[j - 1])
        BY <1>6, <3>2, <4>1 DEF Unfolds
      <4>4. QED  BY <3>2, <4>2, <4>3
    <3>3. CASE j # m /\ j = 0
      <4>1. 0 \in 0..(m - 1)
        BY <1>4, <1>5
      <4>2. g[0] = {}
        BY <1>6, <4>1 DEF Unfolds
      <4>3. QED  BY <3>3, <4>2
    <3>4. QED  BY <3>1, <3>2, <3>3
  <2>2. f = [j \in 0..m |-> IF j = 0 THEN {} ELSE ReplayTrace(tr[Len(tr) + 1 - j], f[j - 1])]
    <3> DEFINE h == [j \in 0..m |-> IF j = 0 THEN {} ELSE ReplayTrace(tr[Len(tr) + 1 - j], f[j - 1])]
    <3>1. \A j \in 0..m : f[j] = h[j]
      BY <2>1
    <3>2. QED  BY <3>1
  <2>3. QED  BY <2>2 DEF Unfolds
<1>8. QED  BY <1>3, <1>7

(***************************************************************************)
(* The replay, step by step: from[k] is the skip set after the k latest    *)
(* traces.                                                                 *)
(***************************************************************************)
LEMMA ReplayUnfold ==
  ASSUME NEW tr \in Seq(Trace)
  PROVE  \E from : /\ from[0] = {}
                   /\ \A k \in 1..Len(tr) :
                        from[k] = ReplayTrace(tr[Len(tr) + 1 - k], from[k - 1])
                   /\ ReplaySkips(tr) = from[Len(tr)]
<1> DEFINE from == CHOOSE f : Unfolds(f, tr, Len(tr))
<1>1. Len(tr) \in Nat
  OBVIOUS
<1>2. Unfolds(from, tr, Len(tr))
  BY <1>1, UnfoldExists
<1>3. ReplaySkips(tr) = from[Len(tr)]
  BY DEF ReplaySkips, Unfolds
<1> HIDE DEF from
<1>4. from[0] = {}
  BY <1>1, <1>2 DEF Unfolds
<1>5. ASSUME NEW k \in 1..Len(tr)
      PROVE  from[k] = ReplayTrace(tr[Len(tr) + 1 - k], from[k - 1])
  <2>1. k \in 0..Len(tr) /\ k # 0
    BY <1>1
  <2>2. QED  BY <1>2, <2>1 DEF Unfolds
<1>6. QED  BY <1>3, <1>4, <1>5

(* The replay yields nodes, those among them whose trace says SKIPPED.     *)
LEMMA ReplayType ==
  ASSUME NEW tr \in Seq(Trace)
  PROVE  ReplaySkips(tr) \subseteq Node /\ NodesOf(tr, {"SKIPPED"}) \subseteq ReplaySkips(tr)
<1>1. PICK from : /\ from[0] = {}
                  /\ \A k \in 1..Len(tr) :
                       from[k] = ReplayTrace(tr[Len(tr) + 1 - k], from[k - 1])
                  /\ ReplaySkips(tr) = from[Len(tr)]
  BY ReplayUnfold
<1>2. Len(tr) \in Nat /\ DOMAIN tr = 1..Len(tr)
  OBVIOUS
<1>3. ASSUME NEW k \in 1..Len(tr)
      PROVE  tr[Len(tr) + 1 - k] \in Trace
  <2>1. Len(tr) + 1 - k \in 1..Len(tr)
    BY <1>2
  <2>2. QED  BY <2>1
<1>4. \A k \in 0..Len(tr) : from[k] \subseteq Node
  <2> DEFINE T == {k \in 0..Len(tr) : ~(from[k] \subseteq Node)}
  <2>1. SUFFICES ASSUME T # {} PROVE FALSE
    OBVIOUS
  <2>2. PICK m \in T : \A j \in T : m <= j
    BY <1>2, <2>1, LeastNumber
  <2>3. m # 0
    BY <1>1
  <2>4. m \in 1..Len(tr) /\ m - 1 \in 0..Len(tr) /\ m - 1 \notin T
    BY <1>2, <2>2, <2>3
  <2>5. from[m - 1] \in SUBSET Node
    BY <2>4
  <2>6. from[m] \subseteq Node
    BY <1>1, <1>3, <2>4, <2>5, ReplayTraceType
  <2>7. QED  BY <2>6
<1>5. ASSUME NEW i \in DOMAIN tr, tr[i].status = "SKIPPED"
      PROVE  tr[i].node \in from[Len(tr)]
  <2> DEFINE s == Len(tr) + 1 - i
             T == {k \in 0..Len(tr) : s <= k /\ tr[i].node \notin from[k]}
  <2>1. i \in 1..Len(tr) /\ s \in 1..Len(tr) /\ Len(tr) + 1 - s = i
    BY <1>2
  <2>2. tr[i].node \in from[s]
    <3>1. from[s] = ReplayTrace(tr[i], from[s - 1])
      BY <1>1, <2>1
    <3>2. QED  BY <1>5, <3>1 DEF ReplayTrace
  <2>3. SUFFICES ASSUME T # {} PROVE FALSE
    BY <1>2, <2>1
  <2>4. PICK m \in T : \A j \in T : m <= j
    BY <1>2, <2>3, LeastNumber
  <2>5. m # s
    BY <2>2
  <2>6. m \in 1..Len(tr) /\ m - 1 \in 0..Len(tr) /\ s <= m - 1 /\ m - 1 \notin T
    BY <1>2, <2>1, <2>4, <2>5
  <2>7. tr[i].node \in from[m - 1] /\ from[m - 1] \in SUBSET Node
    BY <1>4, <2>6
  <2>8. from[m - 1] \subseteq from[m]
    <3>1. from[m] = ReplayTrace(tr[Len(tr) + 1 - m], from[m - 1])
      BY <1>1, <2>6
    <3>2. QED  BY <1>3, <2>6, <2>7, <3>1, ReplayTraceType
  <2>9. QED  BY <2>7, <2>8
<1>6. QED  BY <1>1, <1>2, <1>4, <1>5 DEF NodesOf

-----------------------------------------------------------------------------
(* The traces.                                                             *)

(* The nodes with a trace, and that no node has two.                       *)
NodesIn(tr) == {tr[i].node : i \in DOMAIN tr}
OneTraceEach(tr) == \A i, j \in DOMAIN tr : tr[i].node = tr[j].node => i = j

LEMMA NodesOfType ==
  ASSUME NEW tr \in Seq(Trace), NEW ss
  PROVE  NodesOf(tr, ss) \subseteq NodesIn(tr) /\ NodesIn(tr) \subseteq Node
<1>1. \A i \in DOMAIN tr : tr[i].node \in Node
  <2>1. \A i \in DOMAIN tr : tr[i] \in Trace
    OBVIOUS
  <2>2. QED  BY <2>1 DEF Trace
<1>2. QED  BY <1>1 DEF NodesOf, NodesIn

(* Sets of statuses add up.                                                *)
LEMMA NodesOfUnion ==
  ASSUME NEW tr, NEW ss, NEW st
  PROVE  NodesOf(tr, ss \cup st) = NodesOf(tr, ss) \cup NodesOf(tr, st)
  BY DEF NodesOf

(* A node has one status at a time.                                        *)
LEMMA OneStatusEach ==
  ASSUME NEW tr \in Seq(Trace), OneTraceEach(tr), NEW ss, NEW st, ss \cap st = {}
  PROVE  NodesOf(tr, ss) \cap NodesOf(tr, st) = {}
  BY DEF NodesOf, OneTraceEach

(* The effects on the traces of LaunchNode, of Record and of a resume.     *)
Launched(tr, n) == Append(tr, [node |-> n, status |-> "RUNNING", active |-> {}])

Recorded(tr, n, status, active) ==
  [i \in DOMAIN tr |-> IF tr[i].node = n
                       THEN [node |-> n, status |-> status, active |-> active]
                       ELSE tr[i]]

ResolvedTraces(tr) == [i \in DOMAIN tr |-> Resolved(tr[i])]

(* LaunchNode adds the trace of a node that had none.                      *)
LEMMA TraceAdded ==
  ASSUME NEW tr \in Seq(Trace), NEW n \in Node, n \notin NodesIn(tr)
  PROVE  /\ Launched(tr, n) \in Seq(Trace)
         /\ NodesIn(Launched(tr, n)) = NodesIn(tr) \cup {n}
         /\ OneTraceEach(tr) => OneTraceEach(Launched(tr, n))
         /\ \A ss : NodesOf(Launched(tr, n), ss) =
                     NodesOf(tr, ss) \cup IF "RUNNING" \in ss THEN {n} ELSE {}
<1> DEFINE t == [node |-> n, status |-> "RUNNING", active |-> {}]
           N == Len(tr)
           new == Launched(tr, n)
<1>1. t \in Trace
  BY DEF Trace
<1> HIDE DEF t
<1>2. t.node = n /\ t.status = "RUNNING"
  BY DEF t
<1>3. /\ N \in Nat /\ DOMAIN tr = 1..N /\ DOMAIN new = 1..(N + 1)
      /\ \A i \in 1..N : new[i] = tr[i]
      /\ new[N + 1] = t
      /\ new \in Seq(Trace)
  BY <1>1 DEF t, Launched
<1> HIDE DEF new
<1>4. DOMAIN new = DOMAIN tr \cup {N + 1} /\ N + 1 \notin DOMAIN tr
  BY <1>3
<1> HIDE DEF N
<1>5. NodesIn(new) = NodesIn(tr) \cup {n}
  BY <1>2, <1>3, <1>4 DEF NodesIn
<1>6. OneTraceEach(tr) => OneTraceEach(new)
  BY <1>2, <1>3, <1>4 DEF OneTraceEach, NodesIn
<1>7. ASSUME NEW ss
      PROVE  NodesOf(new, ss) = NodesOf(tr, ss) \cup IF "RUNNING" \in ss THEN {n} ELSE {}
  BY <1>2, <1>3, <1>4 DEF NodesOf
<1>8. QED  BY <1>3, <1>5, <1>6, <1>7 DEF new

(* Record changes the status of one node and of nothing else.              *)
LEMMA TraceRecorded ==
  ASSUME NEW tr \in Seq(Trace), NEW n \in Node, NEW active \in SUBSET Handle,
         NEW status \in {"SUCCESS", "FAILED", "SKIPPED", "BATCH_SUBMITTED"},
         n \in NodesIn(tr)
  PROVE  LET new == Recorded(tr, n, status, active)
         IN  /\ new \in Seq(Trace)
             /\ NodesIn(new) = NodesIn(tr)
             /\ OneTraceEach(tr) => OneTraceEach(new)
             /\ \A ss : NodesOf(new, ss) = (NodesOf(tr, ss) \ {n})
                                             \cup IF status \in ss THEN {n} ELSE {}
<1> DEFINE t == [node |-> n, status |-> status, active |-> active]
           new == Recorded(tr, n, status, active)
<1>1. t \in Trace
  BY DEF Trace
<1> HIDE DEF t
<1>2. t.node = n /\ t.status = status
  BY DEF t
<1>3. /\ DOMAIN new = DOMAIN tr
      /\ \A i \in DOMAIN tr : new[i] = IF tr[i].node = n THEN t ELSE tr[i]
  BY DEF t, Recorded
<1>4. new \in Seq(Trace)
  <2>1. Len(tr) \in Nat /\ DOMAIN tr = 1..Len(tr) /\ \A i \in DOMAIN tr : tr[i] \in Trace
    OBVIOUS
  <2>2. new \in [1..Len(tr) -> Trace]
    BY <1>1, <1>3, <2>1 DEF t, Recorded
  <2>3. QED  BY <2>1, <2>2
<1> HIDE DEF new
<1>5. NodesIn(new) = NodesIn(tr)
  BY <1>2, <1>3, <1>4 DEF NodesIn
<1>6. OneTraceEach(tr) => OneTraceEach(new)
  BY <1>2, <1>3 DEF OneTraceEach
<1>7. ASSUME NEW ss
      PROVE  NodesOf(new, ss) = (NodesOf(tr, ss) \ {n}) \cup IF status \in ss THEN {n} ELSE {}
  BY <1>2, <1>3 DEF NodesOf, NodesIn
<1>8. QED  BY <1>4, <1>5, <1>6, <1>7 DEF new

(* A resume gives some submitted traces the result of their job.           *)
LEMMA TracesResolved ==
  ASSUME NEW tr \in Seq(Trace)
  PROVE  LET new == ResolvedTraces(tr)
         IN  /\ new \in Seq(Trace)
             /\ NodesIn(new) = NodesIn(tr)
             /\ OneTraceEach(tr) => OneTraceEach(new)
             /\ \A st \in {"RUNNING", "SKIPPED"} : NodesOf(new, {st}) = NodesOf(tr, {st})
             /\ \A st \in {"SUCCESS", "FAILED"} :
                  /\ NodesOf(tr, {st}) \subseteq NodesOf(new, {st})
                  /\ NodesOf(new, {st}) \subseteq
                       NodesOf(tr, {st}) \cup NodesOf(tr, {"BATCH_SUBMITTED"})
             /\ NodesOf(new, {"BATCH_SUBMITTED"}) \subseteq NodesOf(tr, {"BATCH_SUBMITTED"})
<1> DEFINE new == ResolvedTraces(tr)
<1>1. ASSUME NEW t \in Trace
      PROVE  /\ Resolved(t) \in Trace /\ Resolved(t).node = t.node
             /\ t.status # "BATCH_SUBMITTED" => Resolved(t) = t
             /\ t.status = "BATCH_SUBMITTED" =>
                  Resolved(t).status \in {"SUCCESS", "FAILED", "BATCH_SUBMITTED"}
  <2>1. CASE t.status # "BATCH_SUBMITTED"
    BY <2>1 DEF Resolved
  <2>2. CASE t.status = "BATCH_SUBMITTED"
    <3> DEFINE st == CASE job[t.node] = "COMPLETED" -> "SUCCESS"
                       [] job[t.node] = "COMPLETED_WITH_FAILURE" -> "FAILED"
                       [] OTHER -> t.status
    <3>1. st \in {"SUCCESS", "FAILED", "BATCH_SUBMITTED"}
      BY <2>2
    <3>2. Resolved(t) = [t EXCEPT !.status = st]
      BY <2>2 DEF Resolved
    <3> HIDE DEF st
    <3>3. QED  BY <2>2, <3>1, <3>2 DEF Trace
  <2>3. QED  BY <2>1, <2>2
<1>2. /\ DOMAIN new = DOMAIN tr /\ Len(tr) \in Nat /\ DOMAIN tr = 1..Len(tr)
      /\ \A i \in DOMAIN tr : tr[i] \in Trace /\ new[i] = Resolved(tr[i])
  BY DEF ResolvedTraces
<1>3. /\ \A i \in DOMAIN tr : /\ new[i] \in Trace /\ new[i].node = tr[i].node
                              /\ tr[i].status # "BATCH_SUBMITTED" => new[i] = tr[i]
                              /\ tr[i].status = "BATCH_SUBMITTED" =>
                                   new[i].status \in {"SUCCESS", "FAILED", "BATCH_SUBMITTED"}
  BY <1>1, <1>2
<1>4. new \in Seq(Trace)
  <2>1. new \in [1..Len(tr) -> Trace]
    BY <1>2, <1>3 DEF ResolvedTraces
  <2>2. QED  BY <1>2, <2>1
<1> HIDE DEF new
<1>5. NodesIn(new) = NodesIn(tr)
  BY <1>2, <1>3 DEF NodesIn
<1>6. OneTraceEach(tr) => OneTraceEach(new)
  BY <1>2, <1>3 DEF OneTraceEach
<1>7. \A st \in {"RUNNING", "SKIPPED"} : NodesOf(new, {st}) = NodesOf(tr, {st})
  BY <1>2, <1>3 DEF NodesOf
<1>8. \A st \in {"SUCCESS", "FAILED"} :
        /\ NodesOf(tr, {st}) \subseteq NodesOf(new, {st})
        /\ NodesOf(new, {st}) \subseteq NodesOf(tr, {st}) \cup NodesOf(tr, {"BATCH_SUBMITTED"})
  BY <1>2, <1>3 DEF NodesOf
<1>9. NodesOf(new, {"BATCH_SUBMITTED"}) \subseteq NodesOf(tr, {"BATCH_SUBMITTED"})
  BY <1>2, <1>3 DEF NodesOf
<1>10. QED  BY <1>4, <1>5, <1>6, <1>7, <1>8, <1>9 DEF new

-----------------------------------------------------------------------------
(* RunInv, of every flow.                                                  *)

LEMMA PathType ==
  ASSUME NEW t \in Node
  PROVE  ExecutionPathToNode(t) \subseteq Node /\ AncestorClosed(ExecutionPathToNode(t))
<1>1. ASSUME NEW n \in ExecutionPathToNode(t), NEW p \in Parents(n)
      PROVE  p \in ExecutionPathToNode(t)
  <2>1. p \in Node
    BY Adjacency
  <2>2. ASSUME NEW T \in SUBSET Node, t \in T, AncestorClosed(T) PROVE p \in T
    BY <1>1, <2>2 DEF ExecutionPathToNode, AncestorClosed
  <2>3. QED  BY <2>1, <2>2 DEF ExecutionPathToNode
<1>2. QED  BY <1>1 DEF ExecutionPathToNode, AncestorClosed

LEMMA TriggerSkipsType ==
  ASSUME NEW trigger
  PROVE  TriggerSkips(Trigger, trigger) \subseteq Node
  BY CascadeType, CoordinatorAssumption DEF TriggerSkips

LEMMA EmptyRun ==
  ASSUME traces = <<>>
  PROVE  Processed = {} /\ (\A ss : NodesOf(traces, ss) = {}) /\ OneTraceEach(traces)
         /\ traces \in Seq(Trace)
  BY DEF Processed, NodesOf, OneTraceEach

LEMMA CoordinatorInitInv == CoordinatorInit => RunInv
<1> SUFFICES ASSUME CoordinatorInit PROVE RunInv
  OBVIOUS
<1>1. Cardinality({}) = 0
  BY FS_EmptySet
<1>2. traces = <<>> /\ Init /\ ~aborted /\ row = "PENDING" /\ target = None
      /\ job = [n \in Node |-> "none"] /\ hasFailure = FALSE /\ toResume = {}
  BY DEF CoordinatorInit
<1>3. CoordinatorTypeOK
  BY <1>2, EmptyRun, InitInv DEF CoordinatorTypeOK, JobStatus, Inv
<1>4. RowFollowsScheduler
  BY <1>2 DEF RowFollowsScheduler, Init
<1>5. TracesAgree
  BY <1>2, EmptyRun DEF TracesAgree, ExecutedOncePerRun, OneTraceEach, Init
<1>6. NoneLost
  BY <1>1, <1>2 DEF NoneLost, Init
<1>7. QED  BY <1>3, <1>4, <1>5, <1>6 DEF RunInv

(***************************************************************************)
(* A segment starts with nothing in flight; its nodes are those the run    *)
(* wants, and what waits in it waits for a parent.                         *)
(***************************************************************************)
LEMMA SegmentStarts ==
  ASSUME NEW s, StartSegment(s),
         s.nodes \subseteq Node, s.complete \subseteq Node, s.skipped \subseteq Node
  PROVE  /\ pc' = "launching" /\ nodes' = s.nodes /\ nodeOutputs' = s.complete
         /\ skipped' = s.skipped /\ terminal' = s.complete \cup s.skipped /\ done' = terminal'
         /\ lastSkippedSize' = Cardinality(skipped')
         /\ ready' \subseteq nodes' \ done' /\ inFlight' = {}
         /\ firstFailure' = None /\ batchPending' = {} /\ paused' = FALSE
         /\ \A n \in nodes' \ (done' \cup inFlight' \cup ready') : ~(Parents(n) \subseteq terminal')
         /\ aborted' \in BOOLEAN => TypeOK'
<1>1. /\ pc' = "launching" /\ nodes' = s.nodes /\ nodeOutputs' = s.complete
      /\ skipped' = s.skipped /\ terminal' = s.complete \cup s.skipped /\ done' = terminal'
      /\ lastSkippedSize' = Cardinality(skipped')
      /\ ready' = {n \in nodes' \ done' : Parents(n) \subseteq terminal'} /\ inFlight' = {}
      /\ firstFailure' = None /\ batchPending' = {} /\ paused' = FALSE
  BY DEF StartSegment, AllParentsTerminal
<1>2. Cardinality(skipped') \in Nat
  BY <1>1, SubsetCardinality
<1>3. aborted' \in BOOLEAN => TypeOK'
  BY <1>1, <1>2 DEF TypeOK
<1>4. QED  BY <1>1, <1>3

LEMMA RequestInv ==
  ASSUME RunInv,
         \/ \E trigger \in ActiveTriggers : ExecuteFlowDefinition(trigger)
         \/ \E t \in Targets : ExecuteFlowToNode(t)
  PROVE  RunInv'
<1>1. PICK s : /\ StartSegment(s) /\ s.complete = {} /\ s.skipped \subseteq Node
               /\ s.nodes \subseteq Node /\ Wanted' \subseteq s.nodes /\ AncestorClosed(s.nodes)
               /\ pc = "idle" /\ row' = "RUNNING" /\ target' \in Targets \cup {None}
               /\ UNCHANGED <<traces, job, hasFailure, toResume, aborted>>
  <2>1. ASSUME NEW trigger \in ActiveTriggers, ExecuteFlowDefinition(trigger)
        PROVE  \E s : /\ StartSegment(s) /\ s.complete = {} /\ s.skipped \subseteq Node
               /\ s.nodes \subseteq Node /\ Wanted' \subseteq s.nodes /\ AncestorClosed(s.nodes)
               /\ pc = "idle" /\ row' = "RUNNING" /\ target' \in Targets \cup {None}
               /\ UNCHANGED <<traces, job, hasFailure, toResume, aborted>>
    <3> DEFINE skips == IF trigger = None THEN {} ELSE TriggerSkips(Trigger, trigger)
               s == [nodes |-> Node, complete |-> {}, skipped |-> skips]
    <3>1. skips \subseteq Node
      BY TriggerSkipsType
    <3>2. Run(s) /\ row' = "RUNNING" /\ UNCHANGED <<target, traces, job, hasFailure, toResume>>
      BY <2>1 DEF ExecuteFlowDefinition
    <3> HIDE DEF skips
    <3>3. s.complete = {} /\ s.skipped = skips /\ s.nodes = Node
      OBVIOUS
    <3> HIDE DEF s
    <3>4. pc = "idle" /\ StartSegment(s) /\ UNCHANGED aborted
      BY <3>2 DEF Run
    <3>5. target' = None
      BY <3>2, <3>4 DEF RunInv, RowFollowsScheduler
    <3>6. Wanted' = Node /\ AncestorClosed(Node)
      BY <3>5, Adjacency DEF Wanted, AncestorClosed
    <3>7. QED  BY <3>1, <3>2, <3>3, <3>4, <3>5, <3>6
  <2>2. ASSUME NEW t \in Targets, ExecuteFlowToNode(t)
        PROVE  \E s : /\ StartSegment(s) /\ s.complete = {} /\ s.skipped \subseteq Node
               /\ s.nodes \subseteq Node /\ Wanted' \subseteq s.nodes /\ AncestorClosed(s.nodes)
               /\ pc = "idle" /\ row' = "RUNNING" /\ target' \in Targets \cup {None}
               /\ UNCHANGED <<traces, job, hasFailure, toResume, aborted>>
    <3> DEFINE path == ExecutionPathToNode(t)
               s == [nodes |-> path, complete |-> {}, skipped |-> {}]
    <3>1. t \in Node /\ t # None
      BY CoordinatorAssumption, NoneAssumption
    <3>2. path \subseteq Node /\ AncestorClosed(path)
      BY <3>1, PathType
    <3>3. Run(s) /\ row' = "RUNNING" /\ target' = t /\ UNCHANGED <<traces, job, hasFailure, toResume>>
      BY <2>2 DEF ExecuteFlowToNode
    <3>4. Wanted' = path
      BY <3>1, <3>3 DEF Wanted
    <3> HIDE DEF path
    <3>5. s.complete = {} /\ s.skipped = {} /\ s.nodes = path
      OBVIOUS
    <3> HIDE DEF s
    <3>6. pc = "idle" /\ StartSegment(s) /\ UNCHANGED aborted
      BY <3>3 DEF Run
    <3>7. QED  BY <3>2, <3>3, <3>4, <3>5, <3>6
  <2>3. QED  BY <2>1, <2>2
<1>2. /\ pc' = "launching" /\ nodes' = s.nodes /\ nodeOutputs' = {}
      /\ skipped' = s.skipped /\ terminal' = s.skipped /\ done' = terminal'
      /\ lastSkippedSize' = Cardinality(skipped')
      /\ ready' \subseteq nodes' \ done' /\ inFlight' = {}
      /\ firstFailure' = None /\ paused' = FALSE
      /\ \A n \in nodes' \ (done' \cup inFlight' \cup ready') : ~(Parents(n) \subseteq terminal')
      /\ aborted' \in BOOLEAN => TypeOK'
  BY <1>1, SegmentStarts
<1>3. /\ traces = <<>> /\ traces' = traces /\ traces' = <<>>
      /\ \A n \in Node : job'[n] = "none"
  BY <1>1 DEF RunInv, RowFollowsScheduler
<1>4. /\ Processed' = {} /\ OneTraceEach(traces')
      /\ \A ss : NodesOf(traces', ss) = {}
  BY <1>3, EmptyRun DEF Processed, NodesOf, OneTraceEach
<1>5. CoordinatorTypeOK'
  <2>1. aborted' \in BOOLEAN
    BY <1>1 DEF RunInv, CoordinatorTypeOK, TypeOK
  <2>2. QED  BY <1>1, <1>2, <2>1 DEF RunInv, CoordinatorTypeOK
<1>6. RowFollowsScheduler'
  BY <1>1, <1>2 DEF RunInv, RowFollowsScheduler, FinishedJobs
<1>7. TracesAgree'
  BY <1>2, <1>3, <1>4 DEF TracesAgree, ExecutedOncePerRun, OneTraceEach
<1>8. NoneLost'
  BY <1>1, <1>2, <1>4 DEF NoneLost
<1>9. QED  BY <1>5, <1>6, <1>7, <1>8 DEF RunInv

LEMMA LaunchRunInv ==
  ASSUME RunInv, NEW n \in Node, LaunchNode(n)
  PROVE  RunInv'
<1> USE DEF RunInv
<1>1. /\ pc = "launching" /\ CanLaunch /\ n \in ready /\ ready' = ready \ {n}
      /\ inFlight' = inFlight \cup ({n} \cap nodes)
      /\ UNCHANGED <<pc, nodes, terminal, done, skipped, lastSkippedSize, nodeOutputs,
                     firstFailure, batchPending, paused, aborted>>
      /\ UNCHANGED <<row, target, job, hasFailure, toResume>>
      /\ traces' = IF n \in nodes
                   THEN Append(traces, [node |-> n, status |-> "RUNNING", active |-> {}])
                   ELSE traces
  BY DEF LaunchNode, Launch
<1>2. traces \in Seq(Trace)
  BY DEF CoordinatorTypeOK
<1>3. /\ traces' \in Seq(Trace)
      /\ Processed' = Processed \cup ({n} \cap nodes)
      /\ OneTraceEach(traces')
      /\ NodesOf(traces', {"RUNNING"}) = NodesOf(traces, {"RUNNING"}) \cup ({n} \cap nodes)
      /\ \A ss : "RUNNING" \notin ss => NodesOf(traces', ss) = NodesOf(traces, ss)
  <2>1. CASE n \in nodes
    <3>1. n \notin Processed
      BY <1>1, <2>1 DEF TracesAgree
    <3>2. traces' = Append(traces, [node |-> n, status |-> "RUNNING", active |-> {}])
      BY <1>1, <2>1
    <3>3. OneTraceEach(traces)
      BY DEF TracesAgree, ExecutedOncePerRun, OneTraceEach
    <3>4. n \notin NodesIn(traces) /\ traces' = Launched(traces, n)
      BY <3>1, <3>2 DEF Processed, NodesIn, Launched
    <3>5. /\ traces' \in Seq(Trace)
          /\ NodesIn(traces') = NodesIn(traces) \cup {n}
          /\ OneTraceEach(traces')
          /\ \A ss : NodesOf(traces', ss) = NodesOf(traces, ss)
                                              \cup IF "RUNNING" \in ss THEN {n} ELSE {}
      BY <1>2, <3>3, <3>4, TraceAdded
    <3>6. QED  BY <2>1, <3>5 DEF Processed, NodesIn
  <2>2. CASE n \notin nodes
    BY <1>1, <1>2, <2>2 DEF Processed, TracesAgree, ExecutedOncePerRun, OneTraceEach
  <2>3. QED  BY <2>1, <2>2
<1>4. CoordinatorTypeOK'
  BY <1>1, <1>3 DEF CoordinatorTypeOK, TypeOK
<1>5. RowFollowsScheduler'
  BY <1>1 DEF RowFollowsScheduler, FinishedJobs, Halted
<1>6. TracesAgree'
  BY <1>1, <1>3 DEF TracesAgree, ExecutedOncePerRun, OneTraceEach
<1>7. NoneLost'
  <2>1. Unsettled' = Unsettled /\ Wanted' = Wanted
    BY <1>1, <1>3 DEF Unsettled, Submitted, Failed, Wanted
  <2>2. QED  BY <1>1, <2>1 DEF NoneLost
<1>8. QED  BY <1>4, <1>5, <1>6, <1>7

(***************************************************************************)
(* A node that settles: its trace goes from RUNNING to the new status.     *)
(***************************************************************************)
LEMMA SettledTrace ==
  ASSUME RunInv, NEW n \in Node, NEW active \in SUBSET Handle, Settled(n),
         NEW status \in {"SUCCESS", "FAILED", "SKIPPED", "BATCH_SUBMITTED"},
         Record(n, status, active)
  PROVE  /\ traces' \in Seq(Trace) /\ OneTraceEach(traces') /\ Processed' = Processed
         /\ n \in Processed
         /\ NodesOf(traces', {"RUNNING"}) = NodesOf(traces, {"RUNNING"}) \ {n}
         /\ NodesOf(traces', {status}) = NodesOf(traces, {status}) \cup {n}
         /\ \A st \in {"SUCCESS", "FAILED", "SKIPPED", "BATCH_SUBMITTED"} :
              /\ n \notin NodesOf(traces, {st})
              /\ st # status => NodesOf(traces', {st}) = NodesOf(traces, {st})
<1>1. traces \in Seq(Trace) /\ OneTraceEach(traces)
  BY DEF RunInv, CoordinatorTypeOK, TracesAgree, ExecutedOncePerRun, OneTraceEach
<1>2. n \in NodesOf(traces, {"RUNNING"})
  BY DEF RunInv, TracesAgree, Settled
<1>3. n \in Processed
  BY <1>1, <1>2, NodesOfType DEF Processed, NodesIn
<1>4. /\ traces' \in Seq(Trace) /\ OneTraceEach(traces') /\ Processed' = Processed
      /\ \A ss : NodesOf(traces', ss) = (NodesOf(traces, ss) \ {n})
                                         \cup IF status \in ss THEN {n} ELSE {}
  <2>1. traces' = Recorded(traces, n, status, active) /\ n \in NodesIn(traces)
    BY <1>3 DEF Record, Recorded, Processed, NodesIn
  <2>2. /\ traces' \in Seq(Trace)
        /\ NodesIn(traces') = NodesIn(traces)
        /\ OneTraceEach(traces')
        /\ \A ss : NodesOf(traces', ss) = (NodesOf(traces, ss) \ {n})
                                           \cup IF status \in ss THEN {n} ELSE {}
    BY <1>1, <2>1, TraceRecorded
  <2>3. QED  BY <2>2 DEF Processed, NodesIn
<1>5. ASSUME NEW st \in {"SUCCESS", "FAILED", "SKIPPED", "BATCH_SUBMITTED"}
      PROVE  n \notin NodesOf(traces, {st})
  <2>1. {st} \cap {"RUNNING"} = {}
    OBVIOUS
  <2>2. QED  BY <1>1, <1>2, <2>1, OneStatusEach
<1>6. NodesOf(traces', {"RUNNING"}) = NodesOf(traces, {"RUNNING"}) \ {n}
  BY <1>4
<1>7. NodesOf(traces', {status}) = NodesOf(traces, {status}) \cup {n}
  BY <1>4, <1>5
<1>8. ASSUME NEW st \in {"SUCCESS", "FAILED", "SKIPPED", "BATCH_SUBMITTED"}, st # status
      PROVE  NodesOf(traces', {st}) = NodesOf(traces, {st})
  <2>1. status \notin {st}
    BY <1>8
  <2>2. n \notin NodesOf(traces, {st})
    BY <1>5
  <2>3. NodesOf(traces', {st}) = (NodesOf(traces, {st}) \ {n}) \cup {}
    BY <1>4, <2>1
  <2>4. QED  BY <2>2, <2>3
<1>9. QED  BY <1>3, <1>4, <1>5, <1>6, <1>7, <1>8

LEMMA StopRunInv ==
  ASSUME RunInv, NEW n \in Node, NodeFails(n) \/ NodeSubmitsBatch(n)
  PROVE  RunInv'
<1> USE DEF RunInv
<1>1. /\ Settled(n) /\ n \in inFlight /\ inFlight' = inFlight \ {n}
      /\ pc = "racing" /\ pc' = "launching" /\ done' = done \cup {n}
      /\ UNCHANGED <<nodes, aborted, ready, terminal, skipped, lastSkippedSize, nodeOutputs>>
      /\ UNCHANGED <<row, target, hasFailure, toResume>>
      /\ firstFailure' \in {firstFailure, n} /\ batchPending' \subseteq batchPending \cup {n}
      /\ paused' \in BOOLEAN
  BY DEF NodeFails, NodeSubmitsBatch, CompleteFailed, CompleteBatchSubmitted, Settled,
         CoordinatorTypeOK, TypeOK
<1>2. /\ traces' \in Seq(Trace) /\ OneTraceEach(traces') /\ Processed' = Processed
      /\ n \in Processed
      /\ NodesOf(traces', {"RUNNING"}) = inFlight'
      /\ NodesOf(traces', {"SUCCESS"}) = nodeOutputs
      /\ Unsettled' = Unsettled \cup {n}
  <2>1. {} \in SUBSET Handle
    OBVIOUS
  <2>2. CASE NodeFails(n)
    <3>1. Record(n, "FAILED", {})
      BY <2>2 DEF NodeFails
    <3>2. QED  BY <1>1, <2>1, <3>1, SettledTrace DEF TracesAgree, Unsettled, Submitted, Failed
  <2>3. CASE NodeSubmitsBatch(n)
    <3>1. Record(n, "BATCH_SUBMITTED", {})
      BY <2>3 DEF NodeSubmitsBatch
    <3>2. QED  BY <1>1, <2>1, <3>1, SettledTrace DEF TracesAgree, Unsettled, Submitted, Failed
  <2>4. QED  BY <2>2, <2>3
<1>3. /\ job' \in [Node -> JobStatus]
      /\ FinishedJobs' = FinishedJobs
      /\ \A m \in Node : job'[m] # "none" => (m = n /\ n \in MaySubmit) \/ job[m] # "none"
  <2>1. job \in [Node -> JobStatus]
    BY DEF CoordinatorTypeOK
  <2>2. CASE NodeFails(n)
    BY <2>1, <2>2 DEF NodeFails, FinishedJobs
  <2>3. CASE NodeSubmitsBatch(n)
    <3>1. job' = [job EXCEPT ![n] = "SUBMITTED"]
      BY <2>3 DEF NodeSubmitsBatch
    <3>2. job[n] = "none"
      BY <1>1 DEF TracesAgree
    <3>3. n \in MaySubmit
      BY <2>3 DEF NodeSubmitsBatch
    <3>4. QED  BY <2>1, <3>1, <3>2, <3>3 DEF FinishedJobs, JobStatus
  <2>4. QED  BY <2>2, <2>3
<1>4. CoordinatorTypeOK'
  BY <1>1, <1>2, <1>3 DEF CoordinatorTypeOK, TypeOK
<1>5. RowFollowsScheduler'
  BY <1>1, <1>3 DEF RowFollowsScheduler
<1>6. TracesAgree'
  BY <1>1, <1>2, <1>3 DEF TracesAgree, ExecutedOncePerRun, OneTraceEach
<1>7. NoneLost'
  BY <1>1, <1>2 DEF NoneLost
<1>8. QED  BY <1>4, <1>5, <1>6, <1>7

(***************************************************************************)
(* The common tail of SUCCESS and SKIPPED, on any flow: as long as nothing *)
(* is unsettled, a node whose last parent has become terminal is promoted. *)
(***************************************************************************)
LEMMA FinishRunInv ==
  ASSUME RunInv, NEW n \in Node, NEW skips \in SUBSET Node, Finish(n, skips),
         skipped \subseteq skips,
         NEW active \in SUBSET Handle,
         \/ nodeOutputs' = nodeOutputs /\ n \in skips /\ Record(n, "SKIPPED", active)
         \/ nodeOutputs' = nodeOutputs \cup {n} /\ Record(n, "SUCCESS", active),
         UNCHANGED <<row, target, job, hasFailure, toResume>>
  PROVE  RunInv'
<1> USE DEF RunInv
<1> DEFINE newly == NewlySkipped(n, skips)
<1>1. /\ Settled(n) /\ n \in inFlight /\ inFlight' = inFlight \ {n}
      /\ pc = "racing" /\ pc' = "launching" /\ nodes' = nodes /\ aborted' = aborted
      /\ skipped' = skips /\ lastSkippedSize' = Cardinality(skips)
      /\ done' = done \cup {n} \cup newly
      /\ terminal' = terminal \cup {n} \cup newly
      /\ ready' = ready \cup Promoted(n, newly, skips)
      /\ UNCHANGED <<firstFailure, batchPending, paused>>
  BY DEF Finish, Settled
<1>2. newly \subseteq skips /\ skips \subseteq done'
  <2>1. CASE Cardinality(skips) = lastSkippedSize
    <3>1. skips = skipped
      BY <2>1, SameSizeSameSet DEF NoneLost, CoordinatorTypeOK, TypeOK
    <3>2. QED  BY <1>1, <2>1, <3>1 DEF NewlySkipped, NoneLost
  <2>2. CASE Cardinality(skips) # lastSkippedSize
    BY <1>1, <2>2 DEF NewlySkipped
  <2>3. QED  BY <2>1, <2>2
<1> HIDE DEF newly
<1>3. /\ traces' \in Seq(Trace) /\ OneTraceEach(traces') /\ Processed' = Processed
      /\ n \in Processed
      /\ NodesOf(traces', {"RUNNING"}) = inFlight'
      /\ NodesOf(traces', {"SUCCESS"}) = nodeOutputs'
      /\ Unsettled' = Unsettled
  <2>1. CASE nodeOutputs' = nodeOutputs /\ n \in skips /\ Record(n, "SKIPPED", active)
    BY <1>1, <2>1, SettledTrace DEF TracesAgree, Unsettled, Submitted, Failed
  <2>2. CASE nodeOutputs' = nodeOutputs \cup {n} /\ Record(n, "SUCCESS", active)
    BY <1>1, <2>2, SettledTrace DEF TracesAgree, Unsettled, Submitted, Failed
  <2>3. QED  BY <2>1, <2>2
<1>4. \A m \in ready' \ ready : m \in Node /\ m \notin done \cup {n} \cup inFlight'
  BY <1>1, Adjacency DEF Promoted
<1>5. CoordinatorTypeOK'
  <2>1. Cardinality(skips) \in Nat
    BY SubsetCardinality
  <2>2. newly \subseteq Node /\ nodeOutputs' \subseteq Node
    BY <1>2 DEF CoordinatorTypeOK, TypeOK
  <2>3. QED  BY <1>1, <1>3, <1>4, <2>1, <2>2 DEF CoordinatorTypeOK, TypeOK
<1>6. RowFollowsScheduler'
  BY <1>1 DEF RowFollowsScheduler, FinishedJobs
<1>7. TracesAgree'
  BY <1>1, <1>3, <1>4 DEF TracesAgree, ExecutedOncePerRun, OneTraceEach
<1>8. NoneLost'
  <2>1. terminal' \subseteq nodeOutputs' \cup skipped'
    BY <1>1, <1>2 DEF NoneLost
  <2>2. skipped' \cup terminal' \subseteq done' /\ done' \subseteq terminal' \cup Unsettled'
    BY <1>1, <1>2, <1>3 DEF NoneLost
  <2>3. ASSUME Unsettled' = {}
        PROVE  /\ Wanted' \subseteq nodes' /\ AncestorClosed(nodes')
               /\ \A m \in nodes' \ (done' \cup inFlight' \cup ready') : ~(Parents(m) \subseteq terminal')
    <3>1. /\ Wanted' \subseteq nodes' /\ AncestorClosed(nodes)
          /\ \A m \in nodes \ (done \cup inFlight \cup ready) : ~(Parents(m) \subseteq terminal)
      BY <1>1, <1>3, <2>3 DEF NoneLost, Wanted
    <3>2. ASSUME NEW m \in nodes \ (done' \cup inFlight' \cup ready'), Parents(m) \subseteq terminal'
          PROVE  FALSE
      <4>1. m \notin done \cup inFlight \cup ready /\ m \notin skips
        BY <1>1, <1>2, <3>2
      <4>2. PICK p \in Parents(m) : p \in {n} \cup newly
        BY <1>1, <3>1, <3>2, <4>1
      <4>3. p \in nodes /\ m \in Children(p)
        BY <3>1, <3>2, <4>2, Adjacency DEF AncestorClosed
      <4>4. m \in Promoted(n, newly, skips)
        BY <1>1, <3>2, <4>1, <4>2, <4>3 DEF Promoted, AllParentsTerminal
      <4>5. QED  BY <1>1, <3>2, <4>4
    <3>3. QED  BY <1>1, <3>1, <3>2
  <2>4. QED  BY <1>1, <2>1, <2>2, <2>3 DEF NoneLost
<1>9. QED  BY <1>5, <1>6, <1>7, <1>8

LEMMA SuccessRunInv ==
  ASSUME RunInv, NEW n \in Node, NEW active \in SUBSET ConnectedHandles(n),
         NodeSucceeds(n, active)
  PROVE  RunInv'
<1> DEFINE skips == HandleBranchSkipping(n, active, skipped)
<1>1. skipped \in SUBSET Node
  BY DEF RunInv, CoordinatorTypeOK, TypeOK
<1>2. skips \in SUBSET Node /\ skipped \subseteq skips
  BY <1>1, BranchSkippingType
<1>3. active \in SUBSET Handle
  BY GraphAssumption DEF ConnectedHandles, Outgoing
<1>4. /\ Finish(n, skips) /\ nodeOutputs' = nodeOutputs \cup {n} /\ Record(n, "SUCCESS", active)
      /\ UNCHANGED <<row, target, job, hasFailure, toResume>>
  BY DEF NodeSucceeds, CompleteSuccess
<1> HIDE DEF skips
<1>5. QED  BY <1>2, <1>3, <1>4, FinishRunInv

LEMMA SkippedRunInv ==
  ASSUME RunInv, NEW n \in Node, NodeSkippedByHook(n)
  PROVE  RunInv'
<1>1. skipped \cup {n} \in SUBSET Node
  BY DEF RunInv, CoordinatorTypeOK, TypeOK
<1>2. /\ Finish(n, skipped \cup {n}) /\ nodeOutputs' = nodeOutputs /\ Record(n, "SKIPPED", {})
      /\ UNCHANGED <<row, target, job, hasFailure, toResume>>
  BY DEF NodeSkippedByHook, CompleteSkipped
<1>3. {} \in SUBSET Handle
  OBVIOUS
<1>4. QED  BY <1>1, <1>2, <1>3, FinishRunInv

LEMMA LoopRunInv ==
  ASSUME RunInv, WaitForNodes \/ ConcludeSegment
  PROVE  RunInv'
<1> USE DEF RunInv
<1>1. /\ pc = "launching" /\ ~CanLaunch
      /\ UNCHANGED <<nodes, ready, inFlight, terminal, done, skipped, lastSkippedSize,
                     nodeOutputs, firstFailure, batchPending, paused, aborted>>
      /\ UNCHANGED <<target, traces, job, hasFailure, toResume>>
      /\ \/ pc' = "racing" /\ row' = row
         \/ pc' = "returned" /\ row' = SegmentOutcome /\ inFlight = {}
  BY DEF WaitForNodes, ConcludeSegment, RaceCompletion, Return, runVars
<1>2. SegmentOutcome \in {"PAUSED_FOR_BATCH", "SUCCESS", "FAILED"}
  BY DEF SegmentOutcome
<1>3. CoordinatorTypeOK'
  BY <1>1, <1>2 DEF CoordinatorTypeOK, TypeOK
<1>4. RowFollowsScheduler'
  BY <1>1, <1>2, StopsForAReason DEF RowFollowsScheduler, SegmentOutcome, Halted, FinishedJobs
<1>5. TracesAgree'
  BY <1>1 DEF TracesAgree, ExecutedOncePerRun, Processed
<1>6. NoneLost'
  BY <1>1 DEF NoneLost, Unsettled, Submitted, Failed, Wanted
<1>7. QED  BY <1>3, <1>4, <1>5, <1>6

LEMMA JobsRunInv ==
  ASSUME RunInv,
         \/ \E n \in Node : JobFinishes(n) \/ ResumeWithError(n)
         \/ FindFlowsReadyForResumption
  PROVE  RunInv'
<1> USE DEF RunInv
<1>1. /\ UNCHANGED vars /\ UNCHANGED <<target, traces, hasFailure>>
      /\ \/ row' = row
         \/ row' = "FAILED" /\ pc = "returned"
  BY DEF JobFinishes, ResumeWithError, FindFlowsReadyForResumption
<1>2. /\ job' \in [Node -> JobStatus]
      /\ \A n \in Node : job'[n] # "none" <=> job[n] # "none"
      /\ toResume' \subseteq FinishedJobs'
  <2>1. job \in [Node -> JobStatus] /\ toResume \subseteq FinishedJobs
    BY DEF CoordinatorTypeOK, RowFollowsScheduler
  <2>2. ASSUME NEW n \in Node, JobFinishes(n)
        PROVE  /\ job' \in [Node -> JobStatus]
               /\ \A m \in Node : job'[m] # "none" <=> job[m] # "none"
               /\ toResume' \subseteq FinishedJobs'
    <3>1. PICK result \in {"COMPLETED", "COMPLETED_WITH_FAILURE", "FAILED"} :
             job' = [job EXCEPT ![n] = result]
      BY <2>2 DEF JobFinishes
    <3>2. job[n] = "SUBMITTED" /\ toResume' = toResume
      BY <2>2 DEF JobFinishes
    <3>3. QED  BY <2>1, <3>1, <3>2 DEF FinishedJobs, JobStatus
  <2>3. QED  BY <2>1, <2>2 DEF ResumeWithError, FindFlowsReadyForResumption, FinishedJobs
<1>3. CoordinatorTypeOK'
  BY <1>1, <1>2 DEF CoordinatorTypeOK, TypeOK, vars, FinishedJobs
<1>4. RowFollowsScheduler'
  BY <1>1, <1>2 DEF RowFollowsScheduler, vars, Halted
<1>5. TracesAgree'
  BY <1>1, <1>2 DEF TracesAgree, ExecutedOncePerRun, Processed, vars
<1>6. NoneLost'
  BY <1>1 DEF NoneLost, Unsettled, Submitted, Failed, Wanted, vars
<1>7. QED  BY <1>3, <1>4, <1>5, <1>6

(***************************************************************************)
(* A resume rebuilds everything from the traces.  When no trace is left    *)
(* unsettled, each is SUCCESS or SKIPPED, and all nodes are in the segment. *)
(***************************************************************************)
LEMMA ResumeStarts ==
  ASSUME RunInv, NEW n \in Node, ResumeFromBatchCompletion(n)
  PROVE  LET new   == ResolvedTraces(traces)
             skips == ReplaySkips(traces)
         IN  /\ traces' = new
             /\ StartSegment(ResumedSegment(new, skips))
             /\ ResumedSegment(new, skips).nodes =
                  (Node \ Processed) \cup NodesOf(new, {"SUCCESS"}) \cup skips
             /\ ResumedSegment(new, skips).complete = NodesOf(new, {"SUCCESS"})
             /\ ResumedSegment(new, skips).skipped = skips
             /\ skips \subseteq Node /\ NodesOf(new, {"SUCCESS"}) \subseteq Node
             /\ NodesOf(traces, {"SKIPPED"}) \subseteq skips
             /\ pc = "returned" /\ inFlight = {} /\ n \in toResume
             /\ row' = "RUNNING" /\ toResume' = toResume \ {n} /\ hasFailure' \in BOOLEAN
             /\ UNCHANGED <<aborted, target, job>>
<1> DEFINE new   == ResolvedTraces(traces)
           skips == ReplaySkips(traces)
<1>1. /\ traces' = new /\ StartSegment(ResumedSegment(new, skips))
      /\ pc = "returned" /\ n \in toResume
      /\ row' = "RUNNING" /\ toResume' = toResume \ {n} /\ hasFailure' \in BOOLEAN
      /\ UNCHANGED <<aborted, target, job>>
  BY DEF ResumeFromBatchCompletion, ResolvedTraces
<1>2. traces \in Seq(Trace) /\ inFlight = {}
  BY <1>1 DEF RunInv, CoordinatorTypeOK, RowFollowsScheduler
<1>3. /\ new \in Seq(Trace) /\ NodesIn(new) = Processed
      /\ NodesOf(new, {"SUCCESS"}) \subseteq Node
  <2>1. new \in Seq(Trace) /\ NodesIn(new) = NodesIn(traces)
    BY <1>2, TracesResolved
  <2>2. NodesOf(new, {"SUCCESS"}) \subseteq NodesIn(new) /\ NodesIn(new) \subseteq Node
    BY <2>1, NodesOfType
  <2>3. QED  BY <2>1, <2>2 DEF NodesIn, Processed
<1>4. skips \subseteq Node /\ NodesOf(traces, {"SKIPPED"}) \subseteq skips
  BY <1>2, ReplayType
<1> HIDE DEF new, skips
<1>5. /\ ResumedSegment(new, skips).nodes =
           (Node \ Processed) \cup NodesOf(new, {"SUCCESS"}) \cup skips
      /\ ResumedSegment(new, skips).complete = NodesOf(new, {"SUCCESS"})
      /\ ResumedSegment(new, skips).skipped = skips
  BY <1>3 DEF ResumedSegment, NodesIn
<1>6. QED  BY <1>1, <1>2, <1>3, <1>4, <1>5 DEF new, skips

LEMMA StatusOfTrace ==
  ASSUME NEW tr \in Seq(Trace)
  PROVE  NodesIn(tr) = NodesOf(tr, {"RUNNING"}) \cup NodesOf(tr, {"SUCCESS"}) \cup NodesOf(tr, {"FAILED"})
                         \cup NodesOf(tr, {"SKIPPED"}) \cup NodesOf(tr, {"BATCH_SUBMITTED"})
<1>1. \A i \in DOMAIN tr :
        tr[i].status \in {"RUNNING", "SUCCESS", "FAILED", "SKIPPED", "BATCH_SUBMITTED"}
  <2>1. \A i \in DOMAIN tr : tr[i] \in Trace
    OBVIOUS
  <2>2. QED  BY <2>1 DEF Trace
<1>2. QED  BY <1>1 DEF NodesIn, NodesOf

LEMMA ResumeRunInv ==
  ASSUME RunInv, NEW n \in Node, ResumeFromBatchCompletion(n)
  PROVE  RunInv'
<1> DEFINE new   == ResolvedTraces(traces)
           skips == ReplaySkips(traces)
           s     == ResumedSegment(new, skips)
<1>1. /\ traces' = new /\ StartSegment(s)
      /\ s.nodes = (Node \ Processed) \cup NodesOf(new, {"SUCCESS"}) \cup skips
      /\ s.complete = NodesOf(new, {"SUCCESS"}) /\ s.skipped = skips
      /\ skips \subseteq Node /\ NodesOf(new, {"SUCCESS"}) \subseteq Node
      /\ NodesOf(traces, {"SKIPPED"}) \subseteq skips
      /\ pc = "returned" /\ inFlight = {} /\ n \in toResume
      /\ row' = "RUNNING" /\ toResume' = toResume \ {n} /\ hasFailure' \in BOOLEAN
      /\ UNCHANGED <<aborted, target, job>>
  BY ResumeStarts
<1>2. traces \in Seq(Trace) /\ OneTraceEach(traces) /\ aborted \in BOOLEAN
  BY DEF RunInv, CoordinatorTypeOK, TypeOK, TracesAgree, ExecutedOncePerRun, OneTraceEach
<1>3. /\ new \in Seq(Trace) /\ NodesIn(new) = NodesIn(traces) /\ OneTraceEach(new)
      /\ NodesOf(new, {"RUNNING"}) = NodesOf(traces, {"RUNNING"})
      /\ NodesOf(new, {"SKIPPED"}) = NodesOf(traces, {"SKIPPED"})
  BY <1>2, TracesResolved
<1> HIDE DEF new, skips, s
<1>4. Processed' = Processed /\ NodesOf(traces', {"RUNNING"}) = {}
  BY <1>1, <1>3 DEF Processed, NodesIn, RunInv, TracesAgree
<1>5. /\ pc' = "launching" /\ nodes' = s.nodes /\ nodeOutputs' = s.complete
      /\ skipped' = s.skipped /\ terminal' = s.complete \cup s.skipped /\ done' = terminal'
      /\ lastSkippedSize' = Cardinality(skipped')
      /\ ready' \subseteq nodes' \ done' /\ inFlight' = {}
      /\ firstFailure' = None /\ batchPending' = {} /\ paused' = FALSE
      /\ \A m \in nodes' \ (done' \cup inFlight' \cup ready') : ~(Parents(m) \subseteq terminal')
      /\ aborted' \in BOOLEAN => TypeOK'
  <2>1. s.nodes \subseteq Node /\ s.complete \subseteq Node /\ s.skipped \subseteq Node
    BY <1>1
  <2>2. QED  BY <1>1, <2>1, SegmentStarts
<1>6. CoordinatorTypeOK'
  BY <1>1, <1>2, <1>3, <1>5 DEF RunInv, CoordinatorTypeOK
<1>7. RowFollowsScheduler'
  BY <1>1, <1>5 DEF RunInv, RowFollowsScheduler, FinishedJobs
<1>8. TracesAgree'
  BY <1>1, <1>3, <1>4, <1>5 DEF RunInv, TracesAgree, ExecutedOncePerRun, OneTraceEach
<1>9. NoneLost'
  <2>1. ASSUME Unsettled' = {}
        PROVE  nodes' = Node
    <3>1. NodesOf(new, {"FAILED"}) = {} /\ NodesOf(new, {"BATCH_SUBMITTED"}) = {}
      BY <1>1, <2>1 DEF Unsettled, Submitted, Failed
    <3>2. Processed = NodesOf(new, {"SUCCESS"}) \cup NodesOf(new, {"SKIPPED"})
      BY <1>1, <1>3, <1>4, <3>1, StatusOfTrace DEF Processed, NodesIn
    <3>3. QED  BY <1>1, <1>3, <1>5, <3>2
  <2>2. Wanted' \subseteq Node /\ AncestorClosed(Node)
    <3>1. target' \in Node \cup {None}
      BY <1>6, CoordinatorAssumption DEF CoordinatorTypeOK
    <3>2. QED  BY <3>1, PathType, Adjacency DEF Wanted, AncestorClosed
  <2>3. QED  BY <1>1, <1>5, <2>1, <2>2 DEF NoneLost
<1>10. QED  BY <1>6, <1>7, <1>8, <1>9 DEF RunInv

-----------------------------------------------------------------------------

LEMMA StutterRunInv ==
  ASSUME RunInv, UNCHANGED coordinatorVars
  PROVE  RunInv'
<1>1. UNCHANGED vars /\ UNCHANGED runVars
  BY DEF coordinatorVars
<1>2. CoordinatorTypeOK'
  BY <1>1 DEF RunInv, CoordinatorTypeOK, TypeOK, vars, runVars
<1>3. RowFollowsScheduler'
  BY <1>1 DEF RunInv, RowFollowsScheduler, FinishedJobs, Halted, vars, runVars
<1>4. TracesAgree'
  BY <1>1 DEF RunInv, TracesAgree, ExecutedOncePerRun, Processed, vars, runVars
<1>5. NoneLost'
  BY <1>1 DEF RunInv, NoneLost, Unsettled, Submitted, Failed, Wanted, vars, runVars
<1>6. QED  BY <1>2, <1>3, <1>4, <1>5 DEF RunInv

LEMMA CoordinatorNextInv == RunInv /\ [CoordinatorNext]_coordinatorVars => RunInv'
<1> SUFFICES ASSUME RunInv, [CoordinatorNext]_coordinatorVars PROVE RunInv'
  OBVIOUS
<1>1. CASE \/ \E trigger \in ActiveTriggers : ExecuteFlowDefinition(trigger)
           \/ \E t \in Targets : ExecuteFlowToNode(t)
  BY <1>1, RequestInv
<1>2. ASSUME NEW n \in Node, LaunchNode(n) PROVE RunInv'
  BY <1>2, LaunchRunInv
<1>3. ASSUME NEW n \in Node, NodeSettles(n) PROVE RunInv'
  BY <1>3, SuccessRunInv, SkippedRunInv, StopRunInv DEF NodeSettles
<1>4. ASSUME NEW n \in Node, JobFinishes(n) \/ ResumeWithError(n) PROVE RunInv'
  BY <1>4, JobsRunInv
<1>5. ASSUME NEW n \in Node, ResumeFromBatchCompletion(n) PROVE RunInv'
  BY <1>5, ResumeRunInv
<1>6. CASE WaitForNodes \/ ConcludeSegment
  BY <1>6, LoopRunInv
<1>7. CASE FindFlowsReadyForResumption
  BY <1>7, JobsRunInv
<1>8. CASE UNCHANGED coordinatorVars
  BY <1>8, StutterRunInv
<1>9. QED
  BY <1>1, <1>2, <1>3, <1>4, <1>5, <1>6, <1>7, <1>8 DEF CoordinatorNext

(***************************************************************************)
(* On every flow, through every pause: the row, the traces, the jobs and   *)
(* the sets of the scheduler agree.                                        *)
(***************************************************************************)
THEOREM CoordinatorInvariance == CoordinatorSpec => []RunInv
  BY CoordinatorInitInv, CoordinatorNextInv, PTL DEF CoordinatorSpec

(* Every variable of the coordinator keeps its type.                       *)
THEOREM CoordinatorTypeCorrect == CoordinatorSpec => []CoordinatorTypeOK
<1>1. RunInv => CoordinatorTypeOK
  BY DEF RunInv
<1>2. QED  BY <1>1, CoordinatorInvariance, PTL

(* No node is executed twice in a run, however often it pauses.            *)
THEOREM ExecutedOncePerRunCorrect == CoordinatorSpec => []ExecutedOncePerRun
<1>1. RunInv => ExecutedOncePerRun
  BY DEF RunInv, TracesAgree
<1>2. QED  BY <1>1, CoordinatorInvariance, PTL

(***************************************************************************)
(* Outputs are only added to within a segment, and a resume reads all of   *)
(* them back from the traces.                                              *)
(***************************************************************************)
LEMMA OutputsGrow ==
  ASSUME RunInv, [CoordinatorNext]_coordinatorVars
  PROVE  nodeOutputs \subseteq nodeOutputs'
<1>1. CASE \/ \E trigger \in ActiveTriggers : ExecuteFlowDefinition(trigger)
           \/ \E t \in Targets : ExecuteFlowToNode(t)
  <2>1. traces = <<>>
    BY <1>1 DEF ExecuteFlowDefinition, ExecuteFlowToNode, Run, RunInv, RowFollowsScheduler
  <2>2. QED  BY <2>1, EmptyRun DEF RunInv, TracesAgree
<1>2. ASSUME NEW n \in Node, LaunchNode(n) \/ NodeSettles(n) PROVE nodeOutputs \subseteq nodeOutputs'
  BY <1>2 DEF LaunchNode, Launch, NodeSettles, NodeSucceeds, NodeSkippedByHook, NodeFails,
              NodeSubmitsBatch, CompleteSuccess, CompleteSkipped, CompleteFailed,
              CompleteBatchSubmitted
<1>3. ASSUME NEW n \in Node, JobFinishes(n) \/ ResumeWithError(n) PROVE nodeOutputs \subseteq nodeOutputs'
  BY <1>3 DEF JobFinishes, ResumeWithError, vars
<1>4. ASSUME NEW n \in Node, ResumeFromBatchCompletion(n) PROVE nodeOutputs \subseteq nodeOutputs'
  <2>1. nodeOutputs' = NodesOf(ResolvedTraces(traces), {"SUCCESS"})
    BY <1>4, ResumeStarts DEF StartSegment
  <2>2. traces \in Seq(Trace)
    BY DEF RunInv, CoordinatorTypeOK
  <2>3. NodesOf(traces, {"SUCCESS"}) \subseteq NodesOf(ResolvedTraces(traces), {"SUCCESS"})
    BY <2>2, TracesResolved
  <2>4. QED  BY <2>1, <2>3 DEF RunInv, TracesAgree
<1>5. CASE WaitForNodes \/ ConcludeSegment \/ FindFlowsReadyForResumption
  BY <1>5 DEF WaitForNodes, ConcludeSegment, FindFlowsReadyForResumption, RaceCompletion,
              Return, vars
<1>6. CASE UNCHANGED coordinatorVars
  BY <1>6 DEF coordinatorVars, vars
<1>7. QED
  BY <1>1, <1>2, <1>3, <1>4, <1>5, <1>6 DEF CoordinatorNext

(* No output is lost over a pause.                                         *)
THEOREM OutputsSurviveCorrect == CoordinatorSpec => OutputsSurvive
<1>1. RunInv /\ [CoordinatorNext]_coordinatorVars
        => [nodeOutputs \subseteq nodeOutputs']_coordinatorVars
  BY OutputsGrow
<1>2. QED  BY <1>1, CoordinatorInvariance, PTL DEF CoordinatorSpec, OutputsSurvive

(* Without an unsettled trace the scheduler has all the nodes of the run.  *)
LEMMA SettledMeansDone ==
  ASSUME RunInv, Unsettled = {}
  PROVE  SuccessMeansDone
<1> SUFFICES ASSUME row = "SUCCESS" PROVE Wanted \subseteq nodeOutputs \cup skipped
  BY DEF SuccessMeansDone
<1>1. pc = "returned"
  BY DEF RunInv, RowFollowsScheduler, CoordinatorTypeOK, TypeOK
<1>2. inFlight = {} /\ ready = {} /\ ~Halted
  BY <1>1 DEF RunInv, RowFollowsScheduler
<1>3. /\ terminal \subseteq nodeOutputs \cup skipped /\ done = terminal
      /\ Wanted \subseteq nodes /\ AncestorClosed(nodes)
      /\ \A n \in nodes \ terminal : ~(Parents(n) \subseteq terminal)
  BY <1>1, <1>2 DEF RunInv, NoneLost
<1> DEFINE left == nodes \ terminal
<1>4. \A n \in left : Parents(n) \cap left # {}
  BY <1>3 DEF AncestorClosed
<1>5. left \in SUBSET Node
  BY DEF RunInv, CoordinatorTypeOK, TypeOK
<1>6. left = {}
  BY <1>4, <1>5, CoordinatorAssumption DEF Acyclic
<1>7. QED  BY <1>3, <1>6

(***************************************************************************)
(* On every flow, a SUCCESS that is not all the run was asked for has one  *)
(* cause: a failed node or a submitted batch that a resume passed over.    *)
(***************************************************************************)
THEOREM SuccessMeansDoneUnlessUnsettled ==
  CoordinatorSpec => [](Unsettled = {} => SuccessMeansDone)
<1>1. RunInv => (Unsettled = {} => SuccessMeansDone)
  BY SettledMeansDone
<1>2. QED  BY <1>1, CoordinatorInvariance, PTL

-----------------------------------------------------------------------------
(* Flows whose skips a resume can rebuild.                                 *)

(* The closure is a closed set of nodes, the least around S.               *)
LEMMA ClosureClosed ==
  ASSUME NEW S \in SUBSET Node
  PROVE  /\ SkipClosure(S) \in SUBSET Node /\ S \subseteq SkipClosure(S)
         /\ \A c \in Node : ShouldNodeBeSkipped(c, SkipClosure(S)) => c \in SkipClosure(S)
<1> DEFINE C == SkipClosure(S)
<1>1. C \in SUBSET Node /\ S \subseteq C
  BY DEF SkipClosure
<1>2. ASSUME NEW c \in Node, ShouldNodeBeSkipped(c, C)
      PROVE  c \in C
  <2>1. ASSUME NEW T \in SUBSET Node, S \subseteq T,
               \A m \in Node : ShouldNodeBeSkipped(m, T) => m \in T
        PROVE  c \in T
    <3>1. C \subseteq T
      BY <2>1 DEF SkipClosure
    <3>2. ShouldNodeBeSkipped(c, T)
      BY <1>2, <3>1 DEF ShouldNodeBeSkipped
    <3>3. QED  BY <2>1, <3>2
  <2>2. QED  BY <2>1 DEF SkipClosure
<1>3. QED  BY <1>1, <1>2

LEMMA ClosureLeast ==
  ASSUME NEW S \in SUBSET Node, NEW T \in SUBSET Node, S \subseteq T,
         \A c \in Node : ShouldNodeBeSkipped(c, T) => c \in T
  PROVE  SkipClosure(S) \subseteq T
  BY DEF SkipClosure

(* A root is never skipped, so nothing is until a branch rules it out.     *)
LEMMA ClosureEmpty == SkipClosure({}) = {}
<1>1. \A c \in Node : ~ShouldNodeBeSkipped(c, {})
  BY DEF ShouldNodeBeSkipped, Parents
<1>2. QED  BY <1>1, ClosureLeast

(***************************************************************************)
(* Cascading from new starts is enough: the cascade, which only looks      *)
(* below the nodes it adds, closes a set that was closed before them.      *)
(***************************************************************************)
LEMMA CascadeIsClosure ==
  ASSUME NEW U \in SUBSET Node, NEW t \in SUBSET Node
  PROVE  MarkDownstreamNodesAsSkipped(t, SkipClosure(U) \cup t) = SkipClosure(U \cup t)
<1> DEFINE S == SkipClosure(U) \cup t
           M == MarkDownstreamNodesAsSkipped(t, S)
           C == SkipClosure(U \cup t)
<1>1. /\ SkipClosure(U) \in SUBSET Node /\ U \subseteq SkipClosure(U)
      /\ \A c \in Node : ShouldNodeBeSkipped(c, SkipClosure(U)) => c \in SkipClosure(U)
  BY ClosureClosed
<1>2. /\ C \in SUBSET Node /\ U \cup t \subseteq C
      /\ \A c \in Node : ShouldNodeBeSkipped(c, C) => c \in C
  <2>1. U \cup t \in SUBSET Node
    OBVIOUS
  <2>2. QED  BY <2>1, ClosureClosed
<1>3. M \subseteq C
  <2>1. SkipClosure(U) \subseteq C
    BY <1>2, ClosureLeast
  <2>2. SkipClosed(C, t, S)
    BY <1>2, <2>1, Adjacency DEF SkipClosed
  <2>3. S \in SUBSET Node
    BY <1>1
  <2>4. QED  BY <1>2, <2>2, <2>3, CascadeLeast
<1>4. C \subseteq M
  <2>1. M \in SUBSET Node /\ S \subseteq M /\ SkipClosed(M, t, S)
    BY <1>1, CascadeType, CascadeClosed
  <2>2. ASSUME NEW c \in Node, ShouldNodeBeSkipped(c, M)
        PROVE  c \in M
    <3>1. CASE Parents(c) \subseteq SkipClosure(U)
      BY <1>1, <2>1, <2>2, <3>1 DEF ShouldNodeBeSkipped
    <3>2. CASE ~(Parents(c) \subseteq SkipClosure(U))
      <4>1. PICK p \in Parents(c) : p \notin SkipClosure(U)
        BY <3>2
      <4>2. p \in t \cup (M \ S) /\ c \in Children(p)
        BY <2>2, <4>1, Adjacency DEF ShouldNodeBeSkipped
      <4>3. QED  BY <2>1, <2>2, <4>2 DEF SkipClosed
    <3>3. QED  BY <3>1, <3>2
  <2>3. U \cup t \in SUBSET Node /\ U \cup t \subseteq M
    BY <1>1, <2>1
  <2>4. QED  BY <2>1, <2>2, <2>3, ClosureLeast
<1>5. QED  BY <1>3, <1>4

(* What a branching node rules out, when nothing else leads there.         *)
RuledOutBy(n, active) == TargetsOf(n, ConnectedHandles(n) \ active) \ TargetsOf(n, active)

LEMMA BranchIsClosure ==
  ASSUME OneParentBranches, NEW n, NEW active, NEW U \in SUBSET Node
  PROVE  /\ RuledOutBy(n, active) \in SUBSET Node
         /\ HandleBranchSkipping(n, active, SkipClosure(U)) = SkipClosure(U \cup RuledOutBy(n, active))
<1>1. RuledOutBy(n, active) \in SUBSET Node
  BY TargetsAreChildren, Adjacency DEF RuledOutBy
<1>2. \A t \in RuledOutBy(n, active) : Parents(t) \ {n} = {}
  BY GraphAssumption DEF RuledOutBy, TargetsOf, ConnectedHandles, Outgoing, OneParentBranches
<1>3. InactiveTargets(n, active, SkipClosure(U)) = RuledOutBy(n, active)
  BY <1>2 DEF InactiveTargets, RuledOutBy
<1>4. QED  BY <1>1, <1>3, CascadeIsClosure DEF HandleBranchSkipping

(* All that the traces rule out.                                           *)
AllRuledOut(tr) == UNION {RuledOut(tr[i]) : i \in DOMAIN tr}

LEMMA RuledOutType ==
  ASSUME NEW t
  PROVE  RuledOut(t) \in SUBSET Node
<1>1. TargetsOf(t.node, ConnectedHandles(t.node) \ t.active) \in SUBSET Node
  BY TargetsAreChildren, Adjacency
<1>2. QED  BY <1>1 DEF RuledOut

LEMMA AllRuledOutType ==
  ASSUME NEW tr
  PROVE  AllRuledOut(tr) \in SUBSET Node
  BY RuledOutType DEF AllRuledOut

LEMMA ReplayTraceIsClosure ==
  ASSUME OneParentBranches, NEW t \in Trace, t.status # "SKIPPED", NEW U \in SUBSET Node
  PROVE  ReplayTrace(t, SkipClosure(U)) = SkipClosure(U \cup RuledOut(t))
<1>1. CASE t.status = "SUCCESS"
  <2>1. RuledOut(t) = RuledOutBy(t.node, t.active)
    BY <1>1 DEF RuledOut, RuledOutBy
  <2>2. ReplayTrace(t, SkipClosure(U)) = HandleBranchSkipping(t.node, t.active, SkipClosure(U))
    BY <1>1 DEF ReplayTrace
  <2>3. QED  BY <2>1, <2>2, BranchIsClosure
<1>2. CASE t.status # "SUCCESS"
  <2>1. RuledOut(t) = {} /\ ReplayTrace(t, SkipClosure(U)) = SkipClosure(U)
    BY <1>2 DEF RuledOut, ReplayTrace
  <2>2. U \cup {} = U
    OBVIOUS
  <2>3. QED  BY <2>1, <2>2
<1>3. QED  BY <1>1, <1>2

(***************************************************************************)
(* The replay, from the latest trace to the first, comes to the same set   *)
(* as the run did in the order in which its nodes finished.                *)
(***************************************************************************)
LEMMA ReplayIsClosure ==
  ASSUME OneParentBranches, NEW tr \in Seq(Trace), NodesOf(tr, {"SKIPPED"}) = {}
  PROVE  ReplaySkips(tr) = SkipClosure(AllRuledOut(tr))
<1>1. PICK from : /\ from[0] = {}
                  /\ \A k \in 1..Len(tr) :
                       from[k] = ReplayTrace(tr[Len(tr) + 1 - k], from[k - 1])
                  /\ ReplaySkips(tr) = from[Len(tr)]
  BY ReplayUnfold
<1>2. Len(tr) \in Nat /\ DOMAIN tr = 1..Len(tr)
  OBVIOUS
<1> DEFINE last(k) == UNION {RuledOut(tr[Len(tr) + 1 - j]) : j \in 1..k}
<1>3. ASSUME NEW k \in 1..Len(tr)
      PROVE  tr[Len(tr) + 1 - k] \in Trace /\ tr[Len(tr) + 1 - k].status # "SKIPPED"
  <2>1. \A i \in DOMAIN tr : tr[i] \in Trace
    OBVIOUS
  <2>2. \A i \in DOMAIN tr : tr[i].status # "SKIPPED"
    BY DEF NodesOf
  <2>3. Len(tr) + 1 - k \in DOMAIN tr
    BY <1>2
  <2>4. QED  BY <2>1, <2>2, <2>3
<1>4. \A k : last(k) \in SUBSET Node
  BY RuledOutType
<1>5. \A k \in 1..Len(tr) : last(k) = last(k - 1) \cup RuledOut(tr[Len(tr) + 1 - k])
  <2>1. ASSUME NEW k \in 1..Len(tr) PROVE 1..k = 1..(k - 1) \cup {k}
    BY <1>2
  <2>2. QED  BY <2>1
<1> HIDE DEF last
<1>6. \A k \in 0..Len(tr) : from[k] = SkipClosure(last(k))
  <2> DEFINE T == {k \in 0..Len(tr) : from[k] # SkipClosure(last(k))}
  <2>1. SUFFICES ASSUME T # {} PROVE FALSE
    OBVIOUS
  <2>2. PICK m \in T : \A j \in T : m <= j
    BY <1>2, <2>1, LeastNumber
  <2>3. m # 0
    <3>1. last(0) = {}
      <4>1. 1..0 = {}
        OBVIOUS
      <4>2. QED  BY <4>1 DEF last
    <3>2. QED  BY <1>1, <3>1, ClosureEmpty
  <2>4. m \in 1..Len(tr) /\ m - 1 \in 0..Len(tr) /\ m - 1 \notin T
    BY <1>2, <2>2, <2>3
  <2>5. from[m - 1] = SkipClosure(last(m - 1))
    BY <2>4
  <2>6. from[m] = ReplayTrace(tr[Len(tr) + 1 - m], SkipClosure(last(m - 1)))
    BY <1>1, <2>4, <2>5
  <2>7. from[m] = SkipClosure(last(m - 1) \cup RuledOut(tr[Len(tr) + 1 - m]))
    BY <1>3, <1>4, <2>4, <2>6, ReplayTraceIsClosure
  <2>8. from[m] = SkipClosure(last(m))
    BY <1>5, <2>4, <2>7
  <2>9. QED  BY <2>8
<1>7. last(Len(tr)) = AllRuledOut(tr)
  <2>1. ASSUME NEW i \in DOMAIN tr
        PROVE  \E j \in 1..Len(tr) : Len(tr) + 1 - j = i
    <3>1. Len(tr) + 1 - i \in 1..Len(tr) /\ Len(tr) + 1 - (Len(tr) + 1 - i) = i
      BY <1>2
    <3>2. QED  BY <3>1
  <2>2. \A j \in 1..Len(tr) : Len(tr) + 1 - j \in DOMAIN tr
    BY <1>2
  <2>3. QED  BY <2>1, <2>2 DEF last, AllRuledOut
<1>8. QED  BY <1>1, <1>2, <1>6, <1>7

-----------------------------------------------------------------------------

LEMMA RuledOutLaunched ==
  ASSUME NEW tr \in Seq(Trace), NEW n \in Node
  PROVE  AllRuledOut(Launched(tr, n)) = AllRuledOut(tr)
<1> DEFINE t == [node |-> n, status |-> "RUNNING", active |-> {}]
           N == Len(tr)
           new == Launched(tr, n)
<1>1. t \in Trace
  BY DEF Trace
<1>2. RuledOut(t) = {}
  BY DEF RuledOut
<1> HIDE DEF t
<1>3. /\ N \in Nat /\ DOMAIN tr = 1..N /\ DOMAIN new = 1..(N + 1)
      /\ \A i \in 1..N : new[i] = tr[i]
      /\ new[N + 1] = t
  BY <1>1 DEF t, Launched
<1>4. DOMAIN new = DOMAIN tr \cup {N + 1}
  BY <1>3
<1> HIDE DEF new, N
<1>5. AllRuledOut(new) = AllRuledOut(tr)
  BY <1>2, <1>3, <1>4 DEF AllRuledOut
<1>6. QED  BY <1>5 DEF new

LEMMA RuledOutRecorded ==
  ASSUME NEW tr \in Seq(Trace), OneTraceEach(tr), NEW n \in NodesOf(tr, {"RUNNING"}),
         NEW status, NEW active
  PROVE  AllRuledOut(Recorded(tr, n, status, active)) =
           AllRuledOut(tr) \cup RuledOut([node |-> n, status |-> status, active |-> active])
<1> DEFINE t == [node |-> n, status |-> status, active |-> active]
           new == Recorded(tr, n, status, active)
<1>1. /\ DOMAIN new = DOMAIN tr
      /\ \A i \in DOMAIN tr : new[i] = IF tr[i].node = n THEN t ELSE tr[i]
  BY DEF Recorded
<1> HIDE DEF t, new
<1>2. PICK k \in DOMAIN tr : tr[k].node = n /\ tr[k].status = "RUNNING"
  BY DEF NodesOf
<1>3. RuledOut(tr[k]) = {} /\ new[k] = t
  BY <1>1, <1>2 DEF RuledOut
<1>4. \A i \in DOMAIN tr : i # k => new[i] = tr[i]
  BY <1>1, <1>2 DEF OneTraceEach
<1>5. AllRuledOut(new) = AllRuledOut(tr) \cup RuledOut(t)
  BY <1>1, <1>3, <1>4 DEF AllRuledOut
<1>6. QED  BY <1>5 DEF t, new

(* A batch node does not branch, so its result rules nothing out.          *)
LEMMA RuledOutResolved ==
  ASSUME NEW tr \in Seq(Trace), \A n \in Node : job[n] # "none" => n \in MaySubmit
  PROVE  AllRuledOut(ResolvedTraces(tr)) = AllRuledOut(tr)
<1>1. ASSUME NEW t \in Trace
      PROVE  RuledOut(Resolved(t)) = RuledOut(t)
  <2>1. CASE t.status # "BATCH_SUBMITTED"
    BY <2>1 DEF Resolved
  <2>2. CASE t.status = "BATCH_SUBMITTED"
    <3> DEFINE st == CASE job[t.node] = "COMPLETED" -> "SUCCESS"
                       [] job[t.node] = "COMPLETED_WITH_FAILURE" -> "FAILED"
                       [] OTHER -> t.status
    <3>1. Resolved(t) = [t EXCEPT !.status = st]
      BY <2>2 DEF Resolved
    <3>2. st = "SUCCESS" => job[t.node] = "COMPLETED"
      BY <2>2
    <3> HIDE DEF st
    <3>3. t.node \in Node /\ Resolved(t).status = st /\ Resolved(t).node = t.node
      BY <3>1 DEF Trace
    <3>4. CASE st = "SUCCESS"
      <4>1. ConnectedHandles(t.node) = {}
        BY <3>2, <3>3, <3>4, BatchNodesDoNotBranch
      <4>2. RuledOut(Resolved(t)) = {}
        BY <3>3, <4>1 DEF RuledOut, TargetsOf
      <4>3. QED  BY <2>2, <4>2 DEF RuledOut
    <3>5. CASE st # "SUCCESS"
      BY <2>2, <3>3, <3>5 DEF RuledOut
    <3>6. QED  BY <3>4, <3>5
  <2>3. QED  BY <2>1, <2>2
<1>2. \A i \in DOMAIN tr : tr[i] \in Trace
  OBVIOUS
<1>3. /\ DOMAIN ResolvedTraces(tr) = DOMAIN tr
      /\ \A i \in DOMAIN tr : RuledOut(ResolvedTraces(tr)[i]) = RuledOut(tr[i])
  BY <1>1, <1>2 DEF ResolvedTraces
<1>4. QED  BY <1>3 DEF AllRuledOut

-----------------------------------------------------------------------------

LEMMA RebuiltFromEmpty ==
  ASSUME RunInv, pc = "idle" \/ traces = <<>>
  PROVE  /\ traces = <<>> /\ Processed = {} /\ AllRuledOut(traces) = {}
         /\ SkipClosure(AllRuledOut(traces)) = {}
         /\ \A ss : NodesOf(traces, ss) = {}
<1>1. traces = <<>>
  BY DEF RunInv, RowFollowsScheduler
<1>2. AllRuledOut(traces) = {}
  BY <1>1 DEF AllRuledOut
<1>3. QED  BY <1>1, <1>2, EmptyRun, ClosureEmpty

(* SkipsFollowTraces with AllRuledOut.                                     *)
LEMMA SkipsFollow ==
  SkipsFollowTraces <=> /\ skipped = SkipClosure(AllRuledOut(traces))
                        /\ NodesOf(traces, {"SKIPPED"}) = {}
                        /\ Processed \cap skipped = {}
                        /\ \A n \in Processed : Parents(n) \subseteq terminal
  BY DEF SkipsFollowTraces, AllRuledOut

LEMMA RebuiltInit == CoordinatorInit => RebuiltInv
<1> SUFFICES ASSUME CoordinatorInit PROVE RebuiltInv
  OBVIOUS
<1>1. RunInv /\ Inv
  BY CoordinatorInitInv, InitInv DEF CoordinatorInit
<1>2. traces = <<>> /\ skipped = {}
  BY DEF CoordinatorInit, Init
<1>3. SkipsFollowTraces
  BY <1>1, <1>2, RebuiltFromEmpty, SkipsFollow
<1>4. QED  BY <1>1, <1>3 DEF RebuiltInv

(* A fresh run starts with nothing skipped, on an ancestor-closed scope.   *)
LEMMA RebuiltRequest ==
  ASSUME SkipsRebuildable, RebuiltInv,
         \/ \E trigger \in ActiveTriggers : ExecuteFlowDefinition(trigger)
         \/ \E t \in Targets : ExecuteFlowToNode(t)
  PROVE  Inv' /\ SkipsFollowTraces' /\ skipped = {} /\ skipped' = {}
<1>1. PICK s : /\ StartSegment(s) /\ s.complete = {} /\ s.skipped = {}
               /\ s.nodes \subseteq Node /\ AncestorClosed(s.nodes)
               /\ pc = "idle" /\ UNCHANGED <<traces, aborted>>
  <2>1. ASSUME NEW trigger \in ActiveTriggers, ExecuteFlowDefinition(trigger)
        PROVE  \E s : /\ StartSegment(s) /\ s.complete = {} /\ s.skipped = {}
                      /\ s.nodes \subseteq Node /\ AncestorClosed(s.nodes)
                      /\ pc = "idle" /\ UNCHANGED <<traces, aborted>>
    <3> DEFINE s == [nodes |-> Node, complete |-> {}, skipped |-> {}]
    <3>1. trigger = None
      BY DEF SkipsRebuildable
    <3>2. Run(s) /\ UNCHANGED traces
      BY <2>1, <3>1 DEF ExecuteFlowDefinition
    <3>3. s.complete = {} /\ s.skipped = {} /\ s.nodes = Node /\ AncestorClosed(Node)
      BY Adjacency DEF AncestorClosed
    <3> HIDE DEF s
    <3>4. QED  BY <3>2, <3>3 DEF Run
  <2>2. ASSUME NEW t \in Targets, ExecuteFlowToNode(t)
        PROVE  \E s : /\ StartSegment(s) /\ s.complete = {} /\ s.skipped = {}
                      /\ s.nodes \subseteq Node /\ AncestorClosed(s.nodes)
                      /\ pc = "idle" /\ UNCHANGED <<traces, aborted>>
    <3> DEFINE s == [nodes |-> ExecutionPathToNode(t), complete |-> {}, skipped |-> {}]
    <3>1. Run(s) /\ UNCHANGED traces
      BY <2>2 DEF ExecuteFlowToNode
    <3>2. /\ s.complete = {} /\ s.skipped = {} /\ s.nodes \subseteq Node
          /\ AncestorClosed(s.nodes)
      BY PathType, CoordinatorAssumption
    <3> HIDE DEF s
    <3>3. QED  BY <3>1, <3>2 DEF Run
  <2>3. QED  BY <2>1, <2>2
<1>2. Admissible(s)
  BY <1>1 DEF Admissible, AncestorClosed
<1>3. aborted' \in BOOLEAN
  BY <1>1 DEF RebuiltInv, Inv, TypeOK
<1>4. Inv'
  BY <1>1, <1>2, <1>3, StartInv
<1>5. /\ traces = <<>> /\ Processed = {} /\ SkipClosure(AllRuledOut(traces)) = {}
      /\ \A ss : NodesOf(traces, ss) = {}
  BY <1>1, RebuiltFromEmpty DEF RebuiltInv
<1>6. skipped = {} /\ skipped' = {}
  BY <1>1, <1>5, SkipsFollow DEF RebuiltInv, StartSegment
<1>7. /\ skipped' = SkipClosure(AllRuledOut(traces'))
      /\ NodesOf(traces', {"SKIPPED"}) = {} /\ Processed' = {}
  BY <1>1, <1>5, <1>6 DEF Processed
<1>8. SkipsFollowTraces'
  BY <1>7 DEF SkipsFollowTraces, AllRuledOut
<1>9. QED  BY <1>4, <1>6, <1>8

LEMMA RebuiltLaunch ==
  ASSUME RebuiltInv, NEW n \in Node, LaunchNode(n)
  PROVE  Inv' /\ SkipsFollowTraces' /\ skipped' = skipped
<1>1. Inv'
  BY LaunchInv DEF RebuiltInv, LaunchNode
<1>2. n \in ready /\ UNCHANGED <<skipped, terminal>>
  BY DEF LaunchNode, Launch
<1>3. traces \in Seq(Trace)
  BY DEF RebuiltInv, RunInv, CoordinatorTypeOK
<1>4. /\ skipped = SkipClosure(AllRuledOut(traces)) /\ NodesOf(traces, {"SKIPPED"}) = {}
      /\ Processed \cap skipped = {} /\ \A m \in Processed : Parents(m) \subseteq terminal
  BY SkipsFollow DEF RebuiltInv
<1>5. CASE n \in nodes
  <2>1. traces' = Launched(traces, n)
    BY <1>5 DEF LaunchNode, Launched
  <2>2. n \notin NodesIn(traces)
    BY <1>2, <1>5 DEF RebuiltInv, RunInv, TracesAgree, Processed, NodesIn
  <2>3. /\ NodesIn(traces') = NodesIn(traces) \cup {n}
        /\ \A ss : NodesOf(traces', ss) =
                     NodesOf(traces, ss) \cup IF "RUNNING" \in ss THEN {n} ELSE {}
    BY <1>3, <2>1, <2>2, TraceAdded
  <2>4. AllRuledOut(traces') = AllRuledOut(traces)
    BY <1>3, <2>1, RuledOutLaunched
  <2>5. n \notin skipped /\ Parents(n) \subseteq terminal
    BY <1>2, <1>5 DEF RebuiltInv, Inv, RunXorSkipped, ParentsFirst
  <2>6. NodesOf(traces', {"SKIPPED"}) = {}
    <3>1. "RUNNING" \notin {"SKIPPED"}
      OBVIOUS
    <3>2. QED  BY <1>4, <2>3, <3>1
  <2>7. Processed' = Processed \cup {n}
    BY <2>3 DEF Processed, NodesIn
  <2>8. QED
    BY <1>1, <1>2, <1>4, <2>4, <2>5, <2>6, <2>7 DEF SkipsFollowTraces, AllRuledOut
<1>6. CASE n \notin nodes
  <2>1. traces' = traces
    BY <1>6 DEF LaunchNode
  <2>2. QED  BY <1>1, <1>2, <1>4, <2>1 DEF SkipsFollowTraces, AllRuledOut, Processed
<1>7. QED  BY <1>5, <1>6

(* The traces of a node that settles otherwise than with SUCCESS.          *)
LEMMA RebuiltStop ==
  ASSUME RebuiltInv, NEW n \in Node, NodeFails(n) \/ NodeSubmitsBatch(n)
  PROVE  Inv' /\ SkipsFollowTraces' /\ skipped' = skipped
<1>1. Inv'
  BY StopInv DEF RebuiltInv, NodeFails, NodeSubmitsBatch
<1>2. Settled(n) /\ UNCHANGED <<skipped, terminal>>
  BY DEF NodeFails, NodeSubmitsBatch, CompleteFailed, CompleteBatchSubmitted
<1>3. /\ traces \in Seq(Trace) /\ OneTraceEach(traces) /\ n \in NodesOf(traces, {"RUNNING"})
  BY <1>2 DEF RebuiltInv, RunInv, CoordinatorTypeOK, TracesAgree, ExecutedOncePerRun,
              OneTraceEach, Settled
<1>4. /\ skipped = SkipClosure(AllRuledOut(traces)) /\ NodesOf(traces, {"SKIPPED"}) = {}
      /\ Processed \cap skipped = {} /\ \A m \in Processed : Parents(m) \subseteq terminal
  BY SkipsFollow DEF RebuiltInv
<1>5. PICK status \in {"FAILED", "BATCH_SUBMITTED"} : Record(n, status, {})
  BY DEF NodeFails, NodeSubmitsBatch
<1>6. /\ Processed' = Processed /\ NodesOf(traces', {"SKIPPED"}) = {}
  <2>1. {} \in SUBSET Handle
    OBVIOUS
  <2>2. QED  BY <1>2, <1>4, <1>5, <2>1, SettledTrace DEF RebuiltInv
<1>7. AllRuledOut(traces') = AllRuledOut(traces)
  <2>1. traces' = Recorded(traces, n, status, {})
    BY <1>5 DEF Record, Recorded
  <2>2. RuledOut([node |-> n, status |-> status, active |-> {}]) = {}
    BY <1>5 DEF RuledOut
  <2>3. AllRuledOut(traces') = AllRuledOut(traces)
                     \cup RuledOut([node |-> n, status |-> status, active |-> {}])
    BY <1>3, <2>1, RuledOutRecorded
  <2>4. QED  BY <2>2, <2>3
<1>8. QED  BY <1>1, <1>2, <1>4, <1>6, <1>7 DEF SkipsFollowTraces, AllRuledOut

(***************************************************************************)
(* A branch is decided: what it rules out is added to the closure, and     *)
(* nothing that has a trace is in it.                                      *)
(***************************************************************************)
LEMMA RebuiltSuccess ==
  ASSUME SkipsRebuildable, RebuiltInv, NEW n \in Node, NEW active \in SUBSET ConnectedHandles(n),
         NodeSucceeds(n, active)
  PROVE  Inv' /\ SkipsFollowTraces' /\ skipped \subseteq skipped'
<1> DEFINE skips == HandleBranchSkipping(n, active, skipped)
           Seen  == Processed \cup terminal
<1>1. Inv'
  BY CompleteSuccessInv DEF RebuiltInv, NodeSucceeds
<1>2. /\ Settled(n) /\ skipped' = skips /\ terminal \subseteq terminal'
      /\ Record(n, "SUCCESS", active)
  BY DEF NodeSucceeds, CompleteSuccess, Finish
<1>3. /\ traces \in Seq(Trace) /\ OneTraceEach(traces) /\ n \in NodesOf(traces, {"RUNNING"})
      /\ active \in SUBSET Handle
  BY <1>2, GraphAssumption DEF RebuiltInv, RunInv, CoordinatorTypeOK, TracesAgree, ExecutedOncePerRun,
              OneTraceEach, Settled, ConnectedHandles, Outgoing
<1>4. /\ skipped = SkipClosure(AllRuledOut(traces)) /\ NodesOf(traces, {"SKIPPED"}) = {}
      /\ Processed \cap skipped = {} /\ \A m \in Processed : Parents(m) \subseteq terminal
  BY SkipsFollow DEF RebuiltInv
<1>5. /\ Processed' = Processed /\ NodesOf(traces', {"SKIPPED"}) = {}
  BY <1>2, <1>3, <1>4, SettledTrace DEF RebuiltInv
<1>6. /\ skips \subseteq Node /\ skipped \subseteq skips /\ skips \cap Seen \subseteq skipped
  <2>1. n \notin terminal /\ terminal \subseteq done
    BY <1>2 DEF Settled, RebuiltInv, Inv, ExecutedAtMostOnce, BookkeepingAgrees
  <2>2. \A m \in terminal : Parents(m) \subseteq terminal
    BY <2>1 DEF RebuiltInv, Inv, ParentsFirst
  <2>3. \A m \in Seen : Parents(m) \subseteq Seen \ {n}
    BY <1>4, <2>1, <2>2
  <2>4. skipped \in SUBSET Node /\ Seen \in SUBSET Node
    BY <1>3, NodesOfType DEF RebuiltInv, Inv, TypeOK, Processed, NodesIn
  <2> HIDE DEF Seen
  <2>5. QED  BY <2>3, <2>4, BranchSkipping
<1>7. skips = SkipClosure(AllRuledOut(traces) \cup RuledOutBy(n, active))
  BY <1>4, AllRuledOutType, BranchIsClosure DEF SkipsRebuildable
<1> HIDE DEF skips
<1>8. AllRuledOut(traces') = AllRuledOut(traces) \cup RuledOutBy(n, active)
  <2>1. traces' = Recorded(traces, n, "SUCCESS", active)
    BY <1>2 DEF Record, Recorded
  <2>2. RuledOut([node |-> n, status |-> "SUCCESS", active |-> active]) = RuledOutBy(n, active)
    BY DEF RuledOut, RuledOutBy
  <2>3. QED  BY <1>3, <2>1, <2>2, RuledOutRecorded
<1>9. QED
  BY <1>1, <1>2, <1>4, <1>5, <1>6, <1>7, <1>8 DEF SkipsFollowTraces, AllRuledOut

(* The resumed segment is admissible, and skips what was skipped.          *)
LEMMA RebuiltResume ==
  ASSUME SkipsRebuildable, RebuiltInv, NEW n \in Node, ResumeFromBatchCompletion(n)
  PROVE  Inv' /\ SkipsFollowTraces' /\ skipped' = skipped
<1> DEFINE new   == ResolvedTraces(traces)
           skips == ReplaySkips(traces)
           s     == ResumedSegment(new, skips)
<1>1. /\ traces' = new /\ StartSegment(s)
      /\ s.nodes = (Node \ Processed) \cup NodesOf(new, {"SUCCESS"}) \cup skips
      /\ s.complete = NodesOf(new, {"SUCCESS"}) /\ s.skipped = skips
      /\ skips \subseteq Node /\ NodesOf(new, {"SUCCESS"}) \subseteq Node
      /\ UNCHANGED aborted
  BY ResumeStarts DEF RebuiltInv
<1>2. traces \in Seq(Trace) /\ OneTraceEach(traces) /\ aborted \in BOOLEAN
      /\ nodeOutputs = NodesOf(traces, {"SUCCESS"})
      /\ \A m \in Node : job[m] # "none" => m \in MaySubmit
  BY DEF RebuiltInv, RunInv, CoordinatorTypeOK, TypeOK, TracesAgree, ExecutedOncePerRun, OneTraceEach
<1>3. /\ skipped = SkipClosure(AllRuledOut(traces)) /\ NodesOf(traces, {"SKIPPED"}) = {}
      /\ Processed \cap skipped = {} /\ \A m \in Processed : Parents(m) \subseteq terminal
  BY SkipsFollow DEF RebuiltInv
<1>4. skips = skipped
  BY <1>2, <1>3, ReplayIsClosure DEF SkipsRebuildable
<1>5. /\ new \in Seq(Trace) /\ NodesIn(new) = NodesIn(traces)
      /\ NodesOf(new, {"SKIPPED"}) = {} /\ NodesOf(traces, {"SUCCESS"}) \subseteq NodesOf(new, {"SUCCESS"})
      /\ AllRuledOut(new) = AllRuledOut(traces)
  BY <1>2, <1>3, TracesResolved, RuledOutResolved
<1>6. NodesOf(new, {"SUCCESS"}) \subseteq Processed
  BY <1>5, NodesOfType DEF Processed, NodesIn
<1> HIDE DEF new, skips, s
<1>7. terminal = nodeOutputs \cup skipped /\ \A m \in terminal : Parents(m) \subseteq terminal
  BY DEF RebuiltInv, Inv, BookkeepingAgrees, ParentsFirst
<1>8. terminal \subseteq s.complete \cup s.skipped
  BY <1>1, <1>2, <1>4, <1>5, <1>7
<1>9. Admissible(s)
  <2>1. s.complete \cap s.skipped = {}
    BY <1>1, <1>3, <1>4, <1>6
  <2>2. AncestorClosed(s.complete \cup s.skipped)
    <3>1. \A m \in s.complete \cup s.skipped : Parents(m) \subseteq terminal
      BY <1>1, <1>3, <1>4, <1>6, <1>7
    <3>2. QED  BY <1>8, <3>1 DEF AncestorClosed
  <2>3. \A m \in s.nodes : \A p \in Parents(m) \ s.nodes : Parents(p) \subseteq s.complete \cup s.skipped
    <3>1. ASSUME NEW m, NEW p \in Parents(m) \ s.nodes
          PROVE  p \in Processed
      BY <1>1, Adjacency
    <3>2. QED  BY <1>3, <1>8, <3>1
  <2>4. s.nodes \subseteq Node /\ s.complete \subseteq Node /\ s.skipped \subseteq Node
    BY <1>1
  <2>5. QED  BY <2>1, <2>2, <2>3, <2>4 DEF Admissible
<1>10. Inv'
  BY <1>1, <1>2, <1>9, StartInv
<1>11. skipped' = skipped /\ terminal' = s.complete \cup s.skipped
  BY <1>1, <1>4 DEF StartSegment
<1>12. Processed' = Processed
  BY <1>1, <1>5 DEF Processed, NodesIn
<1>13. SkipsFollowTraces'
  BY <1>1, <1>3, <1>5, <1>8, <1>11, <1>12 DEF SkipsFollowTraces, AllRuledOut
<1>14. QED  BY <1>10, <1>11, <1>13

LEMMA RebuiltNext ==
  ASSUME SkipsRebuildable, RebuiltInv, [CoordinatorNext]_coordinatorVars
  PROVE  RebuiltInv' /\ skipped \subseteq skipped'
<1>1. RunInv'
  BY CoordinatorNextInv DEF RebuiltInv
<1>2. ASSUME UNCHANGED <<skipped, terminal, traces>>
      PROVE  SkipsFollowTraces'
  BY <1>2 DEF RebuiltInv, SkipsFollowTraces, Processed
<1>3. Inv' /\ SkipsFollowTraces' /\ skipped \subseteq skipped'
  <2>1. CASE \/ \E trigger \in ActiveTriggers : ExecuteFlowDefinition(trigger)
             \/ \E t \in Targets : ExecuteFlowToNode(t)
    BY <2>1, RebuiltRequest
  <2>2. ASSUME NEW n \in Node, LaunchNode(n)
        PROVE  Inv' /\ SkipsFollowTraces' /\ skipped \subseteq skipped'
    BY <2>2, RebuiltLaunch
  <2>3. ASSUME NEW n \in Node, NodeSettles(n)
        PROVE  Inv' /\ SkipsFollowTraces' /\ skipped \subseteq skipped'
    <3>1. ~NodeSkippedByHook(n)
      BY DEF NodeSkippedByHook, SkipsRebuildable
    <3>2. QED  BY <2>3, <3>1, RebuiltSuccess, RebuiltStop DEF NodeSettles
  <2>4. ASSUME NEW n \in Node, JobFinishes(n) \/ ResumeWithError(n)
        PROVE  Inv' /\ SkipsFollowTraces' /\ skipped \subseteq skipped'
    <3>1. UNCHANGED vars /\ UNCHANGED traces
      BY <2>4 DEF JobFinishes, ResumeWithError
    <3>2. Inv'
      BY <3>1, NextInv DEF RebuiltInv
    <3>3. QED  BY <1>2, <3>1, <3>2 DEF vars
  <2>5. ASSUME NEW n \in Node, ResumeFromBatchCompletion(n)
        PROVE  Inv' /\ SkipsFollowTraces' /\ skipped \subseteq skipped'
    BY <2>5, RebuiltResume
  <2>6. CASE WaitForNodes \/ ConcludeSegment
    <3>1. RaceCompletion \/ Return
      BY <2>6 DEF WaitForNodes, ConcludeSegment
    <3>2. Inv'
      BY <3>1, LoopInv DEF RebuiltInv
    <3>3. UNCHANGED <<skipped, terminal, traces>>
      BY <2>6 DEF WaitForNodes, ConcludeSegment, RaceCompletion, Return, runVars
    <3>4. QED  BY <1>2, <3>2, <3>3
  <2>7. CASE FindFlowsReadyForResumption \/ UNCHANGED coordinatorVars
    <3>1. UNCHANGED vars /\ UNCHANGED traces
      BY <2>7 DEF FindFlowsReadyForResumption, coordinatorVars, runVars
    <3>2. Inv'
      BY <3>1, NextInv DEF RebuiltInv
    <3>3. QED  BY <1>2, <3>1, <3>2 DEF vars
  <2>8. QED
    BY <2>1, <2>2, <2>3, <2>4, <2>5, <2>6, <2>7 DEF CoordinatorNext
<1>4. QED  BY <1>1, <1>3 DEF RebuiltInv

(***************************************************************************)
(* Where the targets of branches have one parent, the invariant of the     *)
(* scheduler holds through every pause: a resumed segment is an admissible *)
(* one, although all it is made of is read back from the traces.           *)
(***************************************************************************)
THEOREM SegmentsFitTogether ==
  ASSUME SkipsRebuildable
  PROVE  CoordinatorSpec => []Inv
<1>1. RebuiltInv /\ [CoordinatorNext]_coordinatorVars => RebuiltInv'
  BY RebuiltNext
<1>2. RebuiltInv => Inv
  BY DEF RebuiltInv
<1>3. QED  BY <1>1, <1>2, RebuiltInit, PTL DEF CoordinatorSpec

(* There, what was skipped stays skipped, and never runs.                  *)
THEOREM SkippedNeverRunsCorrect ==
  ASSUME SkipsRebuildable
  PROVE  CoordinatorSpec => SkippedNeverRuns
<1>1. SUFFICES ASSUME NEW n \in Node
      PROVE  CoordinatorSpec => [](n \in skipped => [](n \notin inFlight))
  BY DEF SkippedNeverRuns
<1>2. RebuiltInv /\ [CoordinatorNext]_coordinatorVars
        => RebuiltInv' /\ (n \in skipped => (n \in skipped)')
  BY RebuiltNext
<1>3. RebuiltInv => (n \in skipped => n \notin inFlight)
  BY DEF RebuiltInv, Inv, RunXorSkipped
<1>4. QED  BY <1>2, <1>3, RebuiltInit, PTL DEF CoordinatorSpec

-----------------------------------------------------------------------------
(* Runs that pause once.                                                   *)

(* The one listed node is taken off the list by its resume.                *)
LEMMA OneListed ==
  ASSUME OneBatchNode, RunInv, NEW n \in toResume
  PROVE  /\ toResume = {n} /\ n \in MaySubmit /\ n \in Node
         /\ job[n] \notin {"none", "SUBMITTED"}
         /\ \A m \in Node : job[m] # "none" => m = n
<1>1. \A m \in Node : job[m] # "none" => m \in MaySubmit
  BY DEF RunInv, TracesAgree
<1>2. toResume \subseteq FinishedJobs
  BY DEF RunInv, RowFollowsScheduler
<1>3. \A m \in FinishedJobs : m \in Node /\ m \in MaySubmit /\ job[m] \notin {"none", "SUBMITTED"}
  BY <1>1 DEF FinishedJobs
<1>4. QED  BY <1>1, <1>2, <1>3 DEF OneBatchNode

LEMMA OneBatchInit == CoordinatorInit => OneBatchInv
  BY CoordinatorInitInv DEF OneBatchInv, CoordinatorInit, ListedWhilePaused

(* The list is worked off by the one resume of the paused run.             *)
LEMMA OneBatchNext ==
  ASSUME OneBatchNode, OneBatchInv, [CoordinatorNext]_coordinatorVars
  PROVE  OneBatchInv'
<1>1. RunInv'
  BY CoordinatorNextInv DEF OneBatchInv
<1>2. ListedWhilePaused'
  <2>1. CASE \/ \E trigger \in ActiveTriggers : ExecuteFlowDefinition(trigger)
             \/ \E t \in Targets : ExecuteFlowToNode(t)
    BY <2>1 DEF ExecuteFlowDefinition, ExecuteFlowToNode, OneBatchInv, ListedWhilePaused
  <2>2. ASSUME NEW n \in Node, LaunchNode(n) \/ NodeSettles(n) \/ JobFinishes(n)
        PROVE  ListedWhilePaused'
    BY <2>2 DEF LaunchNode, NodeSettles, NodeSucceeds, NodeSkippedByHook, NodeFails,
                NodeSubmitsBatch, JobFinishes, OneBatchInv, ListedWhilePaused
  <2>3. ASSUME NEW n \in Node, ResumeWithError(n) \/ ResumeFromBatchCompletion(n)
        PROVE  ListedWhilePaused'
    <3>1. n \in toResume /\ toResume' = toResume \ {n}
      BY <2>3 DEF ResumeWithError, ResumeFromBatchCompletion
    <3>2. row = "PAUSED_FOR_BATCH" /\ toResume' = {}
      BY <3>1, OneListed DEF OneBatchInv, ListedWhilePaused
    <3>3. QED  BY <3>2 DEF ListedWhilePaused
  <2>4. CASE WaitForNodes \/ FindFlowsReadyForResumption
    BY <2>4 DEF WaitForNodes, FindFlowsReadyForResumption, runVars, OneBatchInv, ListedWhilePaused
  <2>5. CASE ConcludeSegment
    <3>1. row = "RUNNING" /\ toResume' = toResume
      BY <2>5 DEF ConcludeSegment, Return, OneBatchInv, RunInv, RowFollowsScheduler
    <3>2. QED  BY <3>1 DEF OneBatchInv, ListedWhilePaused
  <2>6. CASE UNCHANGED coordinatorVars
    BY <2>6 DEF coordinatorVars, runVars, OneBatchInv, ListedWhilePaused
  <2>7. QED
    BY <2>1, <2>2, <2>3, <2>4, <2>5, <2>6 DEF CoordinatorNext
<1>3. QED  BY <1>1, <1>2 DEF OneBatchInv

-----------------------------------------------------------------------------

(* The path to a node lies within every ancestor-closed set it is in.      *)
LEMMA PathLeast ==
  ASSUME NEW t \in Node, NEW T \in SUBSET Node, t \in T, AncestorClosed(T)
  PROVE  ExecutionPathToNode(t) \subseteq T
  BY DEF ExecutionPathToNode

(* Triggers have no parent, so what is skipped with them is closed.        *)
LEMMA TriggerSkipsClosed ==
  ASSUME TriggersAreRoots, NEW trigger
  PROVE  AncestorClosed(TriggerSkips(Trigger, trigger))
<1> DEFINE others == Trigger \ {trigger}
           M == TriggerSkips(Trigger, trigger)
<1>1. others \in SUBSET Node /\ M = MarkDownstreamNodesAsSkipped(others, others)
  BY CoordinatorAssumption DEF TriggerSkips
<1>2. ASSUME NEW m \in M PROVE Parents(m) \subseteq M
  <2>1. CASE m \in others
    BY <2>1 DEF TriggersAreRoots, Parents
  <2>2. CASE m \notin others
    BY <1>1, <2>2, CascadeParents
  <2>3. QED  BY <2>1, <2>2
<1>3. QED  BY <1>2 DEF AncestorClosed

(***************************************************************************)
(* Before the resume, no node has failed while a batch is pending: of two  *)
(* nodes on one path, the later one only runs when the earlier is terminal. *)
(***************************************************************************)
LEMMA NoFailurePaused ==
  ASSUME NoFailureBeside, OnePauseInv, FirstSegment, NEW n \in Submitted, n \in MaySubmit
  PROVE  Failed = {}
<1> SUFFICES ASSUME NEW f \in Failed PROVE FALSE
  OBVIOUS
<1>1. traces \in Seq(Trace) /\ OneTraceEach(traces)
  BY DEF OnePauseInv, OneBatchInv, RunInv, CoordinatorTypeOK, TracesAgree, ExecutedOncePerRun,
         OneTraceEach
<1>2. f # n
  <2>1. {"FAILED"} \cap {"BATCH_SUBMITTED"} = {}
    OBVIOUS
  <2>2. QED  BY <1>1, <2>1, OneStatusEach DEF Failed, Submitted
<1>3. f \in Processed /\ n \in Processed /\ f \in Node /\ n \in Node
  BY <1>1, NodesOfType DEF Failed, Submitted, Processed, NodesIn
<1>4. Inv /\ Failed \subseteq MayFail /\ Processed \subseteq nodes /\ Unsettled \cap terminal = {}
  BY DEF OnePauseInv, FailuresKept
<1>5. f \notin terminal /\ n \notin terminal /\ terminal \in SUBSET Node
  BY <1>4 DEF Unsettled, Inv, TypeOK
<1>6. Parents(f) \subseteq terminal /\ Parents(n) \subseteq terminal
      /\ \A m \in terminal : Parents(m) \subseteq terminal
  <2>1. f \in done \cup inFlight /\ n \in done \cup inFlight /\ terminal \subseteq done
    BY <1>3, <1>4 DEF OnePauseInv, OneBatchInv, RunInv, TracesAgree, Inv, BookkeepingAgrees
  <2>2. QED  BY <1>4, <2>1 DEF Inv, ParentsFirst
<1>7. ASSUME NEW a \in {f, n}
      PROVE  ExecutionPathToNode(a) \subseteq terminal \cup {a}
  <2>1. AncestorClosed(terminal \cup {a}) /\ a \in Node
    BY <1>3, <1>6, <1>7 DEF AncestorClosed
  <2>2. QED  BY <1>5, <2>1, PathLeast
<1>8. f \in ExecutionPathToNode(n) \/ n \in ExecutionPathToNode(f)
  BY <1>4 DEF NoFailureBeside
<1>9. QED  BY <1>2, <1>5, <1>7, <1>8

LEMMA OnePauseInit == CoordinatorInit => OnePauseInv
<1> SUFFICES ASSUME CoordinatorInit PROVE OnePauseInv
  OBVIOUS
<1>1. OneBatchInv /\ Inv
  BY OneBatchInit, InitInv DEF CoordinatorInit
<1>2. traces = <<>> /\ paused = FALSE
  BY DEF CoordinatorInit, Init
<1>3. Submitted = {} /\ Failed = {} /\ Unsettled = {} /\ Processed = {}
  BY <1>2, EmptyRun DEF Submitted, Failed, Unsettled
<1>4. QED  BY <1>1, <1>2, <1>3 DEF OnePauseInv, FailuresKept

(* A request starts an admissible segment.                                 *)
LEMMA RequestStartsInv ==
  ASSUME TriggersAreRoots, RunInv,
         \/ \E trigger \in ActiveTriggers : ExecuteFlowDefinition(trigger)
         \/ \E t \in Targets : ExecuteFlowToNode(t)
  PROVE  Inv' /\ traces' = <<>> /\ paused' = FALSE
<1>1. PICK s : /\ StartSegment(s) /\ s.complete = {} /\ s.skipped \subseteq Node
               /\ AncestorClosed(s.skipped) /\ s.nodes \subseteq Node /\ AncestorClosed(s.nodes)
               /\ pc = "idle" /\ UNCHANGED <<traces, aborted>>
  <2>1. ASSUME NEW trigger \in ActiveTriggers, ExecuteFlowDefinition(trigger)
        PROVE  \E s : /\ StartSegment(s) /\ s.complete = {} /\ s.skipped \subseteq Node
               /\ AncestorClosed(s.skipped) /\ s.nodes \subseteq Node /\ AncestorClosed(s.nodes)
               /\ pc = "idle" /\ UNCHANGED <<traces, aborted>>
    <3> DEFINE skips == IF trigger = None THEN {} ELSE TriggerSkips(Trigger, trigger)
               s == [nodes |-> Node, complete |-> {}, skipped |-> skips]
    <3>1. skips \subseteq Node /\ AncestorClosed(skips)
      <4>1. AncestorClosed({})
        BY DEF AncestorClosed
      <4>2. QED  BY <4>1, TriggerSkipsType, TriggerSkipsClosed
    <3>2. Run(s) /\ UNCHANGED traces
      BY <2>1 DEF ExecuteFlowDefinition
    <3> HIDE DEF skips
    <3>3. s.complete = {} /\ s.skipped = skips /\ s.nodes = Node /\ AncestorClosed(Node)
      BY Adjacency DEF AncestorClosed
    <3> HIDE DEF s
    <3>4. QED  BY <3>1, <3>2, <3>3 DEF Run
  <2>2. ASSUME NEW t \in Targets, ExecuteFlowToNode(t)
        PROVE  \E s : /\ StartSegment(s) /\ s.complete = {} /\ s.skipped \subseteq Node
               /\ AncestorClosed(s.skipped) /\ s.nodes \subseteq Node /\ AncestorClosed(s.nodes)
               /\ pc = "idle" /\ UNCHANGED <<traces, aborted>>
    <3> DEFINE s == [nodes |-> ExecutionPathToNode(t), complete |-> {}, skipped |-> {}]
    <3>1. Run(s) /\ UNCHANGED traces
      BY <2>2 DEF ExecuteFlowToNode
    <3>2. /\ s.complete = {} /\ s.skipped = {} /\ s.nodes \subseteq Node
          /\ AncestorClosed(s.nodes) /\ AncestorClosed({})
      BY PathType, CoordinatorAssumption DEF AncestorClosed
    <3> HIDE DEF s
    <3>3. QED  BY <3>1, <3>2 DEF Run
  <2>3. QED  BY <2>1, <2>2
<1>2. s.complete \cup s.skipped = s.skipped
  BY <1>1
<1>3. Admissible(s)
  BY <1>1, <1>2 DEF Admissible, AncestorClosed
<1>4. aborted' \in BOOLEAN
  BY <1>1 DEF RunInv, CoordinatorTypeOK, TypeOK
<1>5. traces' = <<>> /\ paused' = FALSE
  BY <1>1 DEF RunInv, RowFollowsScheduler, StartSegment
<1>6. QED  BY <1>1, <1>3, <1>4, <1>5, StartInv

LEMMA OnePauseLaunch ==
  ASSUME OnePauseInv, NEW n \in Node, LaunchNode(n)
  PROVE  FailuresKept'
<1>1. /\ UNCHANGED <<terminal, paused, firstFailure, nodes, job, hasFailure>>
      /\ traces' = IF n \in nodes THEN Launched(traces, n) ELSE traces
      /\ n \in ready
  BY DEF LaunchNode, Launch, Launched
<1>2. FirstSegment => Inv'
  BY LaunchInv DEF OnePauseInv, FailuresKept, LaunchNode
<1>3. /\ Submitted' = Submitted /\ Failed' = Failed
      /\ Processed' = Processed \cup ({n} \cap nodes)
  <2>1. CASE n \in nodes
    <3>1. traces \in Seq(Trace) /\ n \notin NodesIn(traces)
      BY <1>1, <2>1 DEF OnePauseInv, OneBatchInv, RunInv, CoordinatorTypeOK, TracesAgree,
                        Processed, NodesIn
    <3>2. /\ NodesIn(traces') = NodesIn(traces) \cup {n}
          /\ \A ss : NodesOf(traces', ss) =
                       NodesOf(traces, ss) \cup IF "RUNNING" \in ss THEN {n} ELSE {}
      BY <1>1, <2>1, <3>1, TraceAdded
    <3>3. "RUNNING" \notin {"FAILED"} /\ "RUNNING" \notin {"BATCH_SUBMITTED"}
      OBVIOUS
    <3>4. QED  BY <2>1, <3>2, <3>3 DEF Submitted, Failed, Processed, NodesIn
  <2>2. CASE n \notin nodes
    BY <1>1, <2>2 DEF Submitted, Failed, Processed
  <2>3. QED  BY <2>1, <2>2
<1>4. QED  BY <1>1, <1>2, <1>3 DEF OnePauseInv, FailuresKept, FirstSegment, Unsettled

LEMMA OnePauseFails ==
  ASSUME OnePauseInv, NEW n \in Node, NodeFails(n)
  PROVE  FailuresKept'
<1>1. /\ Settled(n) /\ Record(n, "FAILED", {}) /\ n \in MayFail /\ n \in inFlight
      /\ UNCHANGED <<terminal, paused, nodes, job, hasFailure>> /\ firstFailure' # None
  BY NoneAssumption DEF NodeFails, CompleteFailed, Settled
<1>2. FirstSegment => Inv'
  BY StopInv DEF OnePauseInv, FailuresKept, NodeFails
<1>3. Submitted' = Submitted /\ Failed' = Failed \cup {n} /\ Processed' = Processed
  <2>1. {} \in SUBSET Handle /\ "BATCH_SUBMITTED" # "FAILED"
    OBVIOUS
  <2>2. QED  BY <1>1, <2>1, SettledTrace DEF OnePauseInv, OneBatchInv, Submitted, Failed
<1>4. FirstSegment => n \notin terminal
  BY <1>1 DEF OnePauseInv, FailuresKept, Inv, ExecutedAtMostOnce, BookkeepingAgrees
<1>5. QED
  BY <1>1, <1>2, <1>3, <1>4 DEF OnePauseInv, FailuresKept, FirstSegment, Unsettled

LEMMA OnePauseSubmits ==
  ASSUME OneBatchNode, OnePauseInv, NEW n \in Node, NodeSubmitsBatch(n)
  PROVE  FailuresKept'
<1>1. /\ Settled(n) /\ Record(n, "BATCH_SUBMITTED", {}) /\ n \in MaySubmit /\ n \in inFlight
      /\ UNCHANGED <<terminal, nodes, hasFailure, firstFailure>> /\ paused' = TRUE
      /\ job' = [job EXCEPT ![n] = "SUBMITTED"]
  BY DEF NodeSubmitsBatch, CompleteBatchSubmitted, Settled
<1>2. /\ \A m \in Node : job[m] # "none" => m \in MaySubmit \ inFlight
      /\ job \in [Node -> JobStatus]
  BY DEF OnePauseInv, OneBatchInv, RunInv, TracesAgree, CoordinatorTypeOK
<1>3. \A m \in Node : job[m] = "none"
  BY <1>1, <1>2 DEF OneBatchNode
<1>4. FirstSegment
  BY <1>3 DEF FirstSegment
<1>5. Inv'
  BY <1>4, StopInv DEF OnePauseInv, FailuresKept, NodeSubmitsBatch
<1>6. Submitted' = Submitted \cup {n} /\ Failed' = Failed /\ Processed' = Processed
  <2>1. {} \in SUBSET Handle /\ "BATCH_SUBMITTED" # "FAILED"
    OBVIOUS
  <2>2. QED  BY <1>1, <2>1, SettledTrace DEF OnePauseInv, OneBatchInv, Submitted, Failed
<1>7. Submitted = {}
  BY <1>3, NodesOfType DEF OnePauseInv, FailuresKept, OneBatchInv, RunInv, CoordinatorTypeOK, Submitted
<1>8. job'[n] = "SUBMITTED"
  BY <1>1, <1>2
<1>9. n \notin terminal
  BY <1>1, <1>4 DEF OnePauseInv, FailuresKept, Inv, ExecutedAtMostOnce, BookkeepingAgrees
<1>10. QED
  BY <1>1, <1>4, <1>5, <1>6, <1>7, <1>8, <1>9 DEF OnePauseInv, FailuresKept, Unsettled

(* A node that ends well makes nothing terminal that has failed.           *)
LEMMA OnePauseFinish ==
  ASSUME OnePauseInv, NEW n \in Node,
         \/ \E active \in SUBSET ConnectedHandles(n) : NodeSucceeds(n, active)
         \/ NodeSkippedByHook(n)
  PROVE  FailuresKept'
<1>1. /\ Settled(n) /\ n \in inFlight
      /\ terminal' \subseteq terminal \cup {n} \cup (Node \ done)
      /\ UNCHANGED <<nodes, firstFailure, paused, job, hasFailure>>
  <2>1. skipped \in SUBSET Node
    BY DEF OnePauseInv, OneBatchInv, RunInv, CoordinatorTypeOK, TypeOK
  <2>2. ASSUME NEW skips \in SUBSET Node, Finish(n, skips)
        PROVE  /\ Settled(n) /\ n \in inFlight
               /\ terminal' \subseteq terminal \cup {n} \cup (Node \ done)
               /\ UNCHANGED <<nodes, firstFailure, paused>>
    <3>1. NewlySkipped(n, skips) \subseteq Node \ done
      BY DEF NewlySkipped
    <3>2. QED  BY <2>2, <3>1 DEF Finish, Settled
  <2>3. ASSUME NEW active \in SUBSET ConnectedHandles(n), NodeSucceeds(n, active)
        PROVE  \E skips \in SUBSET Node : Finish(n, skips) /\ UNCHANGED <<job, hasFailure>>
    BY <2>1, <2>3, BranchSkippingType DEF NodeSucceeds, CompleteSuccess
  <2>4. ASSUME NodeSkippedByHook(n)
        PROVE  \E skips \in SUBSET Node : Finish(n, skips) /\ UNCHANGED <<job, hasFailure>>
    <3>1. skipped \cup {n} \in SUBSET Node
      BY <2>1
    <3>2. QED  BY <2>4, <3>1 DEF NodeSkippedByHook, CompleteSkipped
  <2>5. QED  BY <2>2, <2>3, <2>4
<1>2. PICK status \in {"SUCCESS", "SKIPPED"}, active \in SUBSET Handle : Record(n, status, active)
  <2>1. ConnectedHandles(n) \subseteq Handle /\ {} \in SUBSET Handle
    BY GraphAssumption DEF ConnectedHandles, Outgoing
  <2>2. ASSUME NEW active \in SUBSET ConnectedHandles(n), NodeSucceeds(n, active)
        PROVE  active \in SUBSET Handle /\ Record(n, "SUCCESS", active)
    BY <2>1, <2>2 DEF NodeSucceeds
  <2>3. QED  BY <2>1, <2>2 DEF NodeSkippedByHook
<1>3. Submitted' = Submitted /\ Failed' = Failed /\ Processed' = Processed
  BY <1>1, <1>2, SettledTrace DEF OnePauseInv, OneBatchInv, Submitted, Failed
<1>4. FirstSegment => Inv'
  BY CompleteSuccessInv, CompleteSkippedInv
     DEF OnePauseInv, FailuresKept, NodeSucceeds, NodeSkippedByHook
<1>5. n \notin Unsettled
  BY <1>1, <1>2, SettledTrace DEF OnePauseInv, OneBatchInv, Submitted, Failed, Unsettled
<1>6. FirstSegment => Unsettled \subseteq done
  <2>1. Unsettled \subseteq Processed
    BY NodesOfType DEF OnePauseInv, OneBatchInv, RunInv, CoordinatorTypeOK, Unsettled, Submitted,
                       Failed, Processed, NodesIn
  <2>2. Unsettled \cap inFlight = {}
    <3>1. /\ {"FAILED"} \cap {"RUNNING"} = {} /\ {"BATCH_SUBMITTED"} \cap {"RUNNING"} = {}
      OBVIOUS
    <3>2. traces \in Seq(Trace) /\ OneTraceEach(traces)
      BY DEF OnePauseInv, OneBatchInv, RunInv, CoordinatorTypeOK, TracesAgree,
             ExecutedOncePerRun, OneTraceEach
    <3>3. Failed \cap inFlight = {} /\ Submitted \cap inFlight = {}
      BY <3>1, <3>2, OneStatusEach
         DEF OnePauseInv, OneBatchInv, RunInv, TracesAgree, Submitted, Failed
    <3>4. QED  BY <3>3 DEF Unsettled
  <2>3. FirstSegment => Processed \subseteq done \cup inFlight
    BY DEF OnePauseInv, FailuresKept, OneBatchInv, RunInv, TracesAgree
  <2>4. QED  BY <2>1, <2>2, <2>3
<1>7. QED
  BY <1>1, <1>3, <1>4, <1>5, <1>6 DEF OnePauseInv, FailuresKept, FirstSegment, Unsettled

(***************************************************************************)
(* The resume: the one submitted trace takes its result, a failure among   *)
(* the results is remembered in hasFailure, and there is no other failure. *)
(***************************************************************************)
LEMMA OnePauseResume ==
  ASSUME OneBatchNode, NoFailureBeside, OnePauseInv, NEW n \in Node, ResumeFromBatchCompletion(n)
  PROVE  FailuresKept'
<1>1. /\ n \in toResume /\ job[n] # "FAILED" /\ traces' = ResolvedTraces(traces)
      /\ UNCHANGED job /\ paused' = FALSE
      /\ hasFailure' = \E i \in DOMAIN traces : /\ traces[i].status = "BATCH_SUBMITTED"
                                                /\ traces'[i].status = "FAILED"
  BY DEF ResumeFromBatchCompletion, ResolvedTraces, StartSegment
<1>2. /\ n \in MaySubmit /\ job[n] \notin {"none", "SUBMITTED"}
      /\ \A m \in Node : job[m] # "none" => m = n
  BY <1>1, OneListed DEF OnePauseInv, OneBatchInv
<1>3. /\ traces \in Seq(Trace) /\ job \in [Node -> JobStatus]
      /\ Submitted # {} /\ \A m \in Submitted : job[m] # "none"
  BY <1>1 DEF OnePauseInv, FailuresKept, OneBatchInv, ListedWhilePaused, RunInv,
              RowFollowsScheduler, CoordinatorTypeOK
<1>4. Submitted = {n}
  <2>1. Submitted \subseteq Node
    BY <1>3, NodesOfType DEF Submitted
  <2>2. QED  BY <1>2, <1>3, <2>1
<1>5. job[n] \in {"COMPLETED", "COMPLETED_WITH_FAILURE"}
  BY <1>1, <1>2, <1>3 DEF JobStatus
<1>6. Failed = {}
  <2>1. FirstSegment
    BY <1>3 DEF FirstSegment
  <2>2. QED  BY <1>2, <1>4, <2>1, NoFailurePaused
<1>7. ASSUME NEW i \in DOMAIN traces
      PROVE  /\ traces'[i].status # "BATCH_SUBMITTED"
             /\ traces'[i].status = "FAILED" => traces[i].status = "BATCH_SUBMITTED"
  <2>1. traces[i] \in Trace /\ traces'[i] = Resolved(traces[i])
    BY <1>1, <1>3 DEF ResolvedTraces
  <2>2. CASE traces[i].status # "BATCH_SUBMITTED"
    <3>1. traces'[i] = traces[i]
      BY <2>1, <2>2 DEF Resolved
    <3>2. traces[i].status # "FAILED"
      BY <1>6 DEF Failed, NodesOf
    <3>3. QED  BY <2>2, <3>1, <3>2
  <2>3. CASE traces[i].status = "BATCH_SUBMITTED"
    <3>1. traces[i].node = n
      BY <1>4, <2>3 DEF Submitted, NodesOf
    <3>2. traces'[i].status \in {"SUCCESS", "FAILED"}
      <4>1. CASE job[n] = "COMPLETED"
        BY <2>1, <2>3, <3>1, <4>1 DEF Resolved, Trace
      <4>2. CASE job[n] = "COMPLETED_WITH_FAILURE"
        BY <2>1, <2>3, <3>1, <4>2 DEF Resolved, Trace
      <4>3. QED  BY <1>5, <4>1, <4>2
    <3>3. QED  BY <2>3, <3>2
  <2>4. QED  BY <2>2, <2>3
<1>8. DOMAIN traces' = DOMAIN traces
  BY <1>1 DEF ResolvedTraces
<1>9. Submitted' = {}
  BY <1>7, <1>8 DEF Submitted, NodesOf
<1>10. Failed' # {} => hasFailure'
  BY <1>1, <1>7, <1>8 DEF Failed, NodesOf
<1>11. ~FirstSegment'
  BY <1>1, <1>2, <1>9 DEF FirstSegment
<1>12. QED  BY <1>1, <1>9, <1>10, <1>11 DEF FailuresKept

LEMMA OnePauseNext ==
  ASSUME OneBatchNode, NoFailureBeside, TriggersAreRoots,
         OnePauseInv, [CoordinatorNext]_coordinatorVars
  PROVE  OnePauseInv'
<1>1. OneBatchInv'
  BY OneBatchNext DEF OnePauseInv
<1>2. ASSUME UNCHANGED <<traces, job, hasFailure, paused, firstFailure, nodes, terminal>>, Inv => Inv'
      PROVE  FailuresKept'
  <2>1. Submitted' = Submitted /\ Failed' = Failed /\ Processed' = Processed
    BY <1>2 DEF Submitted, Failed, Processed
  <2>2. QED  BY <1>2, <2>1 DEF OnePauseInv, FailuresKept, FirstSegment, Unsettled
<1>3. FailuresKept'
  <2>1. CASE \/ \E trigger \in ActiveTriggers : ExecuteFlowDefinition(trigger)
             \/ \E t \in Targets : ExecuteFlowToNode(t)
    <3>1. Inv' /\ traces' = <<>> /\ paused' = FALSE
      BY <2>1, RequestStartsInv DEF OnePauseInv, OneBatchInv
    <3>2. Submitted' = {} /\ Failed' = {} /\ Processed' = {} /\ Unsettled' = {}
      BY <3>1 DEF Submitted, Failed, Processed, Unsettled, NodesOf
    <3>3. QED  BY <3>1, <3>2 DEF FailuresKept
  <2>2. ASSUME NEW n \in Node, LaunchNode(n) PROVE FailuresKept'
    BY <2>2, OnePauseLaunch
  <2>3. ASSUME NEW n \in Node, NodeSettles(n) PROVE FailuresKept'
    BY <2>3, OnePauseFinish, OnePauseFails, OnePauseSubmits DEF NodeSettles
  <2>4. ASSUME NEW n \in Node, JobFinishes(n) PROVE FailuresKept'
    <3>1. PICK result \in {"COMPLETED", "COMPLETED_WITH_FAILURE", "FAILED"} :
             job' = [job EXCEPT ![n] = result]
      BY <2>4 DEF JobFinishes
    <3>2. /\ UNCHANGED <<traces, hasFailure, paused, firstFailure, nodes, terminal>>
          /\ Inv => Inv'
      BY <2>4, NextInv DEF JobFinishes, vars
    <3>3. ASSUME NEW m \in Node
          PROVE  job'[m] = "none" <=> job[m] = "none"
      <4>1. DOMAIN job = Node /\ job[n] = "SUBMITTED"
        BY <2>4 DEF JobFinishes, OnePauseInv, OneBatchInv, RunInv, CoordinatorTypeOK
      <4>2. QED  BY <3>1, <4>1
    <3>4. Submitted' = Submitted /\ Failed' = Failed /\ Processed' = Processed
          /\ Submitted \subseteq Node
      BY <3>2, NodesOfType DEF Submitted, Failed, Processed, OnePauseInv, OneBatchInv, RunInv,
                               CoordinatorTypeOK
    <3>5. QED  BY <3>2, <3>3, <3>4 DEF OnePauseInv, FailuresKept, FirstSegment, Unsettled
  <2>5. ASSUME NEW n \in Node, ResumeWithError(n) PROVE FailuresKept'
    BY <1>2, <2>5, NextInv DEF ResumeWithError, vars
  <2>6. ASSUME NEW n \in Node, ResumeFromBatchCompletion(n) PROVE FailuresKept'
    BY <2>6, OnePauseResume
  <2>7. CASE WaitForNodes \/ ConcludeSegment
    <3>1. RaceCompletion \/ Return
      BY <2>7 DEF WaitForNodes, ConcludeSegment
    <3>2. Inv => Inv'
      BY <3>1, LoopInv
    <3>3. UNCHANGED <<traces, job, hasFailure, paused, firstFailure, nodes, terminal>>
      BY <2>7 DEF WaitForNodes, ConcludeSegment, RaceCompletion, Return, runVars
    <3>4. QED  BY <1>2, <3>2, <3>3
  <2>8. CASE FindFlowsReadyForResumption \/ UNCHANGED coordinatorVars
    BY <1>2, <2>8, NextInv DEF FindFlowsReadyForResumption, coordinatorVars, runVars, vars
  <2>9. QED
    BY <2>1, <2>2, <2>3, <2>4, <2>5, <2>6, <2>7, <2>8 DEF CoordinatorNext
<1>4. QED  BY <1>1, <1>3 DEF OnePauseInv

(***************************************************************************)
(* With one batch node and no failure beside it, a run that is reported as *)
(* SUCCESS has done all it was asked for, over its pause too.              *)
(***************************************************************************)
THEOREM SuccessMeansDoneCorrect ==
  ASSUME OneBatchNode, NoFailureBeside, TriggersAreRoots
  PROVE  CoordinatorSpec => []SuccessMeansDone
<1>1. OnePauseInv /\ [CoordinatorNext]_coordinatorVars => OnePauseInv'
  BY OnePauseNext
<1>2. OnePauseInv => SuccessMeansDone
  <2>1. SUFFICES ASSUME OnePauseInv, row = "SUCCESS" PROVE SuccessMeansDone
    BY DEF SuccessMeansDone
  <2>2. ~paused /\ firstFailure = None /\ ~hasFailure
    BY <2>1 DEF OnePauseInv, OneBatchInv, RunInv, RowFollowsScheduler, Halted
  <2>3. Unsettled = {}
    BY <2>1, <2>2 DEF OnePauseInv, FailuresKept, Unsettled
  <2>4. QED  BY <2>1, <2>3, SettledMeansDone DEF OnePauseInv, OneBatchInv
<1>3. QED  BY <1>1, <1>2, OnePauseInit, PTL DEF CoordinatorSpec
=============================================================================
