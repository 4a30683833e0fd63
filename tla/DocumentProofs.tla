---------------------------- MODULE DocumentProofs ----------------------------
(***************************************************************************)
(* For documents of any size: the depth check keeps its types, enters no   *)
(* selection set twice and measures the document with its fragments        *)
(* written out, and an aggregate computes what its document selects.       *)
(***************************************************************************)
EXTENDS Document, SequenceTheorems, TLAPS, FiniteSetTheorems, WellFoundedInduction

(***************************************************************************)
(* A set that was entered has been reached from its only place in the      *)
(* document: the operation is behind next, the fragment is known, and the  *)
(* frame of the selection above it has moved on or waits for it.           *)
(***************************************************************************)
Known == computing \cup DOMAIN fragDepth

Waits(j, i) == stack[j].at > i \/ (stack[j].at = i /\ j < Len(stack))

Distinct ==
  /\ \A j \in DOMAIN stack : walks[stack[j].set] # 0
  /\ \A j, k \in DOMAIN stack : stack[j].set = stack[k].set => j = k

RootsPassed == \A k \in DOMAIN doc.ops : walks[doc.ops[k]] # 0 => k < next
BodiesKnown == \A f \in DOMAIN doc.frags : walks[doc.frags[f]] # 0 => f \in Known

SubsReached ==
  \A t \in Sets : \A i \in DOMAIN doc.sets[t] :
    LET s == doc.sets[t][i].sub
    IN  s # None /\ walks[s] # 0 =>
          /\ walks[t] # 0
          /\ \A j \in DOMAIN stack : stack[j].set = t => Waits(j, i)

Inv == TypeOK /\ WalkedOnce /\ Distinct /\ RootsPassed /\ BodiesKnown /\ SubsReached

-----------------------------------------------------------------------------
(* Facts about the document and the stack.                                 *)

LEMMA DocumentFacts ==
  ASSUME TypeOK
  PROVE  /\ IsDocument(doc) /\ IsTree(doc)
         /\ doc.ops \in Seq(Sets) /\ DOMAIN doc.ops = 1 .. Len(doc.ops) /\ Len(doc.ops) \in Nat
         /\ None \notin Sets
         /\ \A s \in Sets : /\ Len(doc.sets[s]) \in Nat
                            /\ DOMAIN doc.sets[s] = 1 .. Len(doc.sets[s])
<1>1. IsDocument(doc) /\ IsTree(doc)
  BY DocumentAssumption DEF TypeOK
<1>2. DOMAIN doc.sets = 1 .. Len(doc.sets) /\ Len(doc.sets) \in Nat
  BY <1>1, LenProperties DEF IsDocument, IsSequence
<1>3. None \notin Sets
  BY <1>2, DocumentAssumption DEF Sets
<1>4. \A s \in Sets : Len(doc.sets[s]) \in Nat /\ DOMAIN doc.sets[s] = 1 .. Len(doc.sets[s])
  BY <1>1, LenProperties DEF IsDocument, IsSequence, Sets
<1>5. doc.ops \in Seq(Sets) /\ DOMAIN doc.ops = 1 .. Len(doc.ops) /\ Len(doc.ops) \in Nat
  BY <1>1, LenProperties DEF IsDocument, Sets
<1>. QED  BY <1>1, <1>3, <1>4, <1>5

LEMMA StackFacts ==
  ASSUME TypeOK
  PROVE  /\ stack \in Seq(FrameType)
         /\ Len(stack) \in Nat /\ DOMAIN stack = 1 .. Len(stack)
         /\ stack # <<>> => Len(stack) > 0 /\ Top \in FrameType
         /\ Below = SubSeq(stack, 1, Len(stack) - 1)
BY EmptySeq, LenProperties, ElementOfSeq DEF TypeOK, Top, Below

LEMMA LengthFacts ==
  ASSUME NEW S, NEW q \in Seq(S)
  PROVE  DOMAIN q = 1 .. Len(q) /\ Len(q) \in Nat
BY LenProperties

LEMMA BelowFacts ==
  ASSUME TypeOK, stack # <<>>
  PROVE  /\ Below \in Seq(FrameType)
         /\ Len(Below) = Len(stack) - 1
         /\ \A j \in 1 .. Len(Below) : Below[j] = stack[j]
<1>. DEFINE n == Len(stack) - 1
<1>1. n \in 0 .. Len(stack)
  BY StackFacts
<1>2. stack \in Seq(FrameType)
  BY StackFacts
<1>3. CASE n = 0
  BY <1>2, <1>3, StackFacts, SubSeqProperties DEF Below
<1>4. CASE n # 0
  BY <1>1, <1>2, <1>4, StackFacts, SubSeqProperties DEF Below
<1>. QED  BY <1>3, <1>4

-----------------------------------------------------------------------------
(* A selection set is entered that was never entered before.               *)

LEMMA EnterKeeps ==
  ASSUME Inv,
         NEW s \in Sets, walks[s] = 0,
         NEW adds \in {0, 1}, NEW frag \in DOMAIN doc.frags \cup {None},
         Enter(s, adds, frag),
         UNCHANGED <<doc, maxDepth, fragDepth, verdict>>,
         next' \in 1 .. Len(doc.ops) + 1, next' >= next,
         computing \subseteq computing', computing' \subseteq DOMAIN doc.frags \ DOMAIN fragDepth',
         \A k \in DOMAIN doc.ops : doc.ops[k] = s => k < next',
         \A f \in DOMAIN doc.frags : doc.frags[f] = s => f \in computing',
         \A t \in Sets : \A i \in DOMAIN doc.sets[t] :
           doc.sets[t][i].sub = s => stack # <<>> /\ t = Top.set /\ i = Top.at
  PROVE  Inv'
<1>. DEFINE new == Frame(s, adds, frag)
<1>1. new \in FrameType /\ new.set = s /\ new.at = 1
  BY DEF FrameType, Frame
<1>2. /\ stack' = Append(stack, new)
      /\ stack' \in Seq(FrameType) /\ Len(stack') = Len(stack) + 1
      /\ DOMAIN stack' = 1 .. Len(stack) + 1
      /\ \A j \in 1 .. Len(stack) : stack'[j] = stack[j]
      /\ stack'[Len(stack) + 1] = new
  BY <1>1, StackFacts, AppendProperties, LenProperties DEF Inv, Enter
<1>. HIDE DEF new
<1>3. walks \in [Sets -> Nat] /\ walks' = [walks EXCEPT ![s] = 1]
  BY DEF Inv, TypeOK, Enter
<1>4. walks' \in [Sets -> Nat] /\ walks'[s] = 1 /\ \A t \in Sets : t # s => walks'[t] = walks[t]
  BY <1>3
<1>5. Sets' = Sets /\ FrameType' = FrameType /\ DOMAIN stack = 1 .. Len(stack) /\ Len(stack) \in Nat
      /\ \A j \in DOMAIN stack : stack[j] \in FrameType /\ stack[j].set \in Sets
                                 /\ stack[j].at \in Nat
  <2>1. /\ stack \in Seq(FrameType) /\ DOMAIN stack = 1 .. Len(stack) /\ Len(stack) \in Nat
        /\ Sets' = Sets /\ FrameType' = FrameType
    BY StackFacts DEF Inv, Sets, FrameType
  <2>2. \A j \in DOMAIN stack : stack[j] \in FrameType
    BY <2>1, ElementOfSeq
  <2>3. \A f \in FrameType : f.set \in Sets /\ f.at \in Nat
    BY DEF FrameType
  <2>. QED  BY <2>1, <2>2, <2>3
<1>6. TypeOK'
  BY <1>2, <1>4, <1>5 DEF Inv, TypeOK
<1>7. WalkedOnce'
  BY <1>4, <1>5 DEF Inv, WalkedOnce
<1>8. Distinct'
  <2>1. \A j \in 1 .. Len(stack) : stack[j].set # s
    BY <1>5 DEF Inv, Distinct
  <2>2. ASSUME NEW j \in DOMAIN stack' PROVE walks'[stack'[j].set] # 0
    BY <1>1, <1>2, <1>4, <1>5, <2>1 DEF Inv, Distinct
  <2>3. ASSUME NEW j \in DOMAIN stack', NEW k \in DOMAIN stack', stack'[j].set = stack'[k].set
        PROVE  j = k
    BY <1>1, <1>2, <1>5, <2>1, <2>3 DEF Inv, Distinct
  <2>. QED  BY <2>2, <2>3 DEF Distinct
<1>9. RootsPassed'
  <2>. SUFFICES ASSUME NEW k \in DOMAIN doc.ops, walks'[doc.ops[k]] # 0
                PROVE  k < next'
    BY DEF RootsPassed
  <2>1. doc.ops[k] \in Sets /\ k \in Nat /\ next \in Nat /\ next' \in Nat
    BY DocumentFacts, ElementOfSeq DEF Inv, TypeOK
  <2>2. CASE doc.ops[k] = s
    BY <2>2
  <2>3. CASE doc.ops[k] # s
    BY <1>4, <2>1, <2>3 DEF Inv, RootsPassed
  <2>. QED  BY <2>2, <2>3
<1>10. BodiesKnown'
  <2>. SUFFICES ASSUME NEW f \in DOMAIN doc.frags, walks'[doc.frags[f]] # 0
                PROVE  f \in Known'
    BY DEF BodiesKnown
  <2>1. doc.frags[f] \in Sets
    BY DocumentFacts DEF Inv, IsDocument, Bodies, Sets
  <2>2. CASE doc.frags[f] = s
    BY <2>2 DEF Known
  <2>3. CASE doc.frags[f] # s
    BY <1>4, <2>1, <2>3 DEF Inv, BodiesKnown, Known
  <2>. QED  BY <2>2, <2>3
<1>11. SubsReached'
  <2>. SUFFICES ASSUME NEW t \in Sets, NEW i \in DOMAIN doc.sets[t],
                       doc.sets[t][i].sub # None, walks'[doc.sets[t][i].sub] # 0
                PROVE  /\ walks'[t] # 0
                       /\ \A j \in DOMAIN stack' : stack'[j].set = t => Waits(j, i)'
    BY <1>5 DEF SubsReached
  <2>0. doc.sets[t][i].sub \in Sets /\ i \in Nat /\ i >= 1
    BY DocumentFacts DEF Inv, IsDocument, IsSelection, Sets
  <2>1. CASE doc.sets[t][i].sub = s
    <3>1. stack # <<>> /\ t = Top.set /\ i = Top.at
      BY <2>1
    <3>2. Len(stack) \in DOMAIN stack /\ Top = stack[Len(stack)]
      BY <3>1, StackFacts DEF Inv, Top
    <3>3. walks'[t] # 0 /\ t # s
      BY <1>4, <1>5, <3>1, <3>2 DEF Inv, Distinct
    <3>4. ASSUME NEW j \in DOMAIN stack', stack'[j].set = t
          PROVE  Waits(j, i)'
      <4>1. j = Len(stack) /\ stack'[j] = Top
        BY <1>1, <1>2, <1>5, <3>1, <3>2, <3>3, <3>4 DEF Inv, Distinct
      <4>. QED  BY <1>2, <1>5, <3>1, <4>1 DEF Waits
    <3>. QED  BY <3>3, <3>4
  <2>2. CASE doc.sets[t][i].sub # s
    <3>1. walks[doc.sets[t][i].sub] # 0
      BY <1>4, <2>0, <2>2
    <3>2. walks[t] # 0 /\ \A j \in DOMAIN stack : stack[j].set = t => Waits(j, i)
      BY <3>1 DEF Inv, SubsReached
    <3>3. t # s /\ walks'[t] # 0
      BY <1>4, <3>2
    <3>4. ASSUME NEW j \in DOMAIN stack', stack'[j].set = t
          PROVE  Waits(j, i)'
      <4>1. j \in 1 .. Len(stack) /\ stack'[j] = stack[j]
        BY <1>1, <1>2, <1>5, <3>3, <3>4
      <4>2. Waits(j, i)
        BY <1>5, <3>2, <3>4, <4>1
      <4>. QED  BY <1>2, <1>5, <4>1, <4>2 DEF Waits
    <3>. QED  BY <3>3, <3>4
  <2>. QED  BY <2>1, <2>2
<1>. QED  BY <1>6, <1>7, <1>8, <1>9, <1>10, <1>11 DEF Inv

-----------------------------------------------------------------------------
(* The top frame is left, or moves on; no set is entered.                  *)

LEMMA MoveKeeps ==
  ASSUME Inv, stack # <<>>,
         UNCHANGED <<doc, maxDepth, next, walks>>,
         verdict' \in {"none", "accepted", "refused"},
         computing' \subseteq DOMAIN doc.frags \ DOMAIN fragDepth', DOMAIN fragDepth' \subseteq DOMAIN doc.frags,
         \A f \in DOMAIN fragDepth' : fragDepth'[f] \in Nat,
         Known \subseteq Known',
         stack' \in Seq(FrameType),
         NEW m \in Nat \ {0}, NEW n \in Nat, n <= m, Len(stack) = m, Len(stack') = n,
         \A j \in 1 .. n - 1 : stack'[j] = stack[j],
         \A j \in 1 .. n : /\ stack'[j].set = stack[j].set
                           /\ j = n => stack'[j].at = stack[j].at + 1
  PROVE  Inv'
<1>1. Sets' = Sets /\ FrameType' = FrameType
  BY DEF Sets, FrameType
<1>2. TypeOK'
  BY <1>1 DEF Inv, TypeOK
<1>3. WalkedOnce'
  BY <1>1 DEF Inv, WalkedOnce
<1>4. DOMAIN stack = 1 .. m /\ DOMAIN stack' = 1 .. n
  <2>1. DOMAIN stack = 1 .. m
    BY StackFacts DEF Inv
  <2>2. DOMAIN stack' = 1 .. n
    BY LengthFacts
  <2>. QED  BY <2>1, <2>2
<1>0. \A j \in 1 .. n : j \in 1 .. m
  OBVIOUS
<1>a. \A j \in 1 .. n : stack'[j].set = stack[j].set
  OBVIOUS
<1>5. Distinct'
  BY <1>0, <1>a, <1>4 DEF Inv, Distinct
<1>6. RootsPassed'
  BY DEF Inv, RootsPassed
<1>7. BodiesKnown'
  BY DEF Inv, BodiesKnown
<1>8. SubsReached'
  <2>. SUFFICES ASSUME NEW t \in Sets, NEW i \in DOMAIN doc.sets[t],
                       doc.sets[t][i].sub # None, walks[doc.sets[t][i].sub] # 0
                PROVE  /\ walks[t] # 0
                       /\ \A j \in DOMAIN stack' : stack'[j].set = t => Waits(j, i)'
    BY <1>1 DEF SubsReached
  <2>0. i \in Nat
    BY DocumentFacts DEF Inv
  <2>1. walks[t] # 0 /\ \A j \in DOMAIN stack : stack[j].set = t => Waits(j, i)
    BY DEF Inv, SubsReached
  <2>2. ASSUME NEW j \in DOMAIN stack', stack'[j].set = t
        PROVE  Waits(j, i)'
    <3>1. j \in 1 .. m /\ j \in 1 .. n /\ stack[j].set = t
      BY <1>0, <1>a, <1>4, <2>2
    <3>2. (stack[j].at > i \/ (stack[j].at = i /\ j < m)) /\ stack[j].at \in Nat
      <4>1. stack[j] \in FrameType
        BY <1>4, <3>1, StackFacts, ElementOfSeq DEF Inv
      <4>2. stack[j].at \in Nat
        BY <4>1 DEF FrameType
      <4>. QED  BY <1>4, <2>1, <3>1, <4>2 DEF Waits
    <3>3. CASE j = n
      <4>1. stack[j].at >= i
        BY <2>0, <3>2
      <4>2. stack'[j].at = stack[j].at + 1
        BY <3>1, <3>3
      <4>3. stack'[j].at > i
        BY <2>0, <3>2, <4>1, <4>2
      <4>. QED  BY <4>3 DEF Waits
    <3>4. CASE j # n
      <4>1. j \in 1 .. n - 1 /\ j < n
        BY <3>1, <3>4
      <4>2. stack'[j].at = stack[j].at
        BY <4>1
      <4>. QED  BY <2>0, <3>2, <4>1, <4>2 DEF Waits
    <3>. QED  BY <3>3, <3>4
  <2>. QED  BY <2>1, <2>2
<1>. QED  BY <1>2, <1>3, <1>5, <1>6, <1>7, <1>8 DEF Inv

-----------------------------------------------------------------------------
(* The steps.                                                              *)

LEMMA SelectionFacts ==
  ASSUME TypeOK, Visiting
  PROVE  /\ Top.set \in Sets /\ Top.at \in DOMAIN doc.sets[Top.set]
         /\ Top.best \in Nat /\ Top.adds \in {0, 1}
         /\ IsSelection(doc, Selection)
<1>1. Top \in FrameType
  BY StackFacts DEF Visiting
<1>2. Top.set \in Sets /\ Top.at \in Nat \ {0} /\ Top.best \in Nat /\ Top.adds \in {0, 1}
  BY <1>1 DEF FrameType
<1>3. Top.at \in DOMAIN doc.sets[Top.set]
  BY <1>2, DocumentFacts DEF Visiting
<1>. QED  BY <1>2, <1>3, DocumentFacts DEF IsDocument, Selection, Sets

LEMMA PastFacts ==
  ASSUME NEW frame \in FrameType, NEW d \in Nat
  PROVE  Past(frame, d) \in FrameType /\ Past(frame, d).set = frame.set
         /\ Past(frame, d).at = frame.at + 1
<1>. DEFINE b == Larger(frame.best, d)
<1>1. frame.at \in Nat \ {0} /\ frame.best \in Nat
  BY DEF FrameType
<1>2. b \in Nat
  BY <1>1 DEF Larger
<1>3. Past(frame, d) = [frame EXCEPT !.at = frame.at + 1, !.best = b]
  BY DEF Past, FrameType
<1>4. frame.at + 1 \in Nat \ {0}
  BY <1>1
<1>. HIDE DEF b
<1>. QED  BY <1>1, <1>2, <1>3, <1>4 DEF FrameType

LEMMA OperationStep == ASSUME Inv, Operation PROVE Inv'
<1>1. next \in DOMAIN doc.ops /\ next \in Nat /\ Len(doc.ops) \in Nat /\ doc.ops[next] \in Sets
  BY DocumentFacts, ElementOfSeq DEF Inv, TypeOK, Operation
<1>2. walks[doc.ops[next]] = 0
  <2>1. walks[doc.ops[next]] # 0 => next < next
    BY <1>1 DEF Inv, RootsPassed
  <2>. QED  BY <1>1, <2>1
<1>3. doc.ops[next] \in Roots(doc)
  BY <1>1 DEF Roots
<1>4. \A k \in DOMAIN doc.ops : doc.ops[k] = doc.ops[next] => k < next + 1
  BY <1>1, DocumentFacts DEF Inv, IsTree
<1>5. \A f \in DOMAIN doc.frags : doc.frags[f] # doc.ops[next]
  BY <1>3, DocumentFacts DEF Inv, IsTree, Bodies
<1>6. \A t \in Sets : \A i \in DOMAIN doc.sets[t] : doc.sets[t][i].sub # doc.ops[next]
  BY <1>1, <1>3, DocumentFacts DEF Inv, IsTree, Sets
<1>7. /\ next' = next + 1 /\ next' \in 1 .. Len(doc.ops) + 1 /\ next' >= next
      /\ computing' = computing /\ computing' \subseteq DOMAIN doc.frags \ DOMAIN fragDepth'
      /\ Enter(doc.ops[next], 0, None)
      /\ UNCHANGED <<doc, maxDepth, fragDepth, verdict>>
  BY <1>1 DEF Operation, Inv, TypeOK
<1>. QED  BY <1>1, <1>2, <1>4, <1>5, <1>6, <1>7, EnterKeeps

LEMMA NestedStep == ASSUME Inv, Nested PROVE Inv'
<1>. DEFINE s == Selection.sub
<1>1. /\ Top.set \in Sets /\ Top.at \in DOMAIN doc.sets[Top.set]
      /\ IsSelection(doc, Selection) /\ stack # <<>>
  BY SelectionFacts DEF Inv, Nested, Visiting
<1>2. s \in Sets /\ s # None
  BY <1>1 DEF Nested, IsSelection, Sets
<1>3. s = doc.sets[Top.set][Top.at].sub
  BY DEF Selection
<1>. HIDE DEF s
<1>4. walks[s] = 0
  <2>1. Len(stack) \in DOMAIN stack /\ stack[Len(stack)] = Top /\ Len(stack) \in Nat
    BY <1>1, StackFacts DEF Inv, Top
  <2>2. walks[s] # 0 => Waits(Len(stack), Top.at)
    BY <1>1, <1>2, <1>3, <2>1 DEF Inv, SubsReached
  <2>3. Top.at \in Nat
    BY <1>1, DocumentFacts DEF Inv
  <2>. QED  BY <2>1, <2>2, <2>3 DEF Waits
<1>5. /\ s \notin Roots(doc) \cup Bodies(doc)
      /\ \A t \in Sets : \A i \in DOMAIN doc.sets[t] :
           doc.sets[t][i].sub = s => t = Top.set /\ i = Top.at
  BY <1>1, <1>2, <1>3, DocumentFacts DEF Inv, IsTree, Sets
<1>6. \A k \in DOMAIN doc.ops : doc.ops[k] # s
  BY <1>5 DEF Roots
<1>7. \A f \in DOMAIN doc.frags : doc.frags[f] # s
  BY <1>5 DEF Bodies
<1>8. /\ next' = next /\ next \in 1 .. Len(doc.ops) + 1 /\ Len(doc.ops) \in Nat
      /\ computing' = computing /\ computing' \subseteq DOMAIN doc.frags \ DOMAIN fragDepth'
      /\ Enter(s, Adds(Selection), None) /\ Adds(Selection) \in {0, 1}
      /\ UNCHANGED <<doc, maxDepth, fragDepth, verdict>>
  BY DocumentFacts DEF Nested, Inv, TypeOK, Adds, s
<1>. QED  BY <1>1, <1>2, <1>4, <1>5, <1>6, <1>7, <1>8, EnterKeeps

LEMMA SpreadStep == ASSUME Inv, Spread PROVE Inv'
<1>. DEFINE f == Selection.name
            s == doc.frags[f]
<1>1. f \in DOMAIN doc.frags /\ f \notin Known
  BY DEF Spread, Known
<1>2. s \in Sets /\ s \in Bodies(doc)
  BY <1>1, DocumentFacts DEF Inv, IsDocument, Bodies, Sets
<1>3. walks[s] = 0
  BY <1>1, <1>2 DEF Inv, BodiesKnown
<1>4. /\ \A k \in DOMAIN doc.ops : doc.ops[k] # s
      /\ \A g \in DOMAIN doc.frags : doc.frags[g] = s => g = f
  BY <1>1, <1>2, DocumentFacts DEF Inv, IsTree, Roots
<1>5. \A t \in Sets : \A i \in DOMAIN doc.sets[t] : doc.sets[t][i].sub # s
  BY <1>2, DocumentFacts DEF Inv, IsTree, Sets
<1>6. /\ next' = next /\ next \in 1 .. Len(doc.ops) + 1 /\ Len(doc.ops) \in Nat
      /\ computing' = computing \cup {f} /\ computing \subseteq DOMAIN doc.frags \ DOMAIN fragDepth
      /\ Enter(s, 0, f)
      /\ UNCHANGED <<doc, maxDepth, fragDepth, verdict>>
  BY DocumentFacts DEF Spread, Inv, TypeOK
<1>. HIDE DEF f, s
<1>7. next' >= next /\ computing' \subseteq DOMAIN doc.frags \ DOMAIN fragDepth' /\ computing \subseteq computing'
  BY <1>1, <1>6 DEF Known
<1>. QED  BY <1>1, <1>2, <1>3, <1>4, <1>5, <1>6, <1>7, EnterKeeps

LEMMA ShallowStep == ASSUME Inv, Shallow PROVE Inv'
<1>. DEFINE d == IF Selection.kind = "field" THEN 1
                 ELSE IF Selection.name \in DOMAIN fragDepth THEN fragDepth[Selection.name] ELSE 0
<1>1. stack # <<>> /\ stack' = [stack EXCEPT ![Len(stack)] = Past(@, d)]
      /\ UNCHANGED <<doc, maxDepth, next, fragDepth, computing, walks, verdict>>
  BY DEF Shallow, Visiting
<1>2. d \in Nat
  BY DEF Inv, TypeOK
<1>. HIDE DEF d
<1>3. /\ stack \in Seq(FrameType) /\ Len(stack) \in Nat \ {0} /\ DOMAIN stack = 1 .. Len(stack)
      /\ stack[Len(stack)] \in FrameType
  BY <1>1, StackFacts, ElementOfSeq DEF Inv
<1>. DEFINE e == Past(stack[Len(stack)], d)
<1>a. e \in FrameType /\ e.set = stack[Len(stack)].set /\ e.at = stack[Len(stack)].at + 1
  BY <1>2, <1>3, PastFacts
<1>b. stack' = [stack EXCEPT ![Len(stack)] = e] /\ Len(stack) \in 1 .. Len(stack)
  BY <1>1, <1>3
<1>. HIDE DEF e
<1>4. /\ stack' \in Seq(FrameType) /\ Len(stack') = Len(stack)
      /\ \A j \in 1 .. Len(stack) : stack'[j] = IF j = Len(stack) THEN e ELSE stack[j]
  BY <1>3, <1>a, <1>b, ExceptSeq
<1>. DEFINE n == Len(stack)
<1>5. /\ n \in Nat \ {0} /\ Len(stack') = n
      /\ \A j \in 1 .. n : stack'[j] = IF j = n THEN e ELSE stack[j]
  BY <1>3, <1>4
<1>7. Len(stack) = n
  OBVIOUS
<1>. HIDE DEF n
<1>8. \A j \in 1 .. n - 1 : stack'[j] = stack[j]
  BY <1>5
<1>9. \A j \in 1 .. n : /\ stack'[j].set = stack[j].set
                        /\ j = n => stack'[j].at = stack[j].at + 1
  BY <1>5, <1>7, <1>a
<1>6. /\ Known' = Known /\ verdict' \in {"none", "accepted", "refused"}
      /\ computing' \subseteq DOMAIN doc.frags \ DOMAIN fragDepth' /\ DOMAIN fragDepth' \subseteq DOMAIN doc.frags
      /\ \A f \in DOMAIN fragDepth' : fragDepth'[f] \in Nat
  BY <1>1 DEF Inv, TypeOK, Known
<1>10. n <= n /\ n \in Nat
  BY <1>5
<1>11. stack # <<>> /\ UNCHANGED <<doc, maxDepth, next, walks>> /\ Known \subseteq Known'
  BY <1>1, <1>6
<1>12. stack' \in Seq(FrameType) /\ n \in Nat \ {0} /\ Len(stack') = n
  BY <1>4, <1>5
<1>. QED  BY <1>6, <1>7, <1>8, <1>9, <1>10, <1>11, <1>12, MoveKeeps

LEMMA ReturnStep == ASSUME Inv, Return PROVE Inv'
<1>1. /\ stack # <<>>
      /\ UNCHANGED <<doc, maxDepth, next, walks>>
  BY DEF Return
<1>2. Top \in FrameType
  BY <1>1, StackFacts DEF Inv
<1>3. Top.best \in Nat /\ Top.adds \in {0, 1} /\ Top.frag \in DOMAIN doc.frags \cup {None}
  BY <1>2 DEF FrameType
<1>4. verdict' \in {"none", "accepted", "refused"}
  BY DEF Return, Inv, TypeOK
<1>5. /\ computing' \subseteq DOMAIN doc.frags \ DOMAIN fragDepth' /\ DOMAIN fragDepth' \subseteq DOMAIN doc.frags
      /\ \A f \in DOMAIN fragDepth' : fragDepth'[f] \in Nat
      /\ Known \subseteq Known'
  <2>1. CASE Top.frag = None
    BY <2>1 DEF Return, Inv, TypeOK, Known
  <2>2. CASE Top.frag # None
    <3>1. /\ DOMAIN fragDepth' = DOMAIN fragDepth \cup {Top.frag}
          /\ \A f \in DOMAIN fragDepth' :
               fragDepth'[f] = IF f = Top.frag THEN Top.best ELSE fragDepth[f]
          /\ computing' = computing \ {Top.frag}
      BY <2>2 DEF Return, Memoized, Released
    <3>. QED  BY <1>3, <2>2, <3>1 DEF Inv, TypeOK, Known
  <2>. QED  BY <2>1, <2>2
<1>6. /\ Below \in Seq(FrameType) /\ Len(Below) = Len(stack) - 1
      /\ \A j \in 1 .. Len(Below) : Below[j] = stack[j]
      /\ Len(Below) \in Nat /\ Len(stack) \in Nat
  BY <1>1, BelowFacts, StackFacts, LenProperties DEF Inv
<1>7. CASE Below = <<>>
  <2>1. stack' = <<>>
    BY <1>7 DEF Return
  <2>2. stack' \in Seq(FrameType) /\ Len(stack') = 0 /\ Len(stack) = 1
    BY <1>6, <1>7, <2>1
  <2>. QED  BY <1>1, <1>4, <1>5, <2>2, MoveKeeps
<1>8. CASE Below # <<>>
  <2>. DEFINE n == Len(Below)
              d == Top.adds + Top.best
              e == Past(stack[n], d)
  <2>1. n \in 1 .. Len(Below) /\ Below[n] = stack[n] /\ stack[n] \in FrameType /\ d \in Nat
    BY <1>3, <1>6, <1>8, EmptySeq, LenProperties, ElementOfSeq
  <2>2. e \in FrameType /\ e.set = stack[n].set /\ e.at = stack[n].at + 1
    BY <2>1, PastFacts
  <2>3. stack' = [Below EXCEPT ![n] = e]
    BY <1>8, <2>1 DEF Return
  <2>. HIDE DEF e, d
  <2>4. /\ stack' \in Seq(FrameType) /\ Len(stack') = n
        /\ \A j \in 1 .. n : stack'[j] = IF j = n THEN e ELSE Below[j]
    BY <1>6, <2>1, <2>2, <2>3, ExceptSeq
  <2>5. n \in Nat /\ n + 1 \in Nat \ {0} /\ n <= n + 1 /\ Len(stack) = n + 1
    BY <1>6
  <2>6. \A j \in 1 .. n : Below[j] = stack[j]
    BY <1>6
  <2>. HIDE DEF n
  <2>7. \A j \in 1 .. n - 1 : stack'[j] = stack[j]
    BY <2>4, <2>5, <2>6
  <2>8. \A j \in 1 .. n : /\ stack'[j].set = stack[j].set
                          /\ j = n => stack'[j].at = stack[j].at + 1
    BY <2>2, <2>4, <2>5, <2>6
  <2>. QED  BY <1>1, <1>4, <1>5, <2>4, <2>5, <2>7, <2>8, MoveKeeps
<1>. QED  BY <1>7, <1>8

LEMMA IdleStep ==
  ASSUME Inv, UNCHANGED <<doc, maxDepth, next, stack, fragDepth, computing, walks>>,
         verdict' \in {"none", "accepted", "refused"}
  PROVE  Inv'
<1>1. Sets' = Sets /\ FrameType' = FrameType /\ Known' = Known
  BY DEF Sets, FrameType, Known
<1>2. TypeOK'
  BY <1>1 DEF Inv, TypeOK
<1>3. SubsReached'
  BY <1>1 DEF Inv, SubsReached, Waits
<1>. QED  BY <1>1, <1>2, <1>3 DEF Inv, WalkedOnce, Distinct, RootsPassed, BodiesKnown

LEMMA InvInit == Init => Inv
<1>. SUFFICES ASSUME Init PROVE Inv
  OBVIOUS
<1>1. stack \in Seq(FrameType) /\ DOMAIN stack = {} /\ DOMAIN fragDepth = {} /\ computing = {}
  BY DEF Init
<1>2. walks \in [Sets -> Nat] /\ \A s \in Sets : walks[s] = 0
  BY DEF Init, Sets
<1>3. TypeOK
  <2>1. IsDocument(doc)
    BY DocumentAssumption DEF Init
  <2>2. Len(doc.ops) \in Nat
    BY <2>1, LenProperties DEF IsDocument
  <2>. QED  BY <1>1, <1>2, <2>2 DEF Init, TypeOK
<1>4. RootsPassed
  BY <1>2, <1>3, DocumentFacts, ElementOfSeq DEF RootsPassed
<1>5. BodiesKnown
  BY <1>2, <1>3, DocumentFacts DEF BodiesKnown, IsDocument, Bodies, Sets
<1>6. SubsReached
  BY <1>2, <1>3, DocumentFacts DEF SubsReached, IsDocument, IsSelection, Sets
<1>. QED  BY <1>1, <1>2, <1>3, <1>4, <1>5, <1>6 DEF Inv, WalkedOnce, Distinct

LEMMA InvStep == Inv /\ [Next]_vars => Inv'
<1>. SUFFICES ASSUME Inv, [Next]_vars PROVE Inv'
  OBVIOUS
<1>1. CASE Accept
  BY <1>1, IdleStep DEF Accept
<1>2. CASE Operation
  BY <1>2, OperationStep
<1>3. CASE Shallow
  BY <1>3, ShallowStep
<1>4. CASE Nested
  BY <1>4, NestedStep
<1>5. CASE Spread
  BY <1>5, SpreadStep
<1>6. CASE Return
  BY <1>6, ReturnStep
<1>7. CASE UNCHANGED vars
  BY <1>7, IdleStep DEF vars, Inv, TypeOK
<1>. QED  BY <1>1, <1>2, <1>3, <1>4, <1>5, <1>6, <1>7 DEF Next

-----------------------------------------------------------------------------
LEMMA InvAlways == Spec => []Inv
<1>1. Init => Inv
  BY InvInit
<1>2. Inv /\ [Next]_vars => Inv'
  BY InvStep
<1>. QED  BY <1>1, <1>2, PTL DEF Spec

\* The scan of checkDepth keeps its types, for every document.
THEOREM ScanTypeCorrect == Spec => []TypeOK
<1>1. Inv => TypeOK
  BY DEF Inv
<1>. QED  BY <1>1, InvAlways, PTL

\* "this makes the whole scan linear in the document size" (server/depth.go): no
\* selection set is entered twice, however fragments spread one another.
THEOREM ScanIsLinear == Spec => []WalkedOnce
<1>1. Inv => WalkedOnce
  BY DEF Inv
<1>. QED  BY <1>1, InvAlways, PTL

-----------------------------------------------------------------------------
(* A function that is defined by recursion exists: F gives a function its  *)
(* next value, and looks at x only at what is below x.                     *)

Founded(D, Lower) ==
  /\ Lower \in [D -> SUBSET D]
  /\ \A S \in SUBSET D : S # {} => \E x \in S : Lower[x] \cap S = {}
LooksUnder(F, D, V, Lower) ==
  /\ F \in [[D -> V] -> [D -> V]]
  /\ \A g, h \in [D -> V] : \A x \in D : (\A y \in Lower[x] : g[y] = h[y]) => F[g][x] = F[h][x]

LEMMA Recursion ==
  ASSUME NEW D, NEW V, NEW v \in V, NEW Lower, Founded(D, Lower), NEW F, LooksUnder(F, D, V, Lower)
  PROVE  \E h \in [D -> V] : F[h] = h
<1>a. Lower \in [D -> SUBSET D] /\ F \in [[D -> V] -> [D -> V]]
  BY DEF Founded, LooksUnder
<1>b. \A S \in SUBSET D : S # {} => \E x \in S : Lower[x] \cap S = {}
  BY DEF Founded
<1>c. \A g, h \in [D -> V] : \A x \in D : (\A y \in Lower[x] : g[y] = h[y]) => F[g][x] = F[h][x]
  BY DEF LooksUnder
<1>. DEFINE Solves(h, C) == \A x \in C : Lower[x] \subseteq C /\ F[h][x] = h[x]
            Solved(x, n) == \E C \in SUBSET D : \E h \in [D -> V] : x \in C /\ Solves(h, C) /\ h[x] = n
            Good == {x \in D : \E n : Solved(x, n)}
            g == [x \in D |-> IF x \in Good THEN CHOOSE n : Solved(x, n) ELSE v]
<1>1. ASSUME NEW B \in SUBSET D, NEW C \in SUBSET D, NEW k \in [D -> V], NEW h \in [D -> V],
             Solves(k, B), Solves(h, C)
      PROVE  \A x \in B \cap C : k[x] = h[x]
  <2>. DEFINE S == {x \in B \cap C : k[x] # h[x]}
  <2>1. SUFFICES ASSUME S # {} PROVE FALSE
    OBVIOUS
  <2>2. PICK x \in S : Lower[x] \cap S = {}
    BY <2>1, <1>b
  <2>a. x \in B /\ x \in C /\ x \in D /\ k[x] # h[x]
    OBVIOUS
  <2>b. Lower[x] \subseteq B \cap C /\ F[k][x] = k[x] /\ F[h][x] = h[x]
    BY <1>1, <2>a
  <2>3. \A y \in Lower[x] : k[y] = h[y]
    BY <2>2, <2>b, <1>a
  <2>4. F[k][x] = F[h][x]
    BY <2>3, <2>a, <1>c
  <2>. QED  BY <2>a, <2>b, <2>4
<1>2. ASSUME NEW C \in SUBSET D, NEW h \in [D -> V], Solves(h, C), NEW x \in C
      PROVE  x \in Good /\ g[x] = h[x]
  <2>1. Solved(x, h[x])
    BY <1>2
  <2>2. \A n : Solved(x, n) => n = h[x]
    BY <1>1, <1>2
  <2>. QED  BY <2>1, <2>2
<1>3. g \in [D -> V]
  <2>. SUFFICES ASSUME NEW x \in Good PROVE g[x] \in V
    OBVIOUS
  <2>1. PICK C \in SUBSET D, h \in [D -> V] : x \in C /\ Solves(h, C)
    OBVIOUS
  <2>. HIDE DEF Solves, Good, g
  <2>2. g[x] = h[x]
    BY <1>2, <2>1
  <2>. QED  BY <2>1, <2>2
<1>. HIDE DEF g
<1>4. Solves(g, Good)
  <2>. SUFFICES ASSUME NEW x \in Good PROVE Lower[x] \subseteq Good /\ F[g][x] = g[x]
    OBVIOUS
  <2>1. PICK C \in SUBSET D, h \in [D -> V] : x \in C /\ Solves(h, C)
    OBVIOUS
  <2>. HIDE DEF Solves, Good
  <2>2. \A y \in C : y \in Good /\ g[y] = h[y]
    BY <1>2, <2>1
  <2>3. Lower[x] \subseteq C /\ F[h][x] = h[x]
    BY <2>1 DEF Solves
  <2>4. F[g][x] = F[h][x]
    BY <1>3, <1>a, <1>c, <2>1, <2>2, <2>3
  <2>. QED  BY <2>1, <2>2, <2>3, <2>4
<1>5. Good = D
  <2>1. SUFFICES ASSUME D \ Good # {} PROVE FALSE
    OBVIOUS
  <2>a. Good \subseteq D
    OBVIOUS
  <2>2. PICK x \in D \ Good : Lower[x] \cap (D \ Good) = {}
    <3>. HIDE DEF Good
    <3>. QED  BY <2>1, <1>b
  <2>. DEFINE C == Good \cup {x}
              h == [g EXCEPT ![x] = F[g][x]]
  <2>3. h \in [D -> V] /\ h[x] = F[g][x] /\ \A y \in Good : h[y] = g[y]
    <3>. HIDE DEF Good
    <3>. QED  BY <1>3, <1>a, <2>2, <2>a
  <2>4. \A y \in C : Lower[y] \subseteq Good
    <3>. HIDE DEF Good
    <3>. QED  BY <1>4, <1>a, <2>2, <2>a
  <2>5. \A y \in C : F[h][y] = F[g][y]
    <3>. HIDE DEF Good, h
    <3>. QED  BY <1>3, <1>a, <1>c, <2>2, <2>3, <2>4, <2>a
  <2>6. Solves(h, C)
    <3>. HIDE DEF Good, h
    <3>. QED  BY <1>4, <2>2, <2>3, <2>4, <2>5
  <2>7. x \in Good
    <3>1. C \in SUBSET D /\ x \in C
      BY <2>a
    <3>. HIDE DEF h, C, Solves, Good
    <3>. QED  BY <1>2, <2>3, <2>6, <3>1
  <2>. QED  BY <2>2, <2>7
<1>6. \A x \in D : F[g][x] = g[x]
  <2>. HIDE DEF Good
  <2>. QED  BY <1>4, <1>5
<1>7. F[g] = g
  <2>. HIDE DEF Good
  <2>1. F[g] \in [D -> V]
    BY <1>3, <1>a
  <2>. QED  BY <1>3, <1>6, <2>1
<1>. QED  BY <1>3, <1>7

-----------------------------------------------------------------------------
(* The depth of a selection set is well defined where there is no cycle.   *)
(* That a set of data has a least element takes the place of induction.    *)

LEMMA LeastSet ==
  ASSUME NEW S, IsFiniteSet(S), NEW C, C # {}, \A V \in C : V \subseteq S
  PROVE  \E U \in C : \A V \in C : V \subseteq U => V = U
<1>1. C \subseteq FiniteSubsetsOf(S)
  BY FS_Subset DEF FiniteSubsetsOf
<1>2. PICK U \in C : \A V \in C : ~(<<V, U>> \in StrictSubsetOrdering(S))
  BY <1>1, FS_StrictSubsetOrderingWellFounded, WFMin
<1>3. ASSUME NEW V \in C, V \subseteq U, V # U PROVE FALSE
  <2>1. <<V, U>> \in (SUBSET S) \X (SUBSET S)
    OBVIOUS
  <2>. QED  BY <1>2, <1>3, <2>1 DEF StrictSubsetOrdering
<1>. QED  BY <1>3

\* A finite set of integers has a greatest element.
LEMMA Greatest ==
  ASSUME NEW S \in SUBSET Int, IsFiniteSet(S), S # {}
  PROVE  Max(S) \in S /\ \A x \in S : Max(S) >= x
<1>. DEFINE Bound(U) == \E m \in U : \A x \in U : m >= x
            C == {U \in SUBSET S : U # {} /\ ~Bound(U)}
<1>1. SUFFICES ASSUME C # {} PROVE FALSE
  BY DEF Max
<1>2. PICK U \in C : \A V \in C : V \subseteq U => V = U
  <2>1. \A V \in C : V \subseteq S
    OBVIOUS
  <2>. HIDE DEF C
  <2>. QED  BY <1>1, <2>1, LeastSet
<1>3. PICK x \in U : TRUE
  OBVIOUS
<1>4. U \ {x} \notin C
  BY <1>2
<1>5. CASE U \ {x} = {}
  BY <1>5, <1>2
<1>6. CASE Bound(U \ {x})
  <2>1. PICK m \in U \ {x} : \A y \in U \ {x} : m >= y
    BY <1>6
  <2>2. CASE x >= m
    BY <1>2, <2>1, <2>2
  <2>3. CASE m > x
    BY <1>2, <2>1, <2>3
  <2>. QED  BY <1>2, <2>1, <2>2, <2>3
<1>. QED  BY <1>4, <1>5, <1>6

UnderIn(h, sel) ==
  (IF sel.kind = "field" THEN 1 ELSE 0) + (IF Target(sel) = None THEN 0 ELSE h[Target(sel)])
LevelsIn(h, s) == {0} \cup {UnderIn(h, sel) : sel \in ToSet(doc.sets[s])}
DepthIn(h, s) == Max(LevelsIn(h, s))

\* h measures the sets of C, which nothing leads out of.
Solves(h, C) == \A s \in C : Targets(s) \subseteq C /\ h[s] = DepthIn(h, s)
Measures(h, C) == h \in [C -> Nat] /\ Solves(h, C)

LEMMA TargetFacts ==
  ASSUME TypeOK, NEW s \in Sets
  PROVE  /\ Targets(s) \subseteq Sets
         /\ \A sel \in ToSet(doc.sets[s]) : Target(sel) \in Targets(s) \cup {None}
<1>1. ASSUME NEW sel \in ToSet(doc.sets[s]) PROVE Target(sel) \in Sets \cup {None}
  <2>1. IsSelection(doc, sel)
    BY <1>1, DocumentFacts DEF ToSet, IsDocument, Sets
  <2>2. Bodies(doc) \subseteq Sets
    BY DocumentFacts DEF IsDocument, Sets
  <2>. QED  BY <2>1, <2>2 DEF IsSelection, Target, Bodies, Sets
<1>. QED  BY <1>1 DEF Targets

LEMMA SameDepth ==
  ASSUME TypeOK, NEW s \in Sets, NEW g, NEW h, \A t \in Targets(s) : g[t] = h[t]
  PROVE  DepthIn(g, s) = DepthIn(h, s)
<1>1. \A sel \in ToSet(doc.sets[s]) : UnderIn(g, sel) = UnderIn(h, sel)
  BY TargetFacts DEF UnderIn
<1>. QED  BY <1>1 DEF DepthIn, LevelsIn

LEMMA DepthFacts ==
  ASSUME TypeOK, NEW s \in Sets, NEW h, \A t \in Targets(s) : h[t] \in Nat
  PROVE  /\ DepthIn(h, s) \in LevelsIn(h, s)
         /\ DepthIn(h, s) \in Nat
         /\ \A x \in LevelsIn(h, s) : x \in Nat /\ DepthIn(h, s) >= x
<1>. DEFINE q == doc.sets[s]
            S == {UnderIn(h, sel) : sel \in ToSet(q)}
            f == [i \in 1 .. Len(q) |-> UnderIn(h, q[i])]
<1>1. Len(q) \in Nat /\ DOMAIN q = 1 .. Len(q)
  BY DocumentFacts
<1>2. f \in Surjection(1 .. Len(q), S)
  BY <1>1 DEF Surjection, ToSet
<1>3. IsFiniteSet(S)
  BY <1>1, <1>2, FS_Interval, FS_Surjection
<1>4. IsFiniteSet(LevelsIn(h, s))
  <2>1. IsFiniteSet(S \cup {0})
    BY <1>3, FS_AddElement
  <2>2. LevelsIn(h, s) = S \cup {0}
    BY DEF LevelsIn
  <2>. QED  BY <2>1, <2>2
<1>5. LevelsIn(h, s) \subseteq Nat
  <2>1. \A sel \in ToSet(q) : Target(sel) # None => h[Target(sel)] \in Nat
    BY TargetFacts
  <2>2. \A sel \in ToSet(q) : UnderIn(h, sel) \in Nat
    BY <2>1 DEF UnderIn
  <2>. QED  BY <2>2 DEF LevelsIn
<1>6. LevelsIn(h, s) # {}
  BY DEF LevelsIn
<1>. QED  BY <1>4, <1>5, <1>6, Greatest DEF DepthIn

\* What a set leads to.
Leads == [s \in Sets |-> Targets(s)]

LEMMA LeadsFounded == ASSUME TypeOK, Acyclic PROVE Founded(Sets, Leads)
BY TargetFacts DEF Founded, Leads, Acyclic, Cycles

\* Depth is the function that its definition says.
LEMMA DepthUnfolds ==
  ASSUME TypeOK, Acyclic
  PROVE  Measures(Depth, Sets)
<1>. DEFINE F == [h \in [Sets -> Nat] |-> [s \in Sets |-> DepthIn(h, s)]]
<1>1. F \in [[Sets -> Nat] -> [Sets -> Nat]]
  <2>1. \A s \in Sets : Targets(s) \subseteq Sets
    BY TargetFacts
  <2>2. \A h \in [Sets -> Nat] : \A s \in Sets : DepthIn(h, s) \in Nat
    BY <2>1, DepthFacts
  <2>. QED  BY <2>2
<1>2. LooksUnder(F, Sets, Nat, Leads)
  <2>1. ASSUME NEW g \in [Sets -> Nat], NEW h \in [Sets -> Nat], NEW s \in Sets,
               \A t \in Leads[s] : g[t] = h[t]
        PROVE  F[g][s] = F[h][s]
    <3>1. DepthIn(g, s) = DepthIn(h, s)
      BY <2>1, SameDepth DEF Leads
    <3>. QED  BY <3>1
  <2>. HIDE DEF F
  <2>. QED  BY <1>1, <2>1 DEF LooksUnder
<1>3. \E h \in [Sets -> Nat] : F[h] = h
  <2>. HIDE DEF F
  <2>. QED  BY <1>2, LeadsFounded, Recursion, 0 \in Nat
<1>4. PICK h \in [Sets -> Nat] : h = [s \in Sets |-> DepthIn(h, s)]
  BY <1>3
<1>5. Depth = CHOOSE d : d = [s \in Sets |-> DepthIn(d, s)]
  BY DEF Depth, DepthIn, LevelsIn, UnderIn
<1>6. Depth = [s \in Sets |-> DepthIn(Depth, s)]
  BY <1>4, <1>5
<1>7. \A s \in Sets : Depth[s] \in Nat
  <2>. DEFINE S == {s \in Sets : Depth[s] \notin Nat}
  <2>1. SUFFICES ASSUME S # {} PROVE FALSE
    OBVIOUS
  <2>2. PICK s \in S : Targets(s) \cap S = {}
    BY <2>1 DEF Acyclic, Cycles
  <2>3. \A t \in Targets(s) : Depth[t] \in Nat
    BY <2>2, TargetFacts
  <2>4. DepthIn(Depth, s) \in Nat
    BY <2>3, DepthFacts
  <2>. QED  BY <1>6, <2>4
<1>. QED  BY <1>6, <1>7, TargetFacts DEF Measures, Solves

-----------------------------------------------------------------------------
(* What the scan knows, in a document without a cycle.                     *)

Under(sel) == UnderIn(Depth, sel)
Selections(s) == doc.sets[s]

\* best is the deepest of the selections that the frame has passed.
Partial(frame) ==
  LET q == Selections(frame.set)
  IN  /\ frame.at <= Len(q) + 1
      /\ \A i \in 1 .. frame.at - 1 : Under(q[i]) <= frame.best
      /\ frame.best = 0 \/ \E i \in 1 .. frame.at - 1 : Under(q[i]) = frame.best

\* A frame waits for the one above it at the selection that leads there.
Calls(frame, above) ==
  LET q == Selections(frame.set)
      sel == q[frame.at]
  IN  /\ frame.at \in DOMAIN q
      /\ Target(sel) = above.set
      /\ above.adds = IF sel.kind = "field" THEN 1 ELSE 0

Memo == \A f \in DOMAIN fragDepth : fragDepth[f] = Depth[doc.frags[f]]
Frames ==
  /\ \A j \in DOMAIN stack : Partial(stack[j])
  /\ \A j \in DOMAIN stack : stack[j].frag # None => stack[j].set = doc.frags[stack[j].frag]
  /\ \A j \in 1 .. Len(stack) - 1 : Calls(stack[j], stack[j + 1])
Marks == \A f \in computing : \E j \in DOMAIN stack : stack[j].frag = f
Current ==
  stack # <<>> => /\ next - 1 \in DOMAIN doc.ops /\ stack[1].set = doc.ops[next - 1]
                  /\ verdict = "none" /\ maxDepth >= 0

Judged ==
  /\ verdict = "none" =>
       \A k \in DOMAIN doc.ops : k < next /\ (stack # <<>> => k < next - 1) => ~TooDeep(k)
  /\ verdict = "accepted" => maxDepth < 0 \/ \A k \in DOMAIN doc.ops : ~TooDeep(k)
  /\ verdict = "refused" => maxDepth >= 0 /\ \E k \in DOMAIN doc.ops : TooDeep(k)

Measured == Memo /\ Frames /\ Marks /\ Current /\ Judged
DepthInv == Inv /\ (Acyclic => Measured)

LEMMA SameDocument ==
  ASSUME doc' = doc
  PROVE  /\ Depth' = Depth /\ Acyclic' = Acyclic /\ Sets' = Sets
         /\ \A sel : Under(sel)' = Under(sel) /\ Target(sel)' = Target(sel)
<1>1. \A sel : Target(sel)' = Target(sel)
  BY DEF Target
<1>2. \A s : Targets(s)' = Targets(s)
  BY <1>1 DEF Targets
<1>3. Acyclic' = Acyclic /\ Sets' = Sets
  BY <1>2 DEF Acyclic, Cycles, Sets
<1>4. Depth' = Depth
  BY <1>1 DEF Depth, Sets, Target
<1>. QED  BY <1>1, <1>3, <1>4 DEF Under, UnderIn

LEMMA SameFrames ==
  ASSUME doc' = doc
  PROVE  /\ \A frame : Partial(frame)' = Partial(frame)
         /\ \A frame, above : Calls(frame, above)' = Calls(frame, above)
BY SameDocument DEF Partial, Calls, Selections

LEMMA FrameFacts ==
  ASSUME TypeOK, NEW frame \in FrameType
  PROVE  /\ frame.set \in Sets /\ frame.at \in Nat \ {0} /\ frame.best \in Nat /\ frame.adds \in {0, 1}
         /\ Len(Selections(frame.set)) \in Nat
         /\ DOMAIN Selections(frame.set) = 1 .. Len(Selections(frame.set))
BY DocumentFacts DEF FrameType, Selections

LEMMA UnderFacts ==
  ASSUME TypeOK, Acyclic, NEW s \in Sets, NEW i \in DOMAIN Selections(s)
  PROVE  Under(Selections(s)[i]) \in Nat /\ Depth[s] \in Nat /\ Depth[s] >= Under(Selections(s)[i])
<1>1. Measures(Depth, Sets)
  BY DepthUnfolds
<1>2. \A t \in Targets(s) : Depth[t] \in Nat
  BY <1>1, TargetFacts DEF Measures
<1>3. Under(Selections(s)[i]) \in LevelsIn(Depth, s)
  BY DEF LevelsIn, Under, Selections, ToSet
<1>. QED  BY <1>1, <1>2, <1>3, DepthFacts DEF Measures, Solves

LEMMA PartialNew ==
  ASSUME TypeOK, NEW s \in Sets, NEW adds, NEW frag
  PROVE  Partial(Frame(s, adds, frag))
<1>1. Len(Selections(s)) \in Nat
  BY DocumentFacts DEF Selections
<1>. QED  BY <1>1 DEF Partial, Frame

LEMMA PartialPast ==
  ASSUME TypeOK, Acyclic, NEW frame \in FrameType, Partial(frame),
         frame.at \in DOMAIN Selections(frame.set)
  PROVE  Partial(Past(frame, Under(Selections(frame.set)[frame.at])))
<1>. DEFINE q == Selections(frame.set)
            d == Under(q[frame.at])
            e == Past(frame, d)
<1>1. frame.set \in Sets /\ frame.at \in Nat \ {0} /\ frame.best \in Nat /\ Len(q) \in Nat /\ DOMAIN q = 1 .. Len(q)
      /\ frame.at \in DOMAIN q
  BY FrameFacts
<1>2. d \in Nat /\ \A i \in DOMAIN q : Under(q[i]) \in Nat
  BY <1>1, UnderFacts
<1>3. e.set = frame.set /\ e.at = frame.at + 1 /\ e.best = Larger(frame.best, d)
  BY DEF Past, FrameType
<1>4. /\ \A i \in 1 .. frame.at - 1 : Under(q[i]) <= frame.best
      /\ frame.best = 0 \/ \E i \in 1 .. frame.at - 1 : Under(q[i]) = frame.best
  BY DEF Partial
<1>5. e.best \in Nat /\ e.best >= d /\ e.best >= frame.best /\ e.best \in {d, frame.best}
  BY <1>1, <1>2, <1>3 DEF Larger
<1>. HIDE DEF q, e
<1>6. \A i \in 1 .. e.at - 1 : Under(q[i]) <= e.best
  <2>. SUFFICES ASSUME NEW i \in 1 .. e.at - 1 PROVE Under(q[i]) <= e.best
    OBVIOUS
  <2>1. CASE i = frame.at
    BY <2>1, <1>5
  <2>2. CASE i # frame.at
    <3>1. i \in 1 .. frame.at - 1 /\ i \in DOMAIN q
      BY <1>1, <1>3, <2>2
    <3>2. Under(q[i]) <= frame.best /\ Under(q[i]) \in Nat
      BY <1>2, <1>4, <3>1
    <3>. QED  BY <1>1, <1>5, <3>2
  <2>. QED  BY <2>1, <2>2
<1>7. e.best = 0 \/ \E i \in 1 .. e.at - 1 : Under(q[i]) = e.best
  <2>1. CASE e.best = d
    <3>1. frame.at \in 1 .. e.at - 1
      BY <1>1, <1>3
    <3>. QED  BY <2>1, <3>1
  <2>2. CASE e.best = frame.best /\ frame.best # 0
    <3>1. PICK i \in 1 .. frame.at - 1 : Under(q[i]) = frame.best
      BY <1>4, <2>2
    <3>2. i \in 1 .. e.at - 1
      BY <1>1, <1>3
    <3>. QED  BY <2>2, <3>1, <3>2
  <2>. QED  BY <1>5, <2>1, <2>2
<1>8. e.at <= Len(q) + 1
  BY <1>1, <1>3 DEF q
<1>. QED  BY <1>3, <1>6, <1>7, <1>8 DEF Partial, q, e

LEMMA PartialWhole ==
  ASSUME TypeOK, Acyclic, NEW frame \in FrameType, Partial(frame),
         frame.at > Len(Selections(frame.set))
  PROVE  frame.best = Depth[frame.set]
<1>. DEFINE s == frame.set
            q == Selections(s)
<1>1. s \in Sets /\ frame.at \in Nat \ {0} /\ frame.best \in Nat /\ Len(q) \in Nat /\ DOMAIN q = 1 .. Len(q)
  BY FrameFacts
<1>2. frame.at - 1 = Len(q)
  BY <1>1 DEF Partial
<1>3. \A i \in 1 .. Len(q) : Under(q[i]) <= frame.best
  BY <1>1, <1>2 DEF Partial
<1>4. frame.best = 0 \/ \E i \in 1 .. Len(q) : Under(q[i]) = frame.best
  BY <1>1, <1>2 DEF Partial
<1>5. Measures(Depth, Sets)
  BY DepthUnfolds
<1>6. Depth[s] \in Nat /\ Depth[s] \in LevelsIn(Depth, s)
  BY <1>1, <1>5, DepthFacts, TargetFacts DEF Measures, Solves
<1>7. Depth[s] = 0 \/ \E i \in 1 .. Len(q) : Depth[s] = Under(q[i])
  BY <1>1, <1>6 DEF LevelsIn, ToSet, Under, Selections
<1>8. \A i \in 1 .. Len(q) : Under(q[i]) \in Nat /\ Depth[s] >= Under(q[i])
  BY <1>1, UnderFacts
<1>. HIDE DEF q, s
<1>9. Depth[s] <= frame.best
  BY <1>1, <1>3, <1>6, <1>7, <1>8
<1>10. frame.best <= Depth[s]
  BY <1>1, <1>4, <1>6, <1>8
<1>. QED  BY <1>1, <1>6, <1>9, <1>10 DEF s

-----------------------------------------------------------------------------
(* The steps.                                                              *)

LEMMA CalledUnder ==
  ASSUME TypeOK, Acyclic, NEW frame \in FrameType, NEW above \in FrameType, Calls(frame, above)
  PROVE  Under(Selections(frame.set)[frame.at]) = above.adds + Depth[above.set]
<1>1. above.set # None
  BY FrameFacts, DocumentFacts
<1>. QED  BY <1>1 DEF Calls, Under, UnderIn

\* The top of the stack is the operation's own frame, or is called.
LEMMA PushMeasured ==
  ASSUME DepthInv, Acyclic, Measured,
         NEW s \in Sets, NEW adds \in {0, 1}, NEW frag \in DOMAIN doc.frags \cup {None},
         Enter(s, adds, frag),
         UNCHANGED <<doc, maxDepth, fragDepth, verdict>>,
         frag # None => s = doc.frags[frag],
         computing' \subseteq computing \cup ({frag} \ {None}),
         stack # <<>> => Calls(Top, Frame(s, adds, frag)) /\ next' = next,
         stack = <<>> => /\ next' = next + 1 /\ next \in DOMAIN doc.ops /\ s = doc.ops[next]
                         /\ verdict = "none" /\ maxDepth >= 0
  PROVE  Measured'
<1>. DEFINE new == Frame(s, adds, frag)
            n == Len(stack)
<1>1. new \in FrameType /\ new.set = s /\ new.frag = frag
  BY DEF FrameType, Frame
<1>2. /\ stack \in Seq(FrameType) /\ n \in Nat /\ DOMAIN stack = 1 .. n
      /\ TypeOK
  BY StackFacts DEF DepthInv, Inv
<1>3. /\ stack' \in Seq(FrameType) /\ Len(stack') = n + 1
      /\ DOMAIN stack' = 1 .. n + 1
      /\ \A j \in 1 .. n : stack'[j] = stack[j]
      /\ stack'[n + 1] = new
  BY <1>1, <1>2, AppendProperties, LenProperties DEF Enter
<1>4. Partial(new)
  BY <1>2, PartialNew
<1>5. stack # <<>> => n \in 1 .. n /\ Calls(stack[n], new)
  BY <1>2, StackFacts DEF Top
<1>. HIDE DEF new, n
<1>6. Memo'
  BY SameDocument DEF Memo, Measured
<1>7. Frames'
  <2>1. \A j \in 1 .. n + 1 : Partial(stack'[j])
    BY <1>2, <1>3, <1>4 DEF Measured, Frames
  <2>2. \A j \in 1 .. n + 1 : stack'[j].frag # None => stack'[j].set = doc.frags[stack'[j].frag]
    BY <1>1, <1>2, <1>3 DEF Measured, Frames
  <2>3. \A j \in 1 .. n : Calls(stack'[j], stack'[j + 1])
    <3>. SUFFICES ASSUME NEW j \in 1 .. n PROVE Calls(stack'[j], stack'[j + 1])
      OBVIOUS
    <3>1. CASE j = n
      BY <1>2, <1>3, <1>5, <3>1, EmptySeq, LenProperties
    <3>2. CASE j # n
      <4>1. j \in 1 .. n - 1 /\ j + 1 \in 1 .. n
        BY <1>2, <3>2
      <4>2. Calls(stack[j], stack[j + 1])
        BY <4>1 DEF Measured, Frames, n
      <4>. QED  BY <1>3, <4>1, <4>2
    <3>. QED  BY <3>1, <3>2
  <2>4. Len(stack') - 1 = n
    BY <1>2, <1>3
  <2>. QED  BY <1>3, <2>1, <2>2, <2>3, <2>4, SameFrames DEF Frames
<1>8. Marks'
  <2>. SUFFICES ASSUME NEW f \in computing' PROVE \E j \in DOMAIN stack' : stack'[j].frag = f
    BY DEF Marks
  <2>1. CASE f \in computing
    <3>1. PICK j \in 1 .. n : stack[j].frag = f
      BY <1>2, <2>1 DEF Measured, Marks
    <3>. QED  BY <1>2, <1>3, <3>1
  <2>2. CASE f = frag
    <3>1. n + 1 \in DOMAIN stack'
      BY <1>2, <1>3
    <3>. QED  BY <1>1, <1>3, <2>2, <3>1
  <2>. QED  BY <2>1, <2>2
<1>9. next \in Nat
  BY <1>2 DEF TypeOK
<1>10. Current'
  <2>1. CASE stack = <<>>
    <3>1. n = 0 /\ stack'[1] = new /\ next' - 1 = next
      BY <1>3, <1>9, <2>1 DEF n
    <3>. QED  BY <1>1, <2>1, <3>1 DEF Current
  <2>2. CASE stack # <<>>
    <3>1. stack'[1] = stack[1]
      BY <1>2, <1>3, <1>5, <2>2
    <3>. QED  BY <2>2, <3>1 DEF Current, Measured
  <2>. QED  BY <2>1, <2>2
<1>11. Judged'
  <2>1. stack' # <<>>
    BY <1>2, <1>3
  <2>2. \A k : TooDeep(k)' = TooDeep(k)
    BY SameDocument DEF TooDeep
  <2>3. \A k \in DOMAIN doc.ops : k \in Nat
    BY <1>2, DocumentFacts
  <2>4. verdict = "none" => \A k \in DOMAIN doc.ops : k < next' - 1 => ~TooDeep(k)
    BY <1>9, <2>3 DEF Judged, Measured
  <2>. QED  BY <2>1, <2>2, <2>4 DEF Judged, Measured
<1>. QED  BY <1>6, <1>7, <1>8, <1>10, <1>11 DEF Measured

\* The n-th frame takes what is under its selection; what was above it is gone.
LEMMA MoveMeasured ==
  ASSUME DepthInv, Acyclic, Measured,
         NEW n \in DOMAIN stack,
         stack[n].at \in DOMAIN Selections(stack[n].set),
         stack' \in Seq(FrameType), Len(stack') = n,
         \A j \in 1 .. n - 1 : stack'[j] = stack[j],
         stack'[n] = Past(stack[n], Under(Selections(stack[n].set)[stack[n].at])),
         UNCHANGED <<doc, maxDepth, next, verdict>>
  PROVE  Frames' /\ Current' /\ Judged'
<1>. DEFINE e == stack'[n]
<1>1. /\ stack \in Seq(FrameType) /\ DOMAIN stack = 1 .. Len(stack) /\ Len(stack) \in Nat
      /\ DOMAIN stack' = 1 .. n /\ TypeOK /\ n \in Nat
  BY StackFacts, LenProperties DEF DepthInv, Inv
<1>2. stack[n] \in FrameType /\ stack # <<>> /\ stack' # <<>>
  BY <1>1, ElementOfSeq
<1>3. Partial(e) /\ e.set = stack[n].set /\ e.adds = stack[n].adds /\ e.frag = stack[n].frag
  BY <1>1, <1>2, PartialPast DEF Past, FrameType, Measured, Frames
<1>4. \A j \in 1 .. n : /\ stack'[j].set = stack[j].set /\ stack'[j].adds = stack[j].adds
                        /\ stack'[j].frag = stack[j].frag /\ Partial(stack'[j])
  <2>. SUFFICES ASSUME NEW j \in 1 .. n
                PROVE  /\ stack'[j].set = stack[j].set /\ stack'[j].adds = stack[j].adds
                       /\ stack'[j].frag = stack[j].frag /\ Partial(stack'[j])
    OBVIOUS
  <2>1. CASE j = n
    BY <1>3, <2>1
  <2>2. CASE j # n
    <3>1. j \in 1 .. n - 1 /\ j \in DOMAIN stack
      BY <1>1, <2>2
    <3>. QED  BY <3>1 DEF Measured, Frames
  <2>. QED  BY <2>1, <2>2
<1>5. \A j \in 1 .. n - 1 : Calls(stack'[j], stack'[j + 1])
  <2>. SUFFICES ASSUME NEW j \in 1 .. n - 1 PROVE Calls(stack'[j], stack'[j + 1])
    OBVIOUS
  <2>1. j \in 1 .. Len(stack) - 1 /\ j + 1 \in 1 .. n
    BY <1>1
  <2>2. Calls(stack[j], stack[j + 1])
    BY <2>1 DEF Measured, Frames
  <2>3. stack'[j + 1].set = stack[j + 1].set /\ stack'[j + 1].adds = stack[j + 1].adds /\ stack'[j] = stack[j]
    BY <1>4, <2>1
  <2>. QED  BY <2>2, <2>3 DEF Calls
<1>6. \A j \in 1 .. n : stack'[j].frag # None => stack'[j].set = doc.frags[stack'[j].frag]
  <2>. SUFFICES ASSUME NEW j \in 1 .. n, stack'[j].frag # None PROVE stack'[j].set = doc.frags[stack'[j].frag]
    OBVIOUS
  <2>1. j \in DOMAIN stack /\ stack'[j].set = stack[j].set /\ stack'[j].frag = stack[j].frag
    BY <1>1, <1>4
  <2>. QED  BY <2>1 DEF Measured, Frames
<1>7. Frames'
  BY <1>1, <1>4, <1>5, <1>6, SameFrames DEF Frames
<1>8. Current'
  <2>1. 1 \in 1 .. n
    BY <1>1
  <2>. QED  BY <1>2, <1>4, <2>1 DEF Current, Measured
<1>9. Judged'
  BY <1>2, SameDocument DEF Judged, Measured, TooDeep
<1>. QED  BY <1>7, <1>8, <1>9

\* A fragment that is marked is on the stack: a spread of it closes a cycle.
LEMMA MarksAreCycles ==
  ASSUME DepthInv, Acyclic, Measured, Visiting, Selection.kind = "spread"
  PROVE  Selection.name \notin computing
<1>. SUFFICES ASSUME Selection.name \in computing PROVE FALSE
  OBVIOUS
<1>1. /\ TypeOK /\ stack \in Seq(FrameType) /\ DOMAIN stack = 1 .. Len(stack) /\ Len(stack) \in Nat
      /\ stack # <<>> /\ Len(stack) > 0 /\ None \notin Sets
  BY StackFacts, DocumentFacts DEF DepthInv, Inv, Visiting
<1>2. PICK m \in DOMAIN stack : stack[m].frag = Selection.name
  BY DEF Measured, Marks
<1>3. Selection.name \in DOMAIN doc.frags /\ None \notin DOMAIN doc.frags
  BY DocumentFacts, DocumentAssumption DEF DepthInv, Inv, TypeOK, IsDocument
<1>4. stack[m].set = Target(Selection)
  BY <1>2, <1>3 DEF Measured, Frames, Target
<1>a. m \in 1 .. Len(stack) /\ m \in Nat
  BY <1>1, <1>2
<1>. DEFINE S == {stack[j].set : j \in m .. Len(stack)}
<1>5. \A j \in DOMAIN stack : stack[j].set \in Sets
  <2>. SUFFICES ASSUME NEW j \in DOMAIN stack PROVE stack[j].set \in Sets
    OBVIOUS
  <2>1. stack[j] \in FrameType
    BY <1>1, ElementOfSeq
  <2>. QED  BY <2>1 DEF FrameType
<1>6. S \in SUBSET Sets /\ S # {}
  BY <1>1, <1>5
<1>7. \A j \in m .. Len(stack) : Targets(stack[j].set) \cap S # {}
  <2>. SUFFICES ASSUME NEW j \in m .. Len(stack) PROVE Targets(stack[j].set) \cap S # {}
    OBVIOUS
  <2>1. CASE j = Len(stack)
    <3>1. Target(Selection) \in Targets(stack[j].set)
      BY <1>1, <1>2, <1>4, <1>5, <2>1, SelectionFacts DEF Targets, Selection, Top, ToSet
    <3>. QED  BY <1>1, <1>4, <3>1
  <2>2. CASE j # Len(stack)
    <3>1. j \in 1 .. Len(stack) - 1 /\ j \in DOMAIN stack /\ j + 1 \in DOMAIN stack /\ j + 1 \in m .. Len(stack)
      <4>. DEFINE n == Len(stack)
      <4>1. n \in Nat /\ m \in 1 .. n /\ j \in m .. n /\ j # n /\ DOMAIN stack = 1 .. n
        BY <1>1, <1>a, <2>2
      <4>. HIDE DEF S, n
      <4>2. j \in 1 .. n - 1 /\ j \in 1 .. n /\ j + 1 \in 1 .. n /\ j + 1 \in m .. n
        BY <4>1
      <4>. QED  BY <4>1, <4>2 DEF n
    <3>2. Calls(stack[j], stack[j + 1])
      BY <3>1 DEF Measured, Frames
    <3>3. stack[j + 1].set \in Targets(stack[j].set)
      BY <1>1, <1>5, <3>1, <3>2 DEF Calls, Targets, Selections, ToSet
    <3>. QED  BY <3>1, <3>3
  <2>. QED  BY <2>1, <2>2
<1>8. \A s \in S : Targets(s) \cap S # {}
  BY <1>7
<1>. HIDE DEF S
<1>. QED  BY <1>6, <1>8 DEF Acyclic, Cycles

LEMMA OperationMeasured == ASSUME DepthInv, Acyclic, Measured, Operation PROVE Measured'
<1>1. /\ next \in DOMAIN doc.ops /\ doc.ops[next] \in Sets /\ stack = <<>>
      /\ Enter(doc.ops[next], 0, None) /\ next' = next + 1 /\ maxDepth >= 0 /\ verdict = "none"
      /\ UNCHANGED <<doc, maxDepth, fragDepth, computing, verdict>>
  <2>1. TypeOK /\ next \in Nat \ {0} /\ next <= Len(doc.ops)
    BY DocumentFacts DEF DepthInv, Inv, TypeOK, Operation
  <2>2. next \in DOMAIN doc.ops /\ doc.ops[next] \in Sets
    BY <2>1, DocumentFacts, ElementOfSeq
  <2>3. maxDepth >= 0
    BY <2>1, DocumentAssumption DEF Operation, TypeOK
  <2>. QED  BY <2>2, <2>3 DEF Operation
<1>. QED  BY <1>1, PushMeasured

LEMMA NestedMeasured == ASSUME DepthInv, Acyclic, Measured, Nested PROVE Measured'
<1>1. TypeOK /\ Visiting /\ stack # <<>>
  BY DEF DepthInv, Inv, Nested, Visiting
<1>2. /\ Top.at \in DOMAIN doc.sets[Top.set]
      /\ Selection.sub \in Sets /\ Adds(Selection) \in {0, 1}
      /\ Target(Selection) = Selection.sub
  BY <1>1, SelectionFacts DEF Nested, Adds, Target, IsSelection, Sets
<1>3. Calls(Top, Frame(Selection.sub, Adds(Selection), None))
  BY <1>2 DEF Calls, Frame, Selections, Selection, Adds
<1>4. /\ Enter(Selection.sub, Adds(Selection), None)
      /\ UNCHANGED <<doc, maxDepth, next, fragDepth, computing, verdict>>
  BY DEF Nested
<1>. QED  BY <1>1, <1>2, <1>3, <1>4, PushMeasured

LEMMA SpreadMeasured == ASSUME DepthInv, Acyclic, Measured, Spread PROVE Measured'
<1>. DEFINE f == Selection.name
            s == doc.frags[f]
<1>1. TypeOK /\ Visiting /\ stack # <<>>
  BY DEF DepthInv, Inv, Spread, Visiting
<1>2. /\ f \in DOMAIN doc.frags /\ s \in Sets /\ Top.at \in DOMAIN doc.sets[Top.set]
      /\ Selection.kind = "spread"
  BY <1>1, SelectionFacts, DocumentFacts DEF Spread, IsDocument, Bodies, Sets
<1>3. Calls(Top, Frame(s, 0, f))
  BY <1>2 DEF Calls, Frame, Selections, Selection, Target
<1>4. /\ Enter(s, 0, f) /\ computing' = computing \cup {f} /\ f # None
      /\ UNCHANGED <<doc, maxDepth, next, fragDepth, verdict>>
  BY <1>1, <1>2, DocumentFacts, DocumentAssumption DEF Spread, IsDocument
<1>. HIDE DEF f
<1>. QED  BY <1>1, <1>2, <1>3, <1>4, PushMeasured

LEMMA ShallowMeasured == ASSUME DepthInv, Acyclic, Measured, Shallow PROVE Measured'
<1>. DEFINE n == Len(stack)
            sel == Selection
            d == IF sel.kind = "field" THEN 1
                 ELSE IF sel.name \in DOMAIN fragDepth THEN fragDepth[sel.name] ELSE 0
<1>1. TypeOK /\ Visiting /\ stack # <<>>
  BY DEF DepthInv, Inv, Shallow, Visiting
<1>2. /\ stack' = [stack EXCEPT ![n] = Past(stack[n], d)]
      /\ UNCHANGED <<doc, maxDepth, next, fragDepth, computing, walks, verdict>>
  BY DEF Shallow
<1>3. /\ stack \in Seq(FrameType) /\ DOMAIN stack = 1 .. n /\ n \in Nat /\ n \in DOMAIN stack
      /\ stack[n] = Top /\ Top \in FrameType
  BY <1>1, StackFacts DEF Top
<1>4. Top.set \in Sets /\ Top.at \in DOMAIN Selections(Top.set) /\ IsSelection(doc, sel) /\ sel = Selections(Top.set)[Top.at]
  BY <1>1, SelectionFacts DEF Selections, Selection
<1>5. d = Under(sel)
  <2>1. CASE sel.kind = "field"
    BY <1>4, <2>1 DEF Shallow, Under, UnderIn, Target
  <2>2. CASE sel.kind = "spread" /\ sel.name \in DOMAIN fragDepth
    <3>1. sel.name \in DOMAIN doc.frags /\ doc.frags[sel.name] # None
      BY <1>1, <2>2, DocumentFacts DEF TypeOK, IsDocument, Bodies, Sets
    <3>2. fragDepth[sel.name] = Depth[doc.frags[sel.name]] /\ Depth[doc.frags[sel.name]] \in Nat
      <4>1. doc.frags[sel.name] \in Sets
        BY <1>1, <3>1, DocumentFacts DEF IsDocument, Bodies, Sets
      <4>. QED  BY <1>1, <2>2, <4>1, DepthUnfolds DEF Measured, Memo, Measures
    <3>. QED  BY <2>2, <3>1, <3>2 DEF Under, UnderIn, Target
  <2>3. CASE sel.kind = "spread" /\ sel.name \notin DOMAIN fragDepth
    <3>1. sel.name \notin DOMAIN doc.frags
      BY <1>1, <2>3, MarksAreCycles DEF Shallow
    <3>. QED  BY <2>3, <3>1 DEF Under, UnderIn, Target
  <2>. QED  BY <2>1, <2>2, <2>3 DEF Shallow
<1>6. stack' \in Seq(FrameType) /\ Len(stack') = n /\ \A j \in 1 .. n - 1 : stack'[j] = stack[j]
  <2>1. d \in Nat
    BY <1>1, <1>4, <1>5, UnderFacts
  <2>. HIDE DEF d
  <2>. DEFINE e == Past(stack[n], d)
  <2>2. e \in FrameType
    BY <1>3, <2>1, PastFacts
  <2>3. stack' = [stack EXCEPT ![n] = e] /\ n \in 1 .. n
    BY <1>2, <1>3
  <2>. HIDE DEF e
  <2>4. /\ stack' \in Seq(FrameType) /\ Len(stack') = Len(stack)
        /\ \A j \in 1 .. Len(stack) : stack'[j] = IF j = n THEN e ELSE stack[j]
    BY <1>3, <2>2, <2>3, ExceptSeq
  <2>5. Len(stack) = n
    OBVIOUS
  <2>. HIDE DEF n
  <2>. QED  BY <1>3, <2>4, <2>5
<1>7. stack'[n] = Past(stack[n], Under(Selections(stack[n].set)[stack[n].at]))
  BY <1>2, <1>3, <1>4, <1>5
<1>. HIDE DEF d, sel, n
<1>8. Frames' /\ Current' /\ Judged'
  BY <1>2, <1>3, <1>4, <1>6, <1>7, MoveMeasured
<1>9. Memo'
  BY <1>2, SameDocument DEF Measured, Memo
<1>10. Marks'
  <2>1. stack'[n].frag = stack[n].frag /\ DOMAIN stack' = DOMAIN stack
    BY <1>2, <1>3, <1>7 DEF Past, FrameType
  <2>2. \A j \in DOMAIN stack : stack'[j].frag = stack[j].frag
    BY <1>3, <1>6, <2>1
  <2>. QED  BY <1>2, <2>1, <2>2 DEF Measured, Marks
<1>. QED  BY <1>8, <1>9, <1>10 DEF Measured

\* depthOfSet returns the depth of its set.
LEMMA ReturnMeasured == ASSUME DepthInv, Acyclic, Measured, Return PROVE Measured'
<1>. DEFINE n == Len(Below)
<1>1. /\ TypeOK /\ stack # <<>> /\ Top \in FrameType /\ Top = stack[Len(stack)]
      /\ Top.at > Len(Selections(Top.set))
      /\ UNCHANGED <<doc, maxDepth, next>>
      /\ stack \in Seq(FrameType) /\ DOMAIN stack = 1 .. Len(stack)
      /\ Below \in Seq(FrameType) /\ Len(stack) = n + 1 /\ n \in Nat
      /\ \A j \in 1 .. n : Below[j] = stack[j]
  <2>1. TypeOK /\ stack # <<>> /\ Top = stack[Len(stack)] /\ Top.at > Len(Selections(Top.set))
        /\ UNCHANGED <<doc, maxDepth, next>>
    BY DEF Return, DepthInv, Inv, Selections, Top
  <2>2. /\ Top \in FrameType /\ stack \in Seq(FrameType) /\ DOMAIN stack = 1 .. Len(stack)
        /\ Len(stack) \in Nat
    BY <2>1, StackFacts
  <2>3. /\ Below \in Seq(FrameType) /\ n = Len(stack) - 1 /\ \A j \in 1 .. n : Below[j] = stack[j]
    BY <2>1, BelowFacts
  <2>4. n \in Nat
    BY <2>3, LenProperties
  <2>. HIDE DEF n
  <2>. QED  BY <2>1, <2>2, <2>3, <2>4
<1>2. Len(stack) \in DOMAIN stack
  BY <1>1
<1>3. Top.best = Depth[Top.set] /\ Top.best \in Nat
  <2>1. Partial(Top)
    BY <1>1, <1>2 DEF Measured, Frames
  <2>. QED  BY <1>1, <2>1, PartialWhole DEF FrameType
<1>. HIDE DEF n
<1>4. Memo'
  <2>1. CASE Top.frag = None
    BY <1>1, <2>1, SameDocument DEF Return, Measured, Memo
  <2>2. CASE Top.frag # None
    <3>1. /\ DOMAIN fragDepth' = DOMAIN fragDepth \cup {Top.frag}
          /\ \A f \in DOMAIN fragDepth' : fragDepth'[f] = IF f = Top.frag THEN Top.best ELSE fragDepth[f]
      BY <2>2 DEF Return, Memoized
    <3>2. Top.set = doc.frags[Top.frag]
      BY <1>1, <1>2, <2>2 DEF Measured, Frames
    <3>. QED  BY <1>1, <1>3, <3>1, <3>2, SameDocument DEF Measured, Memo
  <2>. QED  BY <2>1, <2>2
<1>5. \A f \in computing' : \E j \in 1 .. n : stack[j].frag = f
  <2>. SUFFICES ASSUME NEW f \in computing' PROVE \E j \in 1 .. n : stack[j].frag = f
    OBVIOUS
  <2>1. f \in computing /\ f # Top.frag
    BY DocumentFacts, DocumentAssumption DEF Return, Released, DepthInv, Inv, TypeOK, IsDocument
  <2>2. PICK j \in DOMAIN stack : stack[j].frag = f
    BY <2>1 DEF Measured, Marks
  <2>3. j # n + 1
    BY <1>1, <2>1, <2>2
  <2>. QED  BY <1>1, <2>2, <2>3
<1>6. CASE Below = <<>>
  <2>1. n = 0 /\ stack' = <<>> /\ DOMAIN stack' = {} /\ Len(stack') = 0
    BY <1>6 DEF Return, n
  <2>2. Frames' /\ Current'
    BY <2>1 DEF Frames, Current
  <2>3. Marks'
    BY <1>5, <2>1 DEF Marks
  <2>4. /\ next - 1 \in DOMAIN doc.ops /\ Top.set = doc.ops[next - 1] /\ verdict = "none" /\ maxDepth >= 0
    BY <1>1, <2>1 DEF Measured, Current
  <2>5. verdict' = IF Top.best > maxDepth THEN "refused" ELSE verdict
    BY <1>6 DEF Return
  <2>6. TooDeep(next - 1) <=> Top.best > maxDepth
    BY <1>3, <2>4 DEF TooDeep
  <2>7. \A k : TooDeep(k)' = TooDeep(k)
    BY <1>1, SameDocument DEF TooDeep
  <2>8. next \in Nat /\ \A k \in DOMAIN doc.ops : k \in Nat
    BY <1>1, DocumentFacts DEF TypeOK
  <2>9. \A k \in DOMAIN doc.ops : k < next - 1 => ~TooDeep(k)
    BY <1>1, <2>4, <2>8 DEF Measured, Judged
  <2>10. verdict' = "none" => \A k \in DOMAIN doc.ops : k < next => ~TooDeep(k)
    BY <2>4, <2>5, <2>6, <2>8, <2>9
  <2>11. Judged'
    BY <1>1, <2>1, <2>4, <2>5, <2>6, <2>7, <2>10 DEF Judged
  <2>. QED  BY <1>4, <2>2, <2>3, <2>11 DEF Measured
<1>7. CASE Below # <<>>
  <2>. DEFINE d == Top.adds + Top.best
              e == Past(stack[n], d)
  <2>1. n \in 1 .. n /\ n \in DOMAIN stack /\ Below[n] = stack[n] /\ stack[n] \in FrameType /\ n # 0
    BY <1>1, <1>7, EmptySeq, LenProperties, ElementOfSeq DEF n
  <2>2. Calls(stack[n], Top)
    BY <1>1, <2>1 DEF Measured, Frames
  <2>3. d = Under(Selections(stack[n].set)[stack[n].at]) /\ stack[n].at \in DOMAIN Selections(stack[n].set)
    BY <1>1, <1>3, <2>1, <2>2, CalledUnder DEF Calls
  <2>4. d \in Nat
    BY <1>1, <1>3 DEF FrameType
  <2>5. e \in FrameType
    BY <2>1, <2>4, PastFacts
  <2>6. stack' = [Below EXCEPT ![n] = e] /\ UNCHANGED verdict
    BY <1>7, <2>1 DEF Return, n
  <2>7. e.frag = stack[n].frag
    BY <2>1 DEF Past, FrameType
  <2>8. e = Past(stack[n], Under(Selections(stack[n].set)[stack[n].at]))
    BY <2>3
  <2>. HIDE DEF e, d
  <2>9. /\ stack' \in Seq(FrameType) /\ Len(stack') = n
        /\ \A j \in 1 .. n : stack'[j] = IF j = n THEN e ELSE Below[j]
    BY <1>1, <2>1, <2>5, <2>6, ExceptSeq DEF n
  <2>10. stack'[n] = e /\ \A j \in 1 .. n - 1 : stack'[j] = stack[j]
    BY <1>1, <2>1, <2>9
  <2>11. Frames' /\ Current' /\ Judged'
    BY <1>1, <2>1, <2>3, <2>6, <2>8, <2>9, <2>10, MoveMeasured
  <2>12. Marks'
    <3>1. \A j \in 1 .. n : stack'[j].frag = stack[j].frag
      BY <1>1, <2>7, <2>9
    <3>2. DOMAIN stack' = 1 .. n
      BY <2>9, LenProperties
    <3>. QED  BY <1>5, <3>1, <3>2 DEF Marks
  <2>. QED  BY <1>4, <2>11, <2>12 DEF Measured
<1>. QED  BY <1>6, <1>7

LEMMA AcceptMeasured == ASSUME DepthInv, Acyclic, Measured, Accept PROVE Measured'
<1>1. /\ verdict = "none" /\ stack = <<>> /\ verdict' = "accepted"
      /\ maxDepth < 0 \/ next > Len(doc.ops)
      /\ UNCHANGED <<doc, maxDepth, next, stack, fragDepth, computing>>
  BY DEF Accept
<1>2. next \in Nat /\ DOMAIN doc.ops = 1 .. Len(doc.ops) /\ Len(doc.ops) \in Nat
  BY DocumentFacts DEF DepthInv, Inv, TypeOK
<1>3. \A k : TooDeep(k)' = TooDeep(k)
  BY <1>1, SameDocument DEF TooDeep
<1>4. maxDepth < 0 \/ \A k \in DOMAIN doc.ops : ~TooDeep(k)
  BY <1>1, <1>2 DEF Measured, Judged
<1>5. Judged'
  BY <1>1, <1>3, <1>4 DEF Judged
<1>6. Memo' /\ Frames' /\ Marks' /\ Current'
  BY <1>1, SameDocument, SameFrames DEF Measured, Memo, Frames, Marks, Current
<1>. QED  BY <1>5, <1>6 DEF Measured

LEMMA IdleMeasured == ASSUME DepthInv, Acyclic, Measured, UNCHANGED vars PROVE Measured'
<1>1. UNCHANGED <<doc, maxDepth, next, stack, fragDepth, computing, verdict>>
  BY DEF vars
<1>2. Judged'
  BY <1>1, SameDocument DEF Judged, Measured, TooDeep
<1>. QED  BY <1>1, <1>2, SameDocument, SameFrames DEF Measured, Memo, Frames, Marks, Current

LEMMA DepthInit == Init => DepthInv
<1>. SUFFICES ASSUME Init PROVE Measured
  BY InvInit DEF DepthInv
<1>1. TypeOK /\ stack = <<>> /\ DOMAIN stack = {} /\ DOMAIN fragDepth = {} /\ computing = {} /\ next = 1 /\ verdict = "none"
  BY InvInit DEF Init, Inv
<1>2. \A k \in DOMAIN doc.ops : ~(k < 1)
  BY <1>1, DocumentFacts
<1>3. 1 .. Len(stack) - 1 = {}
  BY <1>1
<1>. QED  BY <1>1, <1>2, <1>3 DEF Measured, Memo, Frames, Marks, Current, Judged

LEMMA DepthStep == DepthInv /\ [Next]_vars => DepthInv'
<1>. SUFFICES ASSUME DepthInv, [Next]_vars PROVE DepthInv'
  OBVIOUS
<1>1. Inv'
  BY InvStep DEF DepthInv
<1>2. doc' = doc
  BY DEF Next, Accept, Operation, Shallow, Nested, Spread, Return, vars
<1>3. ASSUME Acyclic PROVE Measured'
  <2>0. Measured
    BY <1>3 DEF DepthInv
  <2>1. CASE Accept
    BY <1>3, <2>0, <2>1, AcceptMeasured
  <2>2. CASE Operation
    BY <1>3, <2>0, <2>2, OperationMeasured
  <2>3. CASE Shallow
    BY <1>3, <2>0, <2>3, ShallowMeasured
  <2>4. CASE Nested
    BY <1>3, <2>0, <2>4, NestedMeasured
  <2>5. CASE Spread
    BY <1>3, <2>0, <2>5, SpreadMeasured
  <2>6. CASE Return
    BY <1>3, <2>0, <2>6, ReturnMeasured
  <2>7. CASE UNCHANGED vars
    BY <1>3, <2>0, <2>7, IdleMeasured
  <2>. QED  BY <2>1, <2>2, <2>3, <2>4, <2>5, <2>6, <2>7 DEF Next
<1>. QED  BY <1>1, <1>2, <1>3, SameDocument DEF DepthInv

\* "still measure the true depth through the fan-out": memoized, and however
\* often a fragment is spread, the scan refuses a document without a cycle
\* exactly when an operation of it, written out, is deeper than max_query_depth.
THEOREM ScanMeasuresUnfolded == Spec => []DepthIsUnfolded
<1>1. Init => DepthInv
  BY DepthInit
<1>2. DepthInv /\ [Next]_vars => DepthInv'
  BY DepthStep
<1>3. DepthInv => DepthIsUnfolded
  <2>. SUFFICES ASSUME DepthInv, verdict # "none", Acyclic
                PROVE  verdict = "refused" <=> maxDepth >= 0 /\ \E k \in DOMAIN doc.ops : TooDeep(k)
    BY DEF DepthIsUnfolded
  <2>1. verdict \in {"accepted", "refused"} /\ maxDepth \in Int
    BY DocumentAssumption DEF DepthInv, Inv, TypeOK
  <2>. QED  BY <2>1 DEF DepthInv, Measured, Judged
<1>. QED  BY <1>1, <1>2, <1>3, PTL DEF Spec

-----------------------------------------------------------------------------
(* What a selection set reaches.                                           *)

Follows == {"inline", "spread"}

LEMMA BeneathFacts ==
  ASSUME TypeOK, NEW kinds, NEW S \in SUBSET Sets
  PROVE  /\ Beneath(S, kinds) \subseteq Sets
         /\ \A s \in S : Beneath({s}, kinds) \subseteq Beneath(S, kinds)
         /\ \A t \in Beneath(S, kinds) : \E s \in S : t \in Beneath({s}, kinds)
         /\ \A C \in SUBSET Sets : S \subseteq C => Beneath(S, kinds) \subseteq Beneath(C, kinds)
<1>1. \A s \in S : \A sel \in ToSet(doc.sets[s]) : Target(sel) \in Sets \cup {None}
  BY TargetFacts DEF Targets
<1>. QED  BY <1>1 DEF Beneath

LEMMA ReachFacts ==
  ASSUME TypeOK, NEW kinds, NEW S \in SUBSET Sets
  PROVE  /\ Reach(S, kinds) \in SUBSET Sets
         /\ S \subseteq Reach(S, kinds)
         /\ Beneath(Reach(S, kinds), kinds) \subseteq Reach(S, kinds)
         /\ \A C \in SUBSET Sets : S \subseteq C /\ Beneath(C, kinds) \subseteq C => Reach(S, kinds) \subseteq C
<1>. DEFINE R == Reach(S, kinds)
<1>1. R = {t \in Sets : \A C \in Closed(S, kinds) : t \in C}
  BY DEF Reach
<1>. HIDE DEF R
<1>2. R \in SUBSET Sets /\ S \subseteq R
  BY <1>1 DEF Closed
<1>3. \A C \in Closed(S, kinds) : R \subseteq C
  BY <1>1
<1>4. \A C \in Closed(S, kinds) : Beneath(R, kinds) \subseteq C
  BY <1>2, <1>3, BeneathFacts DEF Closed
<1>5. Beneath(R, kinds) \subseteq R
  BY <1>1, <1>2, <1>4, BeneathFacts
<1>. QED  BY <1>2, <1>3, <1>5 DEF R, Closed

LEMMA ReachSplits ==
  ASSUME TypeOK, NEW kinds, NEW S \in SUBSET Sets
  PROVE  Reach(S, kinds) = UNION {Reach({s}, kinds) : s \in S}
<1>. DEFINE U == UNION {Reach({s}, kinds) : s \in S}
<1>1. ASSUME NEW s \in S
      PROVE  /\ Reach({s}, kinds) \subseteq Reach(S, kinds) /\ s \in Reach({s}, kinds)
             /\ Reach({s}, kinds) \in SUBSET Sets
             /\ Beneath(Reach({s}, kinds), kinds) \subseteq Reach({s}, kinds)
  <2>1. {s} \in SUBSET Sets /\ {s} \subseteq Reach(S, kinds)
    BY ReachFacts
  <2>. QED  BY <2>1, ReachFacts
<1>2. U \in SUBSET Sets /\ S \subseteq U /\ U \subseteq Reach(S, kinds)
  BY <1>1
<1>3. ASSUME NEW t \in Beneath(U, kinds) PROVE t \in U
  <2>1. PICK u \in U : t \in Beneath({u}, kinds)
    BY <1>2, <1>3, BeneathFacts
  <2>2. PICK s \in S : u \in Reach({s}, kinds)
    OBVIOUS
  <2>. HIDE DEF U
  <2>3. t \in Reach({s}, kinds)
    BY <1>1, <2>1, <2>2, BeneathFacts
  <2>. QED  BY <2>3 DEF U
<1>4. Reach(S, kinds) \subseteq U
  <2>. HIDE DEF U
  <2>. QED  BY <1>2, <1>3, ReachFacts
<1>. QED  BY <1>2, <1>4

LEMMA ReachUnfolds ==
  ASSUME TypeOK, NEW kinds, NEW s \in Sets
  PROVE  Reach({s}, kinds) = {s} \cup Reach(Beneath({s}, kinds), kinds)
<1>. DEFINE B == Beneath({s}, kinds)
            C == {s} \cup Reach(B, kinds)
<1>1. {s} \in SUBSET Sets /\ B \in SUBSET Sets
  BY BeneathFacts
<1>2. /\ Reach({s}, kinds) \in SUBSET Sets /\ s \in Reach({s}, kinds)
      /\ B \subseteq Reach({s}, kinds) /\ Beneath(Reach({s}, kinds), kinds) \subseteq Reach({s}, kinds)
  <2>1. /\ Reach({s}, kinds) \in SUBSET Sets /\ s \in Reach({s}, kinds)
        /\ Beneath(Reach({s}, kinds), kinds) \subseteq Reach({s}, kinds)
    BY <1>1, ReachFacts
  <2>2. B \subseteq Beneath(Reach({s}, kinds), kinds)
    BY <1>1, <2>1, BeneathFacts
  <2>. QED  BY <2>1, <2>2
<1>. HIDE DEF B
<1>3. Reach(B, kinds) \subseteq Reach({s}, kinds)
  BY <1>1, <1>2, ReachFacts
<1>4. C \in SUBSET Sets /\ {s} \subseteq C
  BY <1>1, ReachFacts
<1>5. ASSUME NEW t \in Beneath(C, kinds) PROVE t \in C
  <2>1. PICK u \in C : t \in Beneath({u}, kinds)
    <3>. HIDE DEF C
    <3>. QED  BY <1>4, <1>5, BeneathFacts
  <2>2. CASE u = s
    BY <1>1, <2>1, <2>2, ReachFacts DEF B
  <2>3. CASE u \in Reach(B, kinds)
    <3>1. t \in Beneath(Reach(B, kinds), kinds)
      BY <1>1, <2>1, <2>3, ReachFacts, BeneathFacts
    <3>. QED  BY <1>1, <3>1, ReachFacts
  <2>. QED  BY <2>2, <2>3
<1>6. Reach({s}, kinds) \subseteq C
  <2>1. Beneath(C, kinds) \subseteq C
    BY <1>5
  <2>. HIDE DEF C
  <2>2. \A D \in SUBSET Sets : {s} \subseteq D /\ Beneath(D, kinds) \subseteq D => Reach({s}, kinds) \subseteq D
    BY <1>1, ReachFacts
  <2>. QED  BY <1>4, <2>1, <2>2
<1>. QED  BY <1>2, <1>3, <1>6 DEF B

\* The places of the fields of one set.
FieldsIn(s) == {<<s, i>> : i \in {j \in DOMAIN doc.sets[s] : doc.sets[s][j].kind = "field"}}

LEMMA PlacesSplit ==
  ASSUME TypeOK
  PROVE  /\ \A S \in SUBSET Sets : Places(S) = UNION {Places({s}) : s \in S}
         /\ \A s \in Sets : Places({s}) = FieldsIn(s) \cup Places(Beneath({s}, Follows))
<1>1. \A S : Places(S) = UNION {FieldsIn(t) : t \in Reach(S, Follows)}
  BY DEF Places, FieldsIn, Follows
<1>2. ASSUME NEW S \in SUBSET Sets PROVE Places(S) = UNION {Places({s}) : s \in S}
  <2>1. Reach(S, Follows) = UNION {Reach({s}, Follows) : s \in S}
    BY ReachSplits
  <2>2. \A s, x : x \in Places({s}) <=> \E t \in Reach({s}, Follows) : x \in FieldsIn(t)
    BY <1>1
  <2>3. \A x : x \in Places(S) <=> \E s \in S : \E t \in Reach({s}, Follows) : x \in FieldsIn(t)
    <3>1. \A x : x \in Places(S) <=> \E t \in Reach(S, Follows) : x \in FieldsIn(t)
      BY <1>1
    <3>2. \A t : t \in Reach(S, Follows) <=> \E s \in S : t \in Reach({s}, Follows)
      BY <2>1
    <3>. QED  BY <3>1, <3>2
  <2>4. \A x : x \in Places(S) <=> \E s \in S : x \in Places({s})
    BY <2>2, <2>3
  <2>. QED  BY <2>4
<1>3. ASSUME NEW s \in Sets PROVE Places({s}) = FieldsIn(s) \cup Places(Beneath({s}, Follows))
  BY <1>1, ReachUnfolds
<1>. QED  BY <1>2, <1>3

-----------------------------------------------------------------------------
(* flattenFields.                                                          *)

LEMMA LeastNatural ==
  ASSUME NEW S \in SUBSET Nat, S # {}
  PROVE  \E m \in S : \A n \in S : n >= m
<1>1. PICK m \in S : \A n \in S : ~(<<n, m>> \in OpToRel(<, Nat))
  BY NatLessThanWellFounded, WFMin
<1>2. \A n \in S : ~(n < m)
  BY <1>1, Zenon DEF OpToRel
<1>3. m \in Nat /\ \A n \in S : n \in Nat
  OBVIOUS
<1>. QED  BY <1>2, <1>3

LEMMA ConcatSet ==
  ASSUME NEW V, NEW p \in Seq(V), NEW q \in Seq(V)
  PROVE  p \o q \in Seq(V) /\ ToSet(p \o q) = ToSet(p) \cup ToSet(q)
<1>. DEFINE m == Len(p)
            n == Len(q)
            c == p \o q
<1>1. m \in Nat /\ n \in Nat /\ DOMAIN p = 1 .. m /\ DOMAIN q = 1 .. n
  BY LenProperties
<1>2. /\ c \in Seq(V) /\ Len(c) = m + n
      /\ \A i \in 1 .. m + n : c[i] = IF i <= m THEN p[i] ELSE q[i - m]
  BY ConcatProperties
<1>3. DOMAIN c = 1 .. m + n
  BY <1>2, LenProperties
<1>. HIDE DEF m, n, c
<1>4. ToSet(c) \subseteq ToSet(p) \cup ToSet(q)
  <2>. SUFFICES ASSUME NEW i \in 1 .. m + n PROVE c[i] \in ToSet(p) \cup ToSet(q)
    BY <1>3 DEF ToSet
  <2>1. CASE i <= m
    <3>1. i \in 1 .. m
      BY <1>1, <2>1
    <3>. QED  BY <1>1, <1>2, <2>1, <3>1 DEF ToSet
  <2>2. CASE ~(i <= m)
    <3>1. i - m \in 1 .. n
      BY <1>1, <2>2
    <3>. QED  BY <1>1, <1>2, <2>2, <3>1 DEF ToSet
  <2>. QED  BY <2>1, <2>2
<1>5. ToSet(p) \subseteq ToSet(c)
  <2>. SUFFICES ASSUME NEW i \in 1 .. m PROVE p[i] \in ToSet(c)
    BY <1>1 DEF ToSet
  <2>1. i \in 1 .. m + n /\ i <= m
    BY <1>1
  <2>. QED  BY <1>2, <1>3, <2>1 DEF ToSet
<1>6. ToSet(q) \subseteq ToSet(c)
  <2>. SUFFICES ASSUME NEW i \in 1 .. n PROVE q[i] \in ToSet(c)
    BY <1>1 DEF ToSet
  <2>1. m + i \in 1 .. m + n /\ ~(m + i <= m) /\ (m + i) - m = i
    BY <1>1
  <2>. QED  BY <1>2, <1>3, <2>1 DEF ToSet
<1>. QED  BY <1>2, <1>4, <1>5, <1>6 DEF c

AllSelections == UNION {ToSet(doc.sets[s]) : s \in Sets}

\* The first n of the sequences qs, one after the other.
JoinIn(g, qs) == [n \in 1 .. Len(qs) |-> IF n = 1 THEN qs[n] ELSE g[n - 1] \o qs[n]]

LEMMA FlattenFacts ==
  ASSUME NEW V, NEW qs \in Seq(Seq(V))
  PROVE  /\ FlattenSeq(qs) \in Seq(V)
         /\ ToSet(FlattenSeq(qs)) = UNION {ToSet(qs[i]) : i \in 1 .. Len(qs)}
<1>1. CASE Len(qs) = 0
  <2>1. FlattenSeq(qs) = <<>>
    BY <1>1, EmptySeq DEF FlattenSeq
  <2>. QED  BY <1>1, <2>1 DEF ToSet
<1>2. CASE Len(qs) # 0
  <2>. DEFINE N == Len(qs)
              D == 1 .. N
              join == CHOOSE g : g = JoinIn(g, qs)
              lower == [n \in D |-> IF n = 1 THEN {} ELSE {n - 1}]
              F == [g \in [D -> Seq(V)] |-> JoinIn(g, qs)]
  <2>1. N \in Nat /\ \A n \in D : qs[n] \in Seq(V)
    BY LenProperties, ElementOfSeq
  <2>2. FlattenSeq(qs) = join[N]
    BY <1>2 DEF FlattenSeq, JoinIn
  <2>3. Founded(D, lower)
    <3>1. lower \in [D -> SUBSET D]
      BY <2>1
    <3>2. ASSUME NEW S \in SUBSET D, S # {} PROVE \E n \in S : lower[n] \cap S = {}
      <4>1. PICK m \in S : \A n \in S : n >= m
        BY <2>1, <3>2, LeastNatural
      <4>. QED  BY <2>1, <4>1
    <3>. QED  BY <3>1, <3>2 DEF Founded
  <2>4. LooksUnder(F, D, Seq(V), lower)
    <3>1. F \in [[D -> Seq(V)] -> [D -> Seq(V)]]
      <4>1. ASSUME NEW g \in [D -> Seq(V)], NEW n \in D
            PROVE  (IF n = 1 THEN qs[n] ELSE g[n - 1] \o qs[n]) \in Seq(V)
        <5>1. n # 1 => n - 1 \in D
          BY <2>1
        <5>2. n # 1 => g[n - 1] \in Seq(V)
          BY <5>1
        <5>. QED  BY <2>1, <5>2, ConcatProperties
      <4>. QED  BY <4>1 DEF JoinIn
    <3>2. ASSUME NEW g \in [D -> Seq(V)], NEW h \in [D -> Seq(V)], NEW n \in D,
                 \A y \in lower[n] : g[y] = h[y]
          PROVE  F[g][n] = F[h][n]
      BY <3>2 DEF JoinIn
    <3>. HIDE DEF F
    <3>. QED  BY <3>1, <3>2 DEF LooksUnder
  <2>5. PICK g \in [D -> Seq(V)] : g = JoinIn(g, qs)
    <3>1. <<>> \in Seq(V)
      OBVIOUS
    <3>. DEFINE W == Seq(V)
    <3>2. <<>> \in W /\ Founded(D, lower) /\ LooksUnder(F, D, W, lower)
      BY <2>3, <2>4, <3>1
    <3>3. \E g \in [D -> W] : F[g] = g
      <4>. HIDE DEF F, lower, D, W
      <4>. QED  BY <3>2, Recursion
    <3>. QED  BY <3>3
  <2>6. join = JoinIn(join, qs)
    BY <2>5
  <2>. HIDE DEF join, lower, F
  <2>7. \A n \in D : join[n] = IF n = 1 THEN qs[n] ELSE join[n - 1] \o qs[n]
    BY <2>6 DEF JoinIn
  <2>. DEFINE Joined(n) == /\ join[n] \in Seq(V)
                           /\ ToSet(join[n]) = UNION {ToSet(qs[i]) : i \in 1 .. n}
              S == {n \in D : ~Joined(n)}
  <2>8. S = {}
    <3>1. SUFFICES ASSUME S # {} PROVE FALSE
      OBVIOUS
    <3>2. PICK m \in S : \A n \in S : n >= m
      <4>1. S \in SUBSET Nat
        BY <2>1
      <4>. HIDE DEF S
      <4>. QED  BY <3>1, <4>1, LeastNatural
    <3>3. CASE m = 1
      BY <2>1, <2>7, <3>2, <3>3
    <3>4. CASE m # 1
      <4>1. m - 1 \in D /\ m \in D /\ Joined(m - 1)
        <5>1. m - 1 \in D /\ m \in D
          BY <2>1, <3>4
        <5>2. ~(m - 1 >= m)
          BY <5>1
        <5>3. m - 1 \notin S
          BY <3>2, <5>2
        <5>. QED  BY <5>1, <5>3
      <4>2. join[m] = join[m - 1] \o qs[m] /\ qs[m] \in Seq(V)
        BY <2>1, <2>7, <3>4, <4>1
      <4>3. join[m] \in Seq(V) /\ ToSet(join[m]) = ToSet(join[m - 1]) \cup ToSet(qs[m])
        BY <4>1, <4>2, ConcatSet
      <4>4. 1 .. m = (1 .. (m - 1)) \cup {m}
        BY <2>1, <4>1
      <4>5. Joined(m)
        BY <4>1, <4>3, <4>4
      <4>. QED  BY <3>2, <4>5
    <3>. QED  BY <3>3, <3>4
  <2>9. Joined(N)
    <3>1. N \in D
      BY <1>2, <2>1
    <3>. QED  BY <2>8, <3>1
  <2>. QED  BY <2>2, <2>9
<1>. QED  BY <1>1, <1>2

FlatIn(g, s) ==
  IF s = None THEN <<>>
  ELSE FlattenSeq([i \in DOMAIN doc.sets[s] |->
         LET sel == doc.sets[s][i]
         IN  IF sel.kind = "field" THEN <<sel>> ELSE g[Target(sel)]])

\* What flattenFields looks at.
Opens(s) == {Target(sel) : sel \in ToSet(doc.sets[s])}
Open == [s \in Sets \cup {None} |-> IF s = None THEN {} ELSE Opens(s)]

LEMMA OpenFounded == ASSUME TypeOK, Acyclic PROVE Founded(Sets \cup {None}, Open)
<1>. DEFINE D == Sets \cup {None}
<1>1. \A s \in Sets : Opens(s) \subseteq Targets(s) \cup {None} /\ Targets(s) \subseteq Sets
  BY TargetFacts DEF Opens
<1>2. Open \in [D -> SUBSET D]
  BY <1>1 DEF Open
<1>3. ASSUME NEW S \in SUBSET D, S # {} PROVE \E s \in S : Open[s] \cap S = {}
  <2>1. CASE None \in S
    BY <2>1 DEF Open
  <2>2. CASE None \notin S
    <3>1. S \in SUBSET Sets /\ None \notin Sets
      BY <2>2, DocumentFacts
    <3>2. PICK s \in S : Targets(s) \cap S = {}
      BY <1>3, <3>1 DEF Acyclic, Cycles
    <3>3. Open[s] = Opens(s)
      BY <3>1, <3>2 DEF Open
    <3>. QED  BY <1>1, <2>2, <3>1, <3>2, <3>3
  <2>. QED  BY <2>1, <2>2
<1>. QED  BY <1>2, <1>3 DEF Founded

LEMMA FlatFacts ==
  ASSUME TypeOK, NEW s \in Sets, NEW g, \A t \in Opens(s) : g[t] \in Seq(AllSelections)
  PROVE  /\ FlatIn(g, s) \in Seq(AllSelections)
         /\ ToSet(FlatIn(g, s)) = {At(p) : p \in FieldsIn(s)}
              \cup UNION {ToSet(g[Target(sel)]) : sel \in {e \in ToSet(doc.sets[s]) : e.kind # "field"}}
<1>. DEFINE q == doc.sets[s]
            V == AllSelections
            flat(sel) == IF sel.kind = "field" THEN <<sel>> ELSE g[Target(sel)]
            qs == [i \in DOMAIN q |-> flat(q[i])]
<1>1. Len(q) \in Nat /\ DOMAIN q = 1 .. Len(q) /\ s # None
  BY DocumentFacts
<1>2. \A sel \in ToSet(q) : sel \in V /\ Target(sel) \in Opens(s)
  BY DEF AllSelections, Opens
<1>3. \A sel \in ToSet(q) : flat(sel) \in Seq(V)
  BY <1>2
<1>4. \A i \in DOMAIN q : q[i] \in ToSet(q)
  BY DEF ToSet
<1>5. qs \in Seq(Seq(V)) /\ Len(qs) = Len(q) /\ \A i \in 1 .. Len(q) : qs[i] = flat(q[i])
  <2>. HIDE DEF q, V, flat
  <2>1. qs \in [1 .. Len(q) -> Seq(V)]
    BY <1>1, <1>3, <1>4
  <2>2. qs \in Seq(Seq(V))
    BY <1>1, <2>1
  <2>3. Len(qs) = Len(q)
    BY <1>1, <2>1, <2>2, LenProperties
  <2>. QED  BY <1>1, <2>2, <2>3
<1>6. FlatIn(g, s) = FlattenSeq(qs)
  BY <1>1 DEF FlatIn
<1>. HIDE DEF qs
<1>7. FlatIn(g, s) \in Seq(V) /\ ToSet(FlatIn(g, s)) = UNION {ToSet(qs[i]) : i \in 1 .. Len(q)}
  <2>. HIDE DEF V, q
  <2>. QED  BY <1>5, <1>6, FlattenFacts
<1>8. UNION {ToSet(qs[i]) : i \in 1 .. Len(q)} = UNION {ToSet(flat(sel)) : sel \in ToSet(q)}
  <2>1. {ToSet(qs[i]) : i \in 1 .. Len(q)} = {ToSet(flat(sel)) : sel \in ToSet(q)}
    <3>1. ToSet(q) = {q[i] : i \in 1 .. Len(q)}
      BY <1>1 DEF ToSet
    <3>. HIDE DEF flat, q
    <3>. QED  BY <1>5, <3>1
  <2>. QED  BY <2>1
<1>9. \A sel \in ToSet(q) : sel.kind = "field" => ToSet(flat(sel)) = {sel}
  BY DEF ToSet
<1>10. {At(p) : p \in FieldsIn(s)} = {sel \in ToSet(q) : sel.kind = "field"}
  <2>1. \A i : At(<<s, i>>) = q[i]
    BY DEF At
  <2>2. \A x : x \in {At(p) : p \in FieldsIn(s)} <=> \E i \in DOMAIN q : q[i].kind = "field" /\ x = At(<<s, i>>)
    BY DEF FieldsIn
  <2>. QED  BY <2>1, <2>2 DEF ToSet
<1>11. \A sel \in ToSet(q) : sel.kind # "field" => flat(sel) = g[Target(sel)]
  OBVIOUS
<1>. HIDE DEF flat, V
<1>12. \A x : x \in UNION {ToSet(flat(sel)) : sel \in ToSet(q)} <=>
                \E sel \in ToSet(q) : x \in ToSet(flat(sel))
  OBVIOUS
<1>13. \A x : (\E sel \in ToSet(q) : x \in ToSet(flat(sel))) <=>
                \/ x \in {sel \in ToSet(q) : sel.kind = "field"}
                \/ \E sel \in ToSet(q) : sel.kind # "field" /\ x \in ToSet(g[Target(sel)])
  BY <1>9, <1>11
<1>. DEFINE others == {e \in ToSet(q) : e.kind # "field"}
<1>14. \A x : x \in UNION {ToSet(g[Target(sel)]) : sel \in others} <=>
                \E sel \in ToSet(q) : sel.kind # "field" /\ x \in ToSet(g[Target(sel)])
  OBVIOUS
<1>. HIDE DEF q, others
<1>15. ToSet(FlatIn(g, s)) = {At(p) : p \in FieldsIn(s)} \cup UNION {ToSet(g[Target(sel)]) : sel \in others}
  <2>1. \A x : x \in ToSet(FlatIn(g, s)) <=>
                \/ x \in {At(p) : p \in FieldsIn(s)}
                \/ x \in UNION {ToSet(g[Target(sel)]) : sel \in others}
    BY <1>7, <1>8, <1>10, <1>12, <1>13, <1>14
  <2>. QED  BY <2>1
<1>. QED  BY <1>7, <1>15 DEF V, q, others

LEMMA FlattenUnfolds ==
  ASSUME TypeOK, Acyclic
  PROVE  /\ flattenFields[None] = <<>>
         /\ \A s \in Sets : flattenFields[s] = FlatIn(flattenFields, s)
         /\ \A s \in Sets : flattenFields[s] \in Seq(AllSelections)
<1>. DEFINE D == Sets \cup {None}
            V == Seq(AllSelections)
            F == [g \in [D -> V] |-> [s \in D |-> FlatIn(g, s)]]
<1>0. <<>> \in V /\ \A g : FlatIn(g, None) = <<>>
  BY DEF FlatIn
<1>1. \A s \in Sets : Opens(s) \subseteq D
  BY TargetFacts DEF Opens
<1>2. F \in [[D -> V] -> [D -> V]]
  <2>1. ASSUME NEW g \in [D -> V], NEW s \in D PROVE FlatIn(g, s) \in V
    <3>1. CASE s = None
      BY <1>0, <3>1
    <3>2. CASE s \in Sets
      <4>1. \A t \in Opens(s) : g[t] \in Seq(AllSelections)
        BY <1>1, <3>2
      <4>. QED  BY <3>2, <4>1, FlatFacts
    <3>. QED  BY <3>1, <3>2
  <2>. QED  BY <2>1
<1>3. LooksUnder(F, D, V, Open)
  <2>1. ASSUME NEW g \in [D -> V], NEW h \in [D -> V], NEW s \in D, \A t \in Open[s] : g[t] = h[t]
        PROVE  F[g][s] = F[h][s]
    <3>1. s # None => \A i \in DOMAIN doc.sets[s] : g[Target(doc.sets[s][i])] = h[Target(doc.sets[s][i])]
      BY <2>1 DEF Open, Opens, ToSet
    <3>2. FlatIn(g, s) = FlatIn(h, s)
      BY <3>1 DEF FlatIn
    <3>. QED  BY <3>2
  <2>. HIDE DEF F
  <2>. QED  BY <1>2, <2>1 DEF LooksUnder
<1>4. \E g \in [D -> V] : F[g] = g
  <2>. HIDE DEF F, V
  <2>. QED  BY <1>0, <1>3, OpenFounded, Recursion
<1>5. PICK g \in [D -> V] : g = [s \in D |-> FlatIn(g, s)]
  BY <1>4
<1>6. flattenFields = CHOOSE h : h = [s \in D |-> FlatIn(h, s)]
  BY DEF flattenFields, FlatIn
<1>7. flattenFields = [s \in D |-> FlatIn(flattenFields, s)]
  BY <1>5, <1>6
<1>8. flattenFields[None] = <<>> /\ \A s \in Sets : flattenFields[s] = FlatIn(flattenFields, s)
  BY <1>0, <1>7
<1>9. \A s \in Sets : flattenFields[s] \in V
  <2>. DEFINE S == {s \in Sets : flattenFields[s] \notin V}
  <2>1. SUFFICES ASSUME S # {} PROVE FALSE
    OBVIOUS
  <2>2. PICK s \in S : Targets(s) \cap S = {}
    <3>1. S \in SUBSET Sets /\ S # {}
      BY <2>1
    <3>. HIDE DEF S
    <3>. QED  BY <3>1 DEF Acyclic, Cycles
  <2>3. \A t \in Opens(s) : flattenFields[t] \in V
    BY <1>0, <1>8, <2>2, TargetFacts DEF Opens
  <2>4. FlatIn(flattenFields, s) \in V
    BY <2>3, FlatFacts
  <2>. QED  BY <1>8, <2>4
<1>. QED  BY <1>8, <1>9

\* flattenFields lists the fields that a client finds in a set.
LEMMA FlattenIsPlaces ==
  ASSUME TypeOK, Acyclic
  PROVE  \A s \in Sets : ToSet(flattenFields[s]) = {At(p) : p \in Places({s})}
<1>. DEFINE fields(s) == ToSet(flattenFields[s])
            found(s) == {At(p) : p \in Places({s})}
            S == {s \in Sets : fields(s) # found(s)}
<1>1. SUFFICES ASSUME S # {} PROVE FALSE
  OBVIOUS
<1>2. PICK s \in S : Targets(s) \cap S = {}
  <2>1. S \in SUBSET Sets /\ S # {}
    BY <1>1
  <2>. HIDE DEF S
  <2>. QED  BY <2>1 DEF Acyclic, Cycles
<1>. DEFINE opened == {e \in ToSet(doc.sets[s]) : e.kind # "field"}
            B == Beneath({s}, Follows)
<1>3. B = {Target(sel) : sel \in opened} \ {None} /\ B \subseteq Targets(s) /\ B \subseteq Sets
  <2>1. \A sel \in ToSet(doc.sets[s]) : sel.kind \in Follows <=> sel.kind # "field"
    BY DocumentFacts DEF ToSet, IsDocument, IsSelection, Follows, Sets
  <2>2. Targets(s) \subseteq Sets
    BY TargetFacts
  <2>3. UNION {ToSet(doc.sets[t]) : t \in {s}} = ToSet(doc.sets[s])
    OBVIOUS
  <2>4. B = {Target(sel) : sel \in opened} \ {None}
    BY <2>1, <2>3 DEF Beneath
  <2>5. B \subseteq Targets(s)
    BY <2>4 DEF Targets
  <2>. QED  BY <2>2, <2>4, <2>5
<1>4. \A t \in B : fields(t) = found(t)
  BY <1>2, <1>3
<1>5. fields(s) = {At(p) : p \in FieldsIn(s)} \cup UNION {fields(Target(sel)) : sel \in opened}
  <2>1. \A t \in Opens(s) : flattenFields[t] \in Seq(AllSelections)
    <3>1. Opens(s) \subseteq Sets \cup {None} /\ <<>> \in Seq(AllSelections)
      BY TargetFacts DEF Opens
    <3>. QED  BY <3>1, FlattenUnfolds
  <2>. QED  BY <2>1, FlatFacts, FlattenUnfolds
<1>6. fields(None) = {}
  BY FlattenUnfolds DEF ToSet
<1>. HIDE DEF fields, opened
<1>7. \A x : x \in fields(s) <=> x \in {At(p) : p \in FieldsIn(s)} \/ \E t \in B : x \in fields(t)
  <2>. HIDE DEF B
  <2>. QED  BY <1>3, <1>5, <1>6
<1>8. Places({s}) = FieldsIn(s) \cup UNION {Places({t}) : t \in B}
  BY <1>3, PlacesSplit
<1>. HIDE DEF B
<1>9. \A x : x \in found(s) <=> x \in {At(p) : p \in FieldsIn(s)} \/ \E t \in B : x \in found(t)
  <2>1. \A p : p \in Places({s}) <=> p \in FieldsIn(s) \/ \E t \in B : p \in Places({t})
    BY <1>8
  <2>2. \A x, Q : x \in {At(p) : p \in Q} <=> \E p \in Q : x = At(p)
    OBVIOUS
  <2>3. \A t, x : x \in found(t) <=> \E p \in Places({t}) : x = At(p)
    BY <2>2
  <2>. DEFINE own == {At(p) : p \in FieldsIn(s)}
  <2>4. \A x : x \in own <=> \E p \in FieldsIn(s) : x = At(p)
    BY <2>2
  <2>. HIDE DEF found, own
  <2>5. \A x : x \in found(s) <=> x \in own \/ \E t \in B : x \in found(t)
    <3>. TAKE x
    <3>1. x \in found(s) <=> \E p \in Places({s}) : x = At(p)
      BY <2>3
    <3>2. ASSUME NEW p \in Places({s}), x = At(p)
          PROVE  x \in own \/ \E t \in B : x \in found(t)
      BY <2>1, <2>3, <2>4, <3>2
    <3>3. ASSUME x \in own \/ \E t \in B : x \in found(t)
          PROVE  \E p \in Places({s}) : x = At(p)
      <4>1. CASE x \in own
        BY <2>1, <2>4, <4>1
      <4>2. ASSUME NEW t \in B, x \in found(t) PROVE \E p \in Places({s}) : x = At(p)
        <5>1. PICK p \in Places({t}) : x = At(p)
          BY <2>3, <4>2
        <5>. QED  BY <2>1, <5>1
      <4>. QED  BY <3>3, <4>1, <4>2
    <3>. QED  BY <3>1, <3>2, <3>3
  <2>. QED  BY <2>5 DEF own
<1>10. fields(s) = found(s)
  <2>. HIDE DEF found
  <2>. QED  BY <1>4, <1>7, <1>9
<1>. QED  BY <1>2, <1>10

-----------------------------------------------------------------------------
(* What an aggregate computes.                                             *)

LEMMA PlaceFacts ==
  ASSUME TypeOK, NEW S \in SUBSET Sets
  PROVE  /\ \A p \in Places(S) : /\ \E s \in Sets : p \in FieldsIn(s)
                                 /\ At(p).sub \in Sets \cup {None}
         /\ IsFiniteSet(Places(S))
<1>1. \A p \in Places(S) : \E s \in Sets : p \in FieldsIn(s)
  <2>1. Places(S) = UNION {FieldsIn(t) : t \in Reach(S, Follows)}
    BY DEF Places, FieldsIn, Follows
  <2>2. Reach(S, Follows) \subseteq Sets
    BY DEF Reach
  <2>. QED  BY <2>1, <2>2
<1>2. ASSUME NEW s \in Sets, NEW p \in FieldsIn(s) PROVE At(p).sub \in Sets \cup {None}
  <2>1. PICK i \in DOMAIN doc.sets[s] : p = <<s, i>> /\ doc.sets[s][i].kind = "field"
    BY DEF FieldsIn
  <2>2. At(p) = doc.sets[s][i] /\ IsSelection(doc, doc.sets[s][i])
    BY <2>1, DocumentFacts DEF At, IsDocument, Sets
  <2>. QED  BY <2>1, <2>2 DEF IsSelection, Sets
<1>3. IsFiniteSet(UNION {FieldsIn(s) : s \in Sets})
  <2>1. IsFiniteSet(Sets)
    <3>1. Sets = 1 .. Len(doc.sets) /\ Len(doc.sets) \in Nat
      BY DocumentFacts, LenProperties DEF IsDocument, IsSequence, Sets
    <3>. QED  BY <3>1, FS_Interval
  <2>2. ASSUME NEW s \in Sets PROVE IsFiniteSet(FieldsIn(s))
    <3>. DEFINE I == {j \in DOMAIN doc.sets[s] : doc.sets[s][j].kind = "field"}
                f == [i \in I |-> <<s, i>>]
    <3>1. Len(doc.sets[s]) \in Nat /\ DOMAIN doc.sets[s] = 1 .. Len(doc.sets[s])
      BY DocumentFacts
    <3>2. I \subseteq 1 .. Len(doc.sets[s])
      BY <3>1
    <3>a. IsFiniteSet(1 .. Len(doc.sets[s]))
      <4>. HIDE DEF I
      <4>. QED  BY <3>1, FS_Interval
    <3>3. IsFiniteSet(I)
      <4>. HIDE DEF I
      <4>. QED  BY <3>2, <3>a, FS_Subset
    <3>4. f \in Surjection(I, FieldsIn(s))
      BY DEF Surjection, FieldsIn
    <3>. QED  BY <3>3, <3>4, FS_Surjection
  <2>. DEFINE C == {FieldsIn(s) : s \in Sets}
              g == [s \in Sets |-> FieldsIn(s)]
  <2>3. g \in Surjection(Sets, C)
    BY DEF Surjection
  <2>4. IsFiniteSet(C)
    BY <2>1, <2>3, FS_Surjection
  <2>5. \A T \in C : IsFiniteSet(T)
    BY <2>2
  <2>. HIDE DEF C
  <2>6. IsFiniteSet(UNION C)
    BY <2>4, <2>5, FS_UNION
  <2>. QED  BY <2>6 DEF C
<1>4. Places(S) \subseteq UNION {FieldsIn(s) : s \in Sets}
  BY <1>1
<1>. QED  BY <1>1, <1>2, <1>3, <1>4, FS_Subset

\* The fields of a sequence lead to those that a client finds below them.
LEMMA FieldsBelow ==
  ASSUME TypeOK, Acyclic, NEW P, \A p \in P : At(p).sub \in Sets \cup {None},
         NEW q \in Seq(AllSelections), ToSet(q) = {At(p) : p \in P}
  PROVE  LET fields == FlattenSeq([i \in DOMAIN q |-> flattenFields[q[i].sub]])
         IN  /\ fields \in Seq(AllSelections)
             /\ ToSet(fields) = {At(p) : p \in Places(Subs(P))}
<1>. DEFINE V == AllSelections
            n == Len(q)
            qs == [i \in DOMAIN q |-> flattenFields[q[i].sub]]
<1>1. n \in Nat /\ DOMAIN q = 1 .. n
  BY LenProperties
<1>2. \A i \in 1 .. n : \E p \in P : q[i] = At(p)
  BY <1>1 DEF ToSet
<1>3. \A p \in P : \E i \in 1 .. n : q[i] = At(p)
  BY <1>1 DEF ToSet
<1>4. <<>> \in Seq(V)
  OBVIOUS
<1>5. \A i \in 1 .. n : flattenFields[q[i].sub] \in Seq(V)
  <2>1. \A i \in 1 .. n : q[i].sub \in Sets \cup {None}
    BY <1>2
  <2>. QED  BY <1>4, <2>1, FlattenUnfolds
<1>6. qs \in Seq(Seq(V)) /\ Len(qs) = n /\ \A i \in 1 .. n : qs[i] = flattenFields[q[i].sub]
  <2>. HIDE DEF V, n
  <2>1. qs \in [1 .. n -> Seq(V)] /\ \A i \in 1 .. n : qs[i] = flattenFields[q[i].sub]
    BY <1>1, <1>5
  <2>. HIDE DEF qs
  <2>2. qs \in Seq(Seq(V))
    BY <1>1, <2>1
  <2>3. Len(qs) = n
    BY <1>1, <2>1, <2>2, LenProperties
  <2>. QED  BY <2>1, <2>2, <2>3
<1>. HIDE DEF qs
<1>7. FlattenSeq(qs) \in Seq(V) /\ ToSet(FlattenSeq(qs)) = UNION {ToSet(qs[i]) : i \in 1 .. n}
  <2>. HIDE DEF V, n
  <2>. QED  BY <1>6, FlattenFacts
<1>8. Subs(P) \in SUBSET Sets /\ \A p \in P : At(p).sub # None => At(p).sub \in Subs(P)
  BY DEF Subs
<1>9. \A s \in Subs(P) : \E p \in P : At(p).sub = s /\ s # None
  BY DEF Subs
<1>10. \A x : x \in {At(p) : p \in Places(Subs(P))} <=>
               \E s \in Subs(P) : x \in {At(p) : p \in Places({s})}
  <2>1. Places(Subs(P)) = UNION {Places({s}) : s \in Subs(P)}
    BY <1>8, PlacesSplit
  <2>2. \A p : p \in Places(Subs(P)) <=> \E s \in Subs(P) : p \in Places({s})
    BY <2>1
  <2>3. \A x, Q : x \in {At(p) : p \in Q} <=> \E p \in Q : x = At(p)
    OBVIOUS
  <2>. QED  BY <2>2, <2>3
<1>11. \A s \in Subs(P) : ToSet(flattenFields[s]) = {At(p) : p \in Places({s})}
  BY <1>8, FlattenIsPlaces
<1>12. ToSet(flattenFields[None]) = {}
  BY FlattenUnfolds DEF ToSet
<1>13. \A x : x \in ToSet(FlattenSeq(qs)) <=> \E i \in 1 .. n : x \in ToSet(flattenFields[q[i].sub])
  <2>1. \A x : x \in ToSet(FlattenSeq(qs)) <=> \E i \in 1 .. n : x \in ToSet(qs[i])
    BY <1>7
  <2>. QED  BY <1>6, <2>1
<1>. HIDE DEF n
<1>14. \A x : (\E i \in 1 .. n : x \in ToSet(flattenFields[q[i].sub])) <=>
               \E p \in P : x \in ToSet(flattenFields[At(p).sub])
  BY <1>2, <1>3
<1>15. \A x : (\E p \in P : x \in ToSet(flattenFields[At(p).sub])) <=>
               \E s \in Subs(P) : x \in ToSet(flattenFields[s])
  BY <1>8, <1>9, <1>12
<1>16. \A x : x \in ToSet(FlattenSeq(qs)) <=> \E s \in Subs(P) : x \in {At(p) : p \in Places({s})}
  <2>1. \A x : x \in ToSet(FlattenSeq(qs)) <=> \E s \in Subs(P) : x \in ToSet(flattenFields[s])
    BY <1>13, <1>14, <1>15
  <2>. QED  BY <1>11, <2>1
<1>17. ToSet(FlattenSeq(qs)) = {At(p) : p \in Places(Subs(P))}
  BY <1>10, <1>16
<1>. QED  BY <1>7, <1>17 DEF qs, V

LEMMA ColumnsFacts ==
  ASSUME TypeOK, Acyclic, NEW p, At(p).sub \in Sets \cup {None}
  PROVE  cols(At(p).sub) = {At(r).name : r \in Places(Subs({p}))} \cap Columns
<1>. DEFINE s == At(p).sub
<1>1. CASE s = None
  <2>1. Subs({p}) = {}
    BY <1>1 DEF Subs
  <2>2. Places({}) = {}
    <3>1. Places({}) = UNION {Places({t}) : t \in {}}
      BY PlacesSplit
    <3>. QED  BY <3>1
  <2>3. ToSet(flattenFields[s]) = {}
    BY <1>1, FlattenUnfolds DEF ToSet
  <2>. QED  BY <2>1, <2>2, <2>3 DEF cols
<1>2. CASE s # None
  <2>1. Subs({p}) = {s} /\ s \in Sets
    BY <1>2 DEF Subs
  <2>2. ToSet(flattenFields[s]) = {At(r) : r \in Places({s})}
    BY <2>1, FlattenIsPlaces
  <2>. QED  BY <2>1, <2>2 DEF cols
<1>. QED  BY <1>1, <1>2

\* The last selection of a function is one of them.
LEMMA AssignedFacts ==
  ASSUME TypeOK, NEW fields \in Seq(AllSelections), NEW P, ToSet(fields) = {At(p) : p \in P}, NEW f
  PROVE  \/ Assigned(fields, f) = {} /\ ~ \E p \in P : At(p).name = f
         \/ \E p \in P : At(p).name = f /\ Assigned(fields, f) = cols(At(p).sub)
<1>. DEFINE at == {i \in DOMAIN fields : fields[i].name = f}
<1>1. Len(fields) \in Nat /\ DOMAIN fields = 1 .. Len(fields)
  BY LenProperties
<1>2. \A i \in DOMAIN fields : \E p \in P : fields[i] = At(p)
  BY DEF ToSet
<1>3. \A p \in P : \E i \in DOMAIN fields : fields[i] = At(p)
  BY DEF ToSet
<1>4. CASE at = {}
  BY <1>3, <1>4 DEF Assigned
<1>5. CASE at # {}
  <2>1. at \in SUBSET Int /\ at \subseteq 1 .. Len(fields) /\ IsFiniteSet(1 .. Len(fields))
    BY <1>1, FS_Interval
  <2>. HIDE DEF at
  <2>2. IsFiniteSet(at)
    BY <2>1, FS_Subset
  <2>3. Max(at) \in at
    BY <1>5, <2>1, <2>2, Greatest
  <2>4. PICK p \in P : fields[Max(at)] = At(p) /\ At(p).name = f
    BY <1>2, <2>3 DEF at
  <2>5. Assigned(fields, f) = cols(fields[Max(at)].sub)
    BY <1>5 DEF Assigned, at
  <2>. QED  BY <2>4, <2>5
<1>. QED  BY <1>4, <1>5

LEMMA SameSelections ==
  ASSUME doc' = doc
  PROVE  \A f : Selected(f)' = Selected(f) /\ Uses(f)' = Uses(f)
<1>1. /\ \A p : At(p)' = At(p)
      /\ \A P : Subs(P)' = Subs(P)
      /\ \A S, kinds : Beneath(S, kinds)' = Beneath(S, kinds)
      /\ Sets' = Sets
  <2>1. \A p : At(p)' = At(p)
    BY DEF At
  <2>2. \A sel : Target(sel)' = Target(sel)
    BY SameDocument
  <2>. QED  BY <2>1, <2>2 DEF Subs, Beneath, Sets
<1>2. \A S, kinds : Reach(S, kinds)' = Reach(S, kinds)
  BY <1>1 DEF Reach, Closed
<1>3. \A S : Places(S)' = Places(S)
  BY <1>2 DEF Places
<1>4. FieldPlaces' = FieldPlaces
  BY <1>1, <1>3 DEF FieldPlaces
<1>5. \A f : Uses(f)' = Uses(f)
  BY <1>1, <1>4 DEF Uses
<1>. QED  BY <1>1, <1>3, <1>5 DEF Selected

LEMMA ResolveComputes == ASSUME TypeOK, Resolve PROVE AggregatesComputed'
<1>. DEFINE op == doc.ops[1]
            asts == flattenFields[op]
            fields == FlattenSeq([i \in DOMAIN asts |-> flattenFields[asts[i].sub]])
<1>1. Acyclic /\ op \in Sets
  BY DocumentFacts, ElementOfSeq DEF Resolve, Valid
<1>2. asts \in Seq(AllSelections) /\ ToSet(asts) = {At(p) : p \in Places({op})}
  BY <1>1, FlattenUnfolds, FlattenIsPlaces
<1>3. \A p \in Places({op}) : At(p).sub \in Sets \cup {None}
  BY <1>1, PlaceFacts
<1>4. fields \in Seq(AllSelections) /\ ToSet(fields) = {At(p) : p \in FieldPlaces}
  <2>. HIDE DEF asts, op
  <2>. QED  BY <1>1, <1>2, <1>3, FieldsBelow DEF FieldPlaces, op
<1>5. /\ Subs(Places({op})) \in SUBSET Sets
      /\ \A p \in FieldPlaces : At(p).sub \in Sets \cup {None}
      /\ IsFiniteSet(FieldPlaces)
  <2>1. Subs(Places({op})) \in SUBSET Sets
    BY <1>3 DEF Subs
  <2>. QED  BY <2>1, PlaceFacts DEF FieldPlaces
<1>6. req' = Computed(collectAggSelections(asts)) /\ UNCHANGED vars
  BY DEF Resolve
<1>7. \A f \in Functions : req'.columns[f] = Assigned(fields, f)
  <2>1. collectAggSelections(asts) = [count |-> \E f \in ToSet(fields) : f.name = "count",
                                     columns |-> [f \in Functions |-> Assigned(fields, f)]]
    BY DEF collectAggSelections
  <2>. HIDE DEF fields, asts
  <2>. QED  BY <1>6, <2>1 DEF Computed
<1>8. ASSUME NEW f \in Functions
      PROVE  /\ req'.columns[f] \subseteq Selected(f)
             /\ Cardinality(Uses(f)) = 1 => req'.columns[f] = Selected(f)
  <2>1. IsFiniteSet(Uses(f)) /\ Uses(f) \subseteq FieldPlaces
    <3>1. Uses(f) \subseteq FieldPlaces
      BY DEF Uses
    <3>. QED  BY <1>5, <3>1, FS_Subset
  <2>. HIDE DEF fields, asts, op
  <2>2. \/ Assigned(fields, f) = {} /\ ~ \E p \in FieldPlaces : At(p).name = f
        \/ \E p \in FieldPlaces : At(p).name = f /\ Assigned(fields, f) = cols(At(p).sub)
    BY <1>4, AssignedFacts
  <2>3. CASE Assigned(fields, f) = {} /\ ~ \E p \in FieldPlaces : At(p).name = f
    <3>1. Uses(f) = {}
      BY <2>3 DEF Uses
    <3>2. Cardinality(Uses(f)) # 1
      BY <3>1, FS_EmptySet
    <3>. QED  BY <1>7, <2>3, <3>2
  <2>4. CASE \E p \in FieldPlaces : At(p).name = f /\ Assigned(fields, f) = cols(At(p).sub)
    <3>1. PICK p \in FieldPlaces : At(p).name = f /\ Assigned(fields, f) = cols(At(p).sub)
      BY <2>4
    <3>2. req'.columns[f] = {At(r).name : r \in Places(Subs({p}))} \cap Columns
      BY <1>1, <1>5, <1>7, <3>1, ColumnsFacts
    <3>3. p \in Uses(f)
      BY <3>1 DEF Uses
    <3>4. Places(Subs({p})) \subseteq Places(Subs(Uses(f)))
      <4>1. /\ Subs({p}) \subseteq Subs(Uses(f)) /\ Subs(Uses(f)) \in SUBSET Sets
            /\ Subs({p}) \in SUBSET Sets
        BY <1>5, <2>1, <3>3 DEF Subs
      <4>2. /\ Places(Subs({p})) = UNION {Places({s}) : s \in Subs({p})}
            /\ Places(Subs(Uses(f))) = UNION {Places({s}) : s \in Subs(Uses(f))}
        BY <4>1, PlacesSplit
      <4>. QED  BY <4>1, <4>2
    <3>5. req'.columns[f] \subseteq Selected(f)
      BY <3>2, <3>4 DEF Selected
    <3>6. ASSUME Cardinality(Uses(f)) = 1 PROVE req'.columns[f] = Selected(f)
      <4>1. Uses(f) = {p}
        BY <2>1, <3>3, <3>6, FS_Singleton
      <4>2. Selected(f) = {At(r).name : r \in Places(Subs({p}))}
        BY <4>1 DEF Selected
      <4>3. f # "count"
        BY DEF Functions
      <4>4. \A r \in Places(Subs({p})) : At(r).name \in Columns
        BY <3>1, <4>3 DEF Resolve, Valid, Named
      <4>. QED  BY <3>2, <4>2, <4>4
    <3>. QED  BY <3>5, <3>6
  <2>. QED  BY <2>2, <2>3, <2>4
<1>9. \A f \in Functions : Selected(f)' = Selected(f) /\ Uses(f)' = Uses(f)
  BY <1>6, SameSelections DEF vars
<1>. QED  BY <1>8, <1>9 DEF AggregatesComputed

\* "Only the aggregates you actually select are computed", and those "even when
\* the client wraps them in fragments": for documents of any size and nesting,
\* no column is computed that was not selected, and a function that is selected
\* in one place has all its columns.
THEOREM SelectedIsComputed == RequestSpec => []AggregatesComputed
<1>1. RequestInit => TypeOK /\ AggregatesComputed
  <2>1. RequestInit => Inv
    BY InvInit DEF RequestInit
  <2>. QED  BY <2>1 DEF Inv, RequestInit, AggregatesComputed
<1>2. ASSUME Inv, AggregatesComputed, [RequestNext]_<<vars, req>> PROVE Inv' /\ AggregatesComputed'
  <2>1. [Next]_vars
    BY <1>2 DEF RequestNext, Resolve
  <2>2. Inv'
    BY <1>2, <2>1, InvStep
  <2>3. CASE Resolve
    BY <1>2, <2>2, <2>3, ResolveComputes DEF Inv
  <2>4. CASE UNCHANGED req
    <3>1. doc' = doc
      BY <2>1 DEF Next, Accept, Operation, Shallow, Nested, Spread, Return, vars
    <3>. QED  BY <1>2, <2>2, <2>4, <3>1, SameSelections DEF AggregatesComputed
  <2>. QED  BY <1>2, <2>2, <2>3, <2>4 DEF RequestNext
<1>3. RequestInit => Inv
  BY InvInit DEF RequestInit
<1>. QED  BY <1>1, <1>2, <1>3, PTL DEF RequestSpec
=============================================================================
