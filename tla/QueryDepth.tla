----------------------------- MODULE QueryDepth -----------------------------
(***************************************************************************)
(* The depth check of a request, before its document is validated          *)
(* (checkDepth of server/depth.go).                                        *)
(*                                                                         *)
(* A document is the tree the parser returns.  Its selection sets are      *)
(* numbered; a set is a sequence of selections: fields and inline          *)
(* fragments, with a set of their own or None, and spreads of fragments by *)
(* name.  The recursion of checkDepth is a stack of frames, so that every  *)
(* visit is a step.                                                        *)
(***************************************************************************)
EXTENDS Integers, SequencesExt

CONSTANTS
  Documents,   \* [sets, frags, ops] as parsed; see IsDocument
  MaxDepths,   \* values of server.max_query_depth
  Fragments,   \* names of fragments, defined or not
  None         \* no selection set, no fragment

Bodies(d) == {d.frags[f] : f \in DOMAIN d.frags}
Roots(d) == {d.ops[k] : k \in DOMAIN d.ops}

\* A selection, and what may be below it.
IsSelection(d, sel) ==
  \/ sel.kind = "field" /\ sel.sub \in DOMAIN d.sets \cup {None}
  \/ sel.kind = "inline" /\ sel.sub \in DOMAIN d.sets
  \/ sel.kind = "spread" /\ sel.name \in Fragments /\ sel.sub = None

IsSequence(q) == q \in Seq({q[i] : i \in DOMAIN q})
IsDocument(d) ==
  /\ IsSequence(d.sets) /\ d.ops \in Seq(DOMAIN d.sets)
  /\ DOMAIN d.frags \subseteq Fragments /\ Bodies(d) \subseteq DOMAIN d.sets
  /\ \A s \in DOMAIN d.sets :
       /\ IsSequence(d.sets[s])
       /\ \A i \in DOMAIN d.sets[s] : IsSelection(d, d.sets[s][i])

\* A selection set stands in one place of the text: it is an operation's, a
\* fragment's, or that of one selection.
IsTree(d) ==
  /\ \A k, l \in DOMAIN d.ops : d.ops[k] = d.ops[l] => k = l
  /\ \A f, g \in DOMAIN d.frags : d.frags[f] = d.frags[g] => f = g
  /\ Roots(d) \cap Bodies(d) = {}
  /\ \A s \in DOMAIN d.sets : \A i \in DOMAIN d.sets[s] :
       d.sets[s][i].sub # None =>
         /\ d.sets[s][i].sub \notin Roots(d) \cup Bodies(d)
         /\ \A t \in DOMAIN d.sets : \A j \in DOMAIN d.sets[t] :
              d.sets[t][j].sub = d.sets[s][i].sub => s = t /\ i = j

ASSUME DocumentAssumption ==
  /\ MaxDepths \subseteq Int
  /\ None \notin Fragments \cup Int
  /\ \A d \in Documents : IsDocument(d) /\ IsTree(d)

VARIABLES
  doc,        \* the document of the request
  maxDepth,   \* the limit of the generation that serves it
  next,       \* the next operation
  stack,      \* selection sets being measured: [set, at, best, adds, frag]
  fragDepth,  \* the depths of fragments, once known
  computing,  \* fragments being measured
  walks,      \* how often each selection set was entered
  verdict     \* "none", "accepted" or "refused"

vars == <<doc, maxDepth, next, stack, fragDepth, computing, walks, verdict>>

Sets == DOMAIN doc.sets
Top == stack[Len(stack)]
Below == SubSeq(stack, 1, Len(stack) - 1)

-----------------------------------------------------------------------------
(* checkDepth.                                                             *)

Init ==
  /\ doc \in Documents /\ maxDepth \in MaxDepths
  /\ next = 1 /\ stack = <<>>
  /\ fragDepth = <<>> /\ computing = {}
  /\ walks = [s \in DOMAIN doc.sets |-> 0]
  /\ verdict = "none"

\* A call of depthOfSet: what it returns counts `adds` more for the caller.
Frame(s, adds, frag) == [set |-> s, at |-> 1, best |-> 0, adds |-> adds, frag |-> frag]

Enter(s, adds, frag) ==
  /\ stack' = Append(stack, Frame(s, adds, frag))
  /\ walks' = [walks EXCEPT ![s] = @ + 1]

\* A negative limit switches the check off, and the last operation passed.
Accept ==
  /\ verdict = "none" /\ stack = <<>>
  /\ maxDepth < 0 \/ next > Len(doc.ops)
  /\ verdict' = "accepted"
  /\ UNCHANGED <<doc, maxDepth, next, stack, fragDepth, computing, walks>>

Operation ==
  /\ verdict = "none" /\ stack = <<>>
  /\ maxDepth >= 0 /\ next <= Len(doc.ops)
  /\ Enter(doc.ops[next], 0, None)
  /\ next' = next + 1
  /\ UNCHANGED <<doc, maxDepth, fragDepth, computing, verdict>>

\* The frame moves past its selection, which is d deep.
Larger(a, b) == IF a > b THEN a ELSE b
Past(frame, d) == [frame EXCEPT !.at = @ + 1, !.best = Larger(@, d)]

Visiting == stack # <<>> /\ Top.at <= Len(doc.sets[Top.set])
Selection == doc.sets[Top.set][Top.at]

\* A field without a selection set, a spread that is measured already, or that
\* has no body, or that closes a cycle.
Shallow ==
  /\ Visiting
  /\ LET sel == Selection
         d == IF sel.kind = "field" THEN 1
              ELSE IF sel.name \in DOMAIN fragDepth THEN fragDepth[sel.name] ELSE 0
     IN  /\ \/ sel.kind = "field" /\ sel.sub = None
            \/ /\ sel.kind = "spread"
               /\ sel.name \in DOMAIN fragDepth \cup computing \/ sel.name \notin DOMAIN doc.frags
         /\ stack' = [stack EXCEPT ![Len(stack)] = Past(@, d)]
  /\ UNCHANGED <<doc, maxDepth, next, fragDepth, computing, walks, verdict>>

\* Mutant: inline fragments count as a level.
InlineCounts(sel) == 1
Adds(sel) == IF sel.kind = "field" THEN 1 ELSE 0

Nested ==
  /\ Visiting
  /\ Selection.kind # "spread" /\ Selection.sub # None
  /\ Enter(Selection.sub, Adds(Selection), None)
  /\ UNCHANGED <<doc, maxDepth, next, fragDepth, computing, verdict>>

\* A spread of a fragment that is met for the first time.
Spread ==
  /\ Visiting
  /\ Selection.kind = "spread"
  /\ LET f == Selection.name
     IN  /\ f \in DOMAIN doc.frags /\ f \notin DOMAIN fragDepth \cup computing
         /\ Enter(doc.frags[f], 0, f)
         /\ computing' = computing \cup {f}
  /\ UNCHANGED <<doc, maxDepth, next, fragDepth, verdict>>

\* Mutant: the mark against cycles stays.
Marked(frag) == computing
Released(frag) == computing \ {frag}

\* Mutant: nothing is memoized.
Forgotten(frag, d) == fragDepth
Memoized(frag, d) == [f \in DOMAIN fragDepth \cup {frag} |-> IF f = frag THEN d ELSE fragDepth[f]]

\* depthOfSet returns, to the operation or into the frame below.
Return ==
  /\ stack # <<>> /\ Top.at > Len(doc.sets[Top.set])
  /\ IF Top.frag = None
       THEN UNCHANGED <<fragDepth, computing>>
       ELSE /\ fragDepth' = Memoized(Top.frag, Top.best)
            /\ computing' = Released(Top.frag)
  /\ IF Below = <<>>
       THEN /\ stack' = <<>>
            /\ verdict' = IF Top.best > maxDepth THEN "refused" ELSE verdict
       ELSE /\ stack' = [Below EXCEPT ![Len(Below)] = Past(@, Top.adds + Top.best)]
            /\ UNCHANGED verdict
  /\ UNCHANGED <<doc, maxDepth, next, walks>>

Next == Accept \/ Operation \/ Shallow \/ Nested \/ Spread \/ Return

Spec == Init /\ [][Next]_vars

-----------------------------------------------------------------------------
FrameType ==
  [set : Sets, at : Nat \ {0}, best : Nat, adds : {0, 1}, frag : DOMAIN doc.frags \cup {None}]

\* Every variable has its type, what is measured is a part of the document, and
\* a fragment that was measured is not taken for a cycle.
TypeOK ==
  /\ doc \in Documents /\ maxDepth \in MaxDepths
  /\ next \in 1 .. Len(doc.ops) + 1
  /\ stack \in Seq(FrameType)
  /\ DOMAIN fragDepth \subseteq DOMAIN doc.frags
  /\ \A f \in DOMAIN fragDepth : fragDepth[f] \in Nat
  /\ computing \subseteq DOMAIN doc.frags \ DOMAIN fragDepth
  /\ walks \in [Sets -> Nat]
  /\ verdict \in {"none", "accepted", "refused"}

\* "Without memoization a document whose fragments each spread the next one
\* twice forces 2^N visits": however fragments spread one another, cycles
\* included, no selection set of the document is entered twice.
WalkedOnce == \A s \in Sets : walks[s] <= 1

-----------------------------------------------------------------------------
(* The document with its fragments written out.                            *)

\* The set that a selection leads to: its own, or that of its fragment.
Target(sel) ==
  IF sel.kind # "spread" THEN sel.sub
  ELSE IF sel.name \in DOMAIN doc.frags THEN doc.frags[sel.name] ELSE None

\* There is no cycle, that is no set S of selection sets from each of which a
\* selection leads back into S.
Targets(s) == {Target(sel) : sel \in ToSet(doc.sets[s])} \ {None}
Cycles == {S \in SUBSET Sets : S # {} /\ \A s \in S : Targets(s) \cap S # {}}
Acyclic == Cycles = {}

\* The depth of a set: fields nested in fields, fragments where they stand.
Depth[s \in Sets] ==
  LET under(sel) == (IF sel.kind = "field" THEN 1 ELSE 0)
                    + (IF Target(sel) = None THEN 0 ELSE Depth[Target(sel)])
  IN  Max({0} \cup {under(sel) : sel \in ToSet(doc.sets[s])})

TooDeep(k) == Depth[doc.ops[k]] > maxDepth

\* The memoized scan refuses exactly the documents that a plain one would:
\* some operation, written out without fragments, is deeper than
\* max_query_depth ("still measure the true depth through the fan-out").
DepthIsUnfolded ==
  verdict # "none" /\ Acyclic =>
    (verdict = "refused" <=> maxDepth >= 0 /\ \E k \in DOMAIN doc.ops : TooDeep(k))
=============================================================================
