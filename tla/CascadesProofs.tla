--------------------------- MODULE CascadesProofs ---------------------------
(***************************************************************************)
(* Proofs about Cascades: for every logical plan the search for winners    *)
(* leaves no group on its way without one, and FindBestExp returns the     *)
(* physical plan of the query.                                             *)
(***************************************************************************)
EXTENDS Cascades, FiniteSetTheorems, SequenceTheorems, WellFoundedInduction, TLAPS

-----------------------------------------------------------------------------
(* The inductive invariant *)

\* The expression of node i, logical or physical.
MemoExpr(i, physical) ==
  [node |-> i, physical |-> physical, group |-> GroupOf(i),
   children |-> [k \in DOMAIN plan.inputs[i] |-> GroupOf(plan.inputs[i][k])]]

HasPhysical(i) ==
  \E e \in DOMAIN exprs : exprs[e].physical /\ exprs[e].group = GroupOf(i)

\* The memo: the logical expression of every node, and at most one physical one,
\* which is there when its rule has fired.
MemoOK ==
  /\ counter \in Nat /\ counter >= 2 * Len(plan.kind)
  /\ DOMAIN winner = {GroupOf(i) : i \in Nodes}
  /\ DOMAIN exprs \cup Groups = 1 .. counter
  /\ DOMAIN exprs \cap Groups = {}
  /\ \A i \in Nodes : ExprOf(i) \in DOMAIN exprs /\ exprs[ExprOf(i)] = MemoExpr(i, FALSE)
  /\ \A e \in DOMAIN exprs :
       /\ exprs[e].node \in Nodes
       /\ exprs[e].physical \in BOOLEAN
       /\ exprs[e] = MemoExpr(exprs[e].node, exprs[e].physical)
       /\ ~exprs[e].physical => e = ExprOf(exprs[e].node)
  /\ \A d, e \in DOMAIN exprs :
       exprs[d].physical /\ exprs[e].physical /\ exprs[d].node = exprs[e].node => d = e
  /\ \A i \in Nodes, r \in DOMAIN Rules :
       plan.kind[i] = Rules[r] => (<<ExprOf(i), r>> \in fired <=> HasPhysical(i))

\* A winner is a physical expression of its group whose inputs have winners.
WinnerOK(g) ==
  winner[g] = NoWinner \/
    /\ winner[g] \in [expr : DOMAIN exprs, cost : {0}]
    /\ exprs[winner[g].expr].physical
    /\ exprs[winner[g].expr].group = g
    /\ \A c \in Range(exprs[winner[g].expr].children) : winner[c] # NoWinner

\* A task on the stack: the expressions rules are applied to are logical, those
\* whose inputs are optimised physical, with winners for the inputs passed.
TaskOK(t) ==
  \/ t \in [type : {"OptimizeGroup", "ExploreGroup"}, group : Groups]
  \/ /\ t \in [type : {"OptimizeExpr"}, expr : DOMAIN exprs, exploring : BOOLEAN]
     /\ ~exprs[t.expr].physical
  \/ /\ t \in [type : {"ApplyRule"}, rule : DOMAIN Rules, expr : DOMAIN exprs]
     /\ Matches(t.rule, t.expr)
  \/ /\ t \in [type : {"OptimizeInputs"}, expr : DOMAIN exprs]
     /\ exprs[t.expr].physical
  \/ /\ t \in [type : {"ContinueInputs"}, expr : DOMAIN exprs, next : Nat \ {0},
               cost : Seq({0}), returned : BOOLEAN]
     /\ exprs[t.expr].physical
     /\ t.next <= Len(exprs[t.expr].children) + 1
     /\ t.returned => t.next <= Len(exprs[t.expr].children)
     /\ \A k \in 1 .. t.next - 1 : winner[exprs[t.expr].children[k]] # NoWinner

\* Running t, and then whatever it pushes, gives group g a winner.
Promises(t, g) ==
  \/ t.type = "OptimizeGroup" /\ t.group = g
  \/ /\ t.type = "OptimizeExpr" /\ ~t.exploring
     /\ exprs[t.expr].group = g
     /\ \E r \in DOMAIN Rules : Matches(r, t.expr) /\ <<t.expr, r>> \notin fired
  \/ /\ t.type = "ApplyRule"
     /\ exprs[t.expr].group = g
     /\ <<t.expr, t.rule>> \notin fired
  \/ t.type \in {"OptimizeInputs", "ContinueInputs"} /\ exprs[t.expr].group = g

\* Group g has a winner, or gets one before the task at j is on top again.
Owed(j, g) ==
  winner[g] # NoWinner \/ \E k \in DOMAIN tasks : k > j /\ Promises(tasks[k], g)

\* The input a task waits for.
Awaited(t) == exprs[t.expr].children[t.next]

Waits(t) == t.type = "ContinueInputs" /\ t.returned

IsSeq(s) == s \in Seq(Range(s))

StackOK ==
  /\ IsSeq(tasks)
  /\ \A j \in DOMAIN tasks : TaskOK(tasks[j])
  /\ \A j \in DOMAIN tasks : Waits(tasks[j]) => Owed(j, Awaited(tasks[j]))
  /\ Owed(0, GroupOf(Len(plan.kind)))

SearchInv ==
  /\ MemoOK
  /\ \A g \in Groups : WinnerOK(g)
  /\ explored \subseteq Groups
  /\ StackOK

CascadesInv ==
  /\ plan \in Plans
  /\ \/ /\ phase = "start"
        /\ exprs = <<>> /\ winner = <<>> /\ counter = 0
        /\ tasks = <<>> /\ fired = {} /\ explored = {} /\ best = NoPlan
     \/ /\ phase \in {"search", "done"}
        /\ SearchInv
        /\ phase = "done" => best = PhysicalPlan

-----------------------------------------------------------------------------
(* Numbers and sequences *)

\* A set of natural numbers that is not empty has a least one.
LEMMA LeastNumber ==
  ASSUME NEW T \in SUBSET Nat, T # {}
  PROVE  \E m \in T : \A k \in T : m <= k
<1> DEFINE R == OpToRel(<, Nat)
<1>1. IsWellFoundedOn(R, Nat)
  BY NatLessThanWellFounded
<1> HIDE DEF R
<1>2. PICK m \in T : \A k \in T : ~(<<k, m>> \in R)
  BY <1>1, WFMin, Zenon
<1>3. ASSUME NEW k \in T PROVE m <= k
  <2>1. k \in Nat /\ m \in Nat
    OBVIOUS
  <2>2. k < m => <<k, m>> \in R
    BY <2>1 DEF R, OpToRel
  <2> QED
    BY <1>2, <2>1, <2>2
<1> QED
  BY <1>3

\* A function on 1 .. n is a sequence.
LEMMA FunctionIsSeq ==
  ASSUME NEW n \in Nat, NEW T, NEW s \in [1 .. n -> T]
  PROVE  IsSeq(s) /\ Len(s) = n
<1>1. s \in [1 .. n -> Range(s)]
  BY DEF Range
<1> QED
  BY <1>1 DEF IsSeq

\* A sequence of some set is one of its range.
LEMMA SeqIsSeq ==
  ASSUME NEW T, NEW s \in Seq(T)
  PROVE  IsSeq(s)
<1>1. s \in [1 .. Len(s) -> T] /\ Len(s) \in Nat
  OBVIOUS
<1> QED
  BY <1>1, FunctionIsSeq

\* r is s followed by t.
IsConcat(r, s, t) ==
  /\ IsSeq(r)
  /\ Len(s) \in Nat /\ Len(t) \in Nat
  /\ Len(r) = Len(s) + Len(t)
  /\ \A j \in 1 .. Len(s) : r[j] = s[j]
  /\ \A k \in 1 .. Len(t) : r[Len(s) + k] = t[k]
  /\ \A j \in 1 .. Len(r) :
       j \in 1 .. Len(s) \/ \E k \in 1 .. Len(t) : j = Len(s) + k

\* Two sequences one after the other.
LEMMA ConcatSeq ==
  ASSUME NEW s, IsSeq(s), NEW t, IsSeq(t)
  PROVE  IsConcat(s \o t, s, t)
<1> DEFINE T == Range(s) \cup Range(t)
<1>1. s \in Seq(T) /\ t \in Seq(T)
  BY DEF IsSeq
<1> HIDE DEF T
<1>2. s \o t \in Seq(T) /\ Len(s) \in Nat /\ Len(t) \in Nat /\ Len(s \o t) = Len(s) + Len(t)
  BY <1>1
<1>3. IsSeq(s \o t)
  BY <1>2, SeqIsSeq
<1>4. \A j \in 1 .. Len(s) : (s \o t)[j] = s[j]
  BY <1>1
<1>5. \A k \in 1 .. Len(t) : (s \o t)[Len(s) + k] = t[k]
  BY <1>1, <1>2
<1>6. ASSUME NEW j \in 1 .. Len(s \o t), j \notin 1 .. Len(s)
      PROVE  \E k \in 1 .. Len(t) : j = Len(s) + k
  <2>1. j - Len(s) \in 1 .. Len(t) /\ j = Len(s) + (j - Len(s))
    BY <1>2, <1>6
  <2> QED
    BY <2>1
<1> QED
  BY <1>2, <1>3, <1>4, <1>5, <1>6 DEF IsConcat

\* r is the stack s with its top replaced by t.
IsPushed(r, s, t) ==
  /\ IsSeq(r)
  /\ Len(s) \in Nat \ {0} /\ Len(t) \in Nat
  /\ Last(s) = s[Len(s)]
  /\ Len(r) = Len(s) - 1 + Len(t)
  /\ \A j \in 1 .. Len(s) - 1 : r[j] = s[j]
  /\ \A k \in 1 .. Len(t) : r[Len(s) - 1 + k] = t[k]
  /\ \A j \in 1 .. Len(r) :
       j \in 1 .. Len(s) - 1 \/ \E k \in 1 .. Len(t) : j = Len(s) - 1 + k

\* What Push makes of a stack.
LEMMA PushSeq ==
  ASSUME NEW s, IsSeq(s), s # <<>>, NEW t, IsSeq(t)
  PROVE  IsPushed(Front(s) \o t, s, t)
<1>1. s \in Seq(Range(s))
  BY DEF IsSeq
<1>2. Len(s) \in Nat \ {0}
  BY <1>1
<1>3. /\ Front(s) \in Seq(Range(s)) /\ Len(Front(s)) = Len(s) - 1
      /\ \A j \in 1 .. Len(s) - 1 : Front(s)[j] = s[j]
  <2> DEFINE m == Len(s) - 1
             u == SubSeq(s, 1, m)
  <2>1. m \in Nat /\ 1 .. m \subseteq 1 .. Len(s) /\ m - 1 + 1 = m
    BY <1>2
  <2>2. \A j \in 1 .. m : s[j] \in Range(s) /\ 1 + j - 1 = j
    BY <1>1, <2>1
  <2>3. u = Front(s)
    BY DEF Front
  <2> HIDE DEF m
  <2>4. /\ u \in Seq(Range(s))
        /\ Len(u) = IF 1 <= m THEN m - 1 + 1 ELSE 0
        /\ \A j \in 1 .. m - 1 + 1 : u[j] = s[1 + j - 1]
    BY <2>1, <2>2, SubSeqProperties
  <2> HIDE DEF u
  <2>5. Len(u) = m /\ \A j \in 1 .. m : u[j] = s[j]
    BY <2>1, <2>2, <2>4
  <2> QED
    BY <2>3, <2>4, <2>5 DEF m
<1>4. IsSeq(Front(s))
  BY <1>3, SeqIsSeq
<1> DEFINE f == Front(s)
<1>5. f = Front(s) /\ IsSeq(f)
  BY <1>4
<1> HIDE DEF f
<1>6. IsConcat(f \o t, f, t)
  BY <1>5, ConcatSeq
<1>7. Len(f) = Len(s) - 1 /\ \A j \in 1 .. Len(s) - 1 : f[j] = s[j]
  BY <1>3, <1>5
<1>8. Last(s) = s[Len(s)]
  BY DEF Last
<1> QED
  BY <1>2, <1>5, <1>6, <1>7, <1>8 DEF IsConcat, IsPushed

-----------------------------------------------------------------------------
(* The plan and the memo *)

\* There are three rules, for different kinds of node.
LEMMA RuleFacts ==
  /\ DOMAIN Rules = 1 .. 3
  /\ \A r, q \in DOMAIN Rules : Rules[r] = Rules[q] => r = q
BY DEF Rules

\* A logical plan: every node has a kind some rule is for, and inputs below it.
LEMMA PlanFacts ==
  ASSUME plan \in Plans
  PROVE  /\ Len(plan.kind) \in Nat \ {0}
         /\ Nodes = 1 .. Len(plan.kind)
         /\ DOMAIN plan.inputs = Nodes
         /\ \A i \in Nodes : /\ plan.inputs[i] \in Seq(1 .. i - 1)
                             /\ \E r \in DOMAIN Rules : plan.kind[i] = Rules[r]
<1>1. /\ plan.kind \in Seq(Range(Rules)) /\ Len(plan.kind) > 0
      /\ plan.inputs \in [1 .. Len(plan.kind) -> Seq(Nat)]
      /\ \A i \in 1 .. Len(plan.kind) : plan.inputs[i] \in Seq(1 .. i - 1)
  BY PlansAssumption
<1>2. Len(plan.kind) \in Nat \ {0} /\ Nodes = 1 .. Len(plan.kind)
  BY <1>1 DEF Nodes
<1>3. \A i \in Nodes : plan.kind[i] \in Range(Rules)
  BY <1>1, <1>2
<1> QED
  BY <1>1, <1>2, <1>3 DEF Range

\* The inputs of node i are nodes below it.
LEMMA InputFacts ==
  ASSUME plan \in Plans, NEW i \in Nodes
  PROVE  /\ Len(plan.inputs[i]) \in Nat
         /\ DOMAIN plan.inputs[i] = 1 .. Len(plan.inputs[i])
         /\ \A k \in 1 .. Len(plan.inputs[i]) :
              plan.inputs[i][k] \in Nodes /\ plan.inputs[i][k] < i
<1>1. plan.inputs[i] \in Seq(1 .. i - 1) /\ Nodes = 1 .. Len(plan.kind) /\ Len(plan.kind) \in Nat
  BY PlanFacts
<1>2. i \in Nat
  BY <1>1
<1>3. \A k \in 1 .. Len(plan.inputs[i]) : plan.inputs[i][k] \in 1 .. i - 1
  BY <1>1
<1> QED
  BY <1>1, <1>2, <1>3

\* What the memo knows of an expression: its group is that of its node, and its
\* children are groups.
LEMMA ExprFacts ==
  ASSUME plan \in Plans, MemoOK, NEW e \in DOMAIN exprs
  PROVE  /\ e \in Nat \ {0}
         /\ exprs[e].node \in Nodes
         /\ exprs[e].physical \in BOOLEAN
         /\ exprs[e].group = GroupOf(exprs[e].node) /\ exprs[e].group \in Groups
         /\ exprs[e].children = [k \in DOMAIN plan.inputs[exprs[e].node] |->
                                   GroupOf(plan.inputs[exprs[e].node][k])]
         /\ Len(exprs[e].children) \in Nat
         /\ DOMAIN exprs[e].children = 1 .. Len(exprs[e].children)
         /\ \A k \in 1 .. Len(exprs[e].children) : exprs[e].children[k] \in Groups
<1> DEFINE i == exprs[e].node
<1>1. /\ i \in Nodes /\ exprs[e].physical \in BOOLEAN
      /\ exprs[e] = MemoExpr(i, exprs[e].physical)
  BY DEF MemoOK
<1>2. exprs[e].group = GroupOf(i)
  BY <1>1 DEF MemoExpr
<1>3. exprs[e].children = [k \in DOMAIN plan.inputs[i] |-> GroupOf(plan.inputs[i][k])]
  BY <1>1 DEF MemoExpr
<1> HIDE DEF i
<1>4. /\ Len(plan.inputs[i]) \in Nat
      /\ DOMAIN plan.inputs[i] = 1 .. Len(plan.inputs[i])
      /\ \A k \in 1 .. Len(plan.inputs[i]) : plan.inputs[i][k] \in Nodes
  BY <1>1, InputFacts
<1>5. \A j \in Nodes : GroupOf(j) \in Groups
  BY DEF MemoOK, Groups
<1> DEFINE n == Len(plan.inputs[i])
           ch == exprs[e].children
<1>6. ch \in [1 .. n -> Groups] /\ n \in Nat
  BY <1>3, <1>4, <1>5
<1> HIDE DEF n, ch
<1>7. Len(ch) = n /\ DOMAIN ch = 1 .. n
  BY <1>6
<1>8. e \in Nat \ {0}
  BY DEF MemoOK
<1> QED
  BY <1>1, <1>2, <1>3, <1>5, <1>6, <1>7, <1>8 DEF i, ch

-----------------------------------------------------------------------------
(* The stack *)

\* What a task of each type is.
LEMMA TaskKinds ==
  ASSUME NEW t, TaskOK(t)
  PROVE  /\ t.type = "OptimizeGroup" => t.group \in Groups
         /\ t.type = "ExploreGroup" => t.group \in Groups
         /\ t.type = "OptimizeExpr" =>
              /\ t.expr \in DOMAIN exprs /\ t.exploring \in BOOLEAN /\ ~exprs[t.expr].physical
         /\ t.type = "ApplyRule" =>
              /\ t.expr \in DOMAIN exprs /\ t.rule \in DOMAIN Rules /\ Matches(t.rule, t.expr)
         /\ t.type = "OptimizeInputs" => t.expr \in DOMAIN exprs /\ exprs[t.expr].physical
         /\ t.type = "ContinueInputs" =>
              /\ t.expr \in DOMAIN exprs /\ exprs[t.expr].physical
              /\ t.next \in Nat \ {0} /\ t.cost \in Seq({0}) /\ t.returned \in BOOLEAN
              /\ t.next <= Len(exprs[t.expr].children) + 1
              /\ t.returned => t.next <= Len(exprs[t.expr].children)
              /\ \A k \in 1 .. t.next - 1 : winner[exprs[t.expr].children[k]] # NoWinner
<1>1. CASE t \in [type : {"OptimizeGroup", "ExploreGroup"}, group : Groups]
  BY <1>1
<1>2. CASE /\ t \in [type : {"OptimizeExpr"}, expr : DOMAIN exprs, exploring : BOOLEAN]
           /\ ~exprs[t.expr].physical
  BY <1>2
<1>3. CASE /\ t \in [type : {"ApplyRule"}, rule : DOMAIN Rules, expr : DOMAIN exprs]
           /\ Matches(t.rule, t.expr)
  BY <1>3
<1>4. CASE /\ t \in [type : {"OptimizeInputs"}, expr : DOMAIN exprs]
           /\ exprs[t.expr].physical
  BY <1>4
<1>5. CASE /\ t \in [type : {"ContinueInputs"}, expr : DOMAIN exprs, next : Nat \ {0},
                     cost : Seq({0}), returned : BOOLEAN]
           /\ exprs[t.expr].physical
           /\ t.next <= Len(exprs[t.expr].children) + 1
           /\ t.returned => t.next <= Len(exprs[t.expr].children)
           /\ \A k \in 1 .. t.next - 1 : winner[exprs[t.expr].children[k]] # NoWinner
  BY <1>5
<1> QED
  BY <1>1, <1>2, <1>3, <1>4, <1>5 DEF TaskOK

\* Tasks of the stack stay what they are while expressions and winners are added.
LEMMA TaskKept ==
  ASSUME plan \in Plans, MemoOK, plan' = plan,
         DOMAIN winner' = DOMAIN winner,
         \A g \in Groups : winner[g] # NoWinner => winner'[g] # NoWinner,
         \A e \in DOMAIN exprs : e \in DOMAIN exprs' /\ exprs'[e] = exprs[e],
         NEW t, TaskOK(t)
  PROVE  /\ TaskOK(t)'
         /\ Waits(t) => Awaited(t)' = Awaited(t) /\ Awaited(t) \in Groups
<1>0. Groups' = Groups
  BY DEF Groups
<1>1. CASE t \in [type : {"OptimizeGroup", "ExploreGroup"}, group : Groups]
  BY <1>0, <1>1 DEF TaskOK, Waits
<1>2. CASE /\ t \in [type : {"OptimizeExpr"}, expr : DOMAIN exprs, exploring : BOOLEAN]
           /\ ~exprs[t.expr].physical
  BY <1>2 DEF TaskOK, Waits
<1>3. CASE /\ t \in [type : {"ApplyRule"}, rule : DOMAIN Rules, expr : DOMAIN exprs]
           /\ Matches(t.rule, t.expr)
  BY <1>3 DEF TaskOK, Waits, Matches, Kind
<1>4. CASE /\ t \in [type : {"OptimizeInputs"}, expr : DOMAIN exprs]
           /\ exprs[t.expr].physical
  BY <1>4 DEF TaskOK, Waits
<1>5. CASE /\ t \in [type : {"ContinueInputs"}, expr : DOMAIN exprs, next : Nat \ {0},
                     cost : Seq({0}), returned : BOOLEAN]
           /\ exprs[t.expr].physical
           /\ t.next <= Len(exprs[t.expr].children) + 1
           /\ t.returned => t.next <= Len(exprs[t.expr].children)
           /\ \A k \in 1 .. t.next - 1 : winner[exprs[t.expr].children[k]] # NoWinner
  <2>1. /\ t.expr \in DOMAIN exprs /\ exprs'[t.expr] = exprs[t.expr] /\ t.expr \in DOMAIN exprs'
        /\ t.next \in Nat \ {0} /\ t.returned \in BOOLEAN
    BY <1>5
  <2>2. /\ Len(exprs[t.expr].children) \in Nat
        /\ \A k \in 1 .. Len(exprs[t.expr].children) : exprs[t.expr].children[k] \in Groups
    BY <2>1, ExprFacts
  <2>3. \A k \in 1 .. t.next - 1 : winner'[exprs'[t.expr].children[k]] # NoWinner
    BY <1>5, <2>1, <2>2
  <2>4. t \in [type : {"ContinueInputs"}, expr : DOMAIN exprs', next : Nat \ {0},
               cost : Seq({0}), returned : BOOLEAN]
    BY <1>5, <2>1
  <2>5. TaskOK(t)'
    BY <1>5, <2>1, <2>3, <2>4 DEF TaskOK
  <2>6. t.returned => t.next \in 1 .. Len(exprs[t.expr].children)
    BY <1>5, <2>1, <2>2
  <2> QED
    BY <2>1, <2>2, <2>5, <2>6 DEF Waits, Awaited
<1> QED
  BY <1>1, <1>2, <1>3, <1>4, <1>5 DEF TaskOK

\* The discipline of the stack: if the tasks pushed keep the promises of the task
\* they replace, what was owed to the tasks below is still owed.
LEMMA OwedKept ==
  ASSUME StackOK, tasks # <<>>, NEW new, IsSeq(new), Push(new),
         \A g \in Groups : winner[g] # NoWinner => winner'[g] # NoWinner,
         \A t : TaskOK(t) => \A g \in Groups :
           Promises(t, g) => \/ Promises(t, g)'
                             \/ winner'[g] # NoWinner
                             \/ \E k \in 1 .. Len(new) : Promises(new[k], g)',
         \A g \in Groups :
           Promises(Last(tasks), g) => \/ winner'[g] # NoWinner
                                       \/ \E k \in 1 .. Len(new) : Promises(new[k], g)',
         NEW j \in 0 .. Len(tasks) - 1, NEW g \in Groups, Owed(j, g)
  PROVE  Owed(j, g)'
<1> DEFINE n == Len(tasks) - 1
<1>1. IsPushed(tasks', tasks, new)
  BY PushSeq DEF StackOK, Push
<1>2. Len(tasks) = n + 1 /\ n \in Nat /\ Len(new) \in Nat /\ Last(tasks) = tasks[Len(tasks)]
  BY <1>1 DEF IsPushed
<1>3. DOMAIN tasks = 1 .. Len(tasks) /\ \A k \in DOMAIN tasks : TaskOK(tasks[k])
  BY DEF StackOK, IsSeq
<1>4. IsSeq(tasks') /\ Len(tasks') = n + Len(new)
  BY <1>1 DEF IsPushed
<1>5. \A k \in 1 .. n : tasks'[k] = tasks[k]
  BY <1>1 DEF IsPushed
<1>6. \A k \in 1 .. Len(new) : tasks'[n + k] = new[k]
  BY <1>1 DEF IsPushed
<1> HIDE DEF n
<1>7. DOMAIN tasks' = 1 .. n + Len(new)
  BY <1>4 DEF IsSeq
<1>8. CASE winner'[g] # NoWinner
  BY <1>8 DEF Owed
<1>9. CASE \E l \in 1 .. Len(new) : Promises(new[l], g)'
  <2>1. PICK l \in 1 .. Len(new) : Promises(new[l], g)'
    BY <1>9
  <2>2. n + l \in DOMAIN tasks' /\ n + l > j /\ tasks'[n + l] = new[l]
    BY <1>2, <1>6, <1>7
  <2> QED
    BY <2>1, <2>2 DEF Owed
<1>10. CASE \E k \in DOMAIN tasks : k > j /\ Promises(tasks[k], g)
  <2>1. PICK k \in DOMAIN tasks : k > j /\ Promises(tasks[k], g)
    BY <1>10
  <2>2. PICK t : t = tasks[k]
    OBVIOUS
  <2>3. TaskOK(t) /\ Promises(t, g)
    BY <1>3, <2>1, <2>2
  <2>4. CASE k = Len(tasks)
    BY <1>2, <1>8, <1>9, <2>1, <2>4
  <2>5. CASE k # Len(tasks) /\ Promises(t, g)'
    <3>1. k \in 1 .. n /\ k \in DOMAIN tasks' /\ tasks'[k] = t
      BY <1>2, <1>3, <1>5, <1>7, <2>2, <2>5
    <3> QED
      BY <2>1, <2>5, <3>1 DEF Owed
  <2> QED
    BY <1>8, <1>9, <2>3, <2>4, <2>5
<1> QED
  BY <1>8, <1>10 DEF Owed

\* A step that pushes tasks keeps the stack in order.
LEMMA StackPushed ==
  ASSUME plan \in Plans, MemoOK, StackOK, tasks # <<>>,
         NEW new, IsSeq(new), Push(new), plan' = plan,
         DOMAIN winner' = DOMAIN winner,
         \A g \in Groups : winner[g] # NoWinner => winner'[g] # NoWinner,
         \A e \in DOMAIN exprs : e \in DOMAIN exprs' /\ exprs'[e] = exprs[e],
         \A t : TaskOK(t) => \A g \in Groups :
           Promises(t, g) => \/ Promises(t, g)'
                             \/ winner'[g] # NoWinner
                             \/ \E k \in 1 .. Len(new) : Promises(new[k], g)',
         \A g \in Groups :
           Promises(Last(tasks), g) => \/ winner'[g] # NoWinner
                                       \/ \E k \in 1 .. Len(new) : Promises(new[k], g)',
         \A k \in 1 .. Len(new) : TaskOK(new[k])',
         \A k \in 1 .. Len(new) : Waits(new[k]) =>
           \E l \in 1 .. Len(new) : l > k /\ Promises(new[l], Awaited(new[k]))'
  PROVE  StackOK'
<1> DEFINE n == Len(tasks) - 1
           root == GroupOf(Len(plan.kind))
<1>1. IsPushed(tasks', tasks, new)
  BY PushSeq DEF StackOK, Push
<1>2. Len(tasks) = n + 1 /\ n \in Nat /\ Len(new) \in Nat
  BY <1>1 DEF IsPushed
<1>3. DOMAIN tasks = 1 .. Len(tasks) /\ \A k \in DOMAIN tasks : TaskOK(tasks[k])
  BY DEF StackOK, IsSeq
<1>4. IsSeq(tasks') /\ Len(tasks') = n + Len(new)
  BY <1>1 DEF IsPushed
<1>5. \A k \in 1 .. n : tasks'[k] = tasks[k]
  BY <1>1 DEF IsPushed
<1>6. \A k \in 1 .. Len(new) : tasks'[n + k] = new[k]
  BY <1>1 DEF IsPushed
<1>7. \A j \in 1 .. Len(tasks') : j \in 1 .. n \/ \E k \in 1 .. Len(new) : j = n + k
  BY <1>1 DEF IsPushed
<1>8. root \in Groups
  <2>1. Len(plan.kind) \in Nodes
    BY PlanFacts
  <2> QED
    BY <2>1 DEF MemoOK, Groups
<1>9. Owed(0, root)'
  <2>1. 0 \in 0 .. Len(tasks) - 1
    BY <1>2
  <2>2. Owed(0, root)
    BY DEF StackOK
  <2>3. PICK g : g = root
    OBVIOUS
  <2>4. Owed(0, g)'
    BY <1>8, <2>1, <2>2, <2>3, OwedKept
  <2> QED
    BY <2>3, <2>4 DEF Owed
<1> HIDE DEF n
<1>10. DOMAIN tasks' = 1 .. Len(tasks')
  BY <1>4 DEF IsSeq
<1>11. ASSUME NEW j \in DOMAIN tasks'
       PROVE  /\ TaskOK(tasks[j])'
              /\ Waits(tasks[j])' => Owed(j, Awaited(tasks[j]))'
  <2>1. CASE j \in 1 .. n
    <3>1. PICK t : t = tasks[j]
      OBVIOUS
    <3>2. j \in DOMAIN tasks /\ j \in 0 .. Len(tasks) - 1 /\ tasks'[j] = t /\ TaskOK(t)
      BY <1>2, <1>3, <1>5, <2>1, <3>1
    <3>3. /\ TaskOK(t)'
          /\ Waits(t) => Awaited(t)' = Awaited(t) /\ Awaited(t) \in Groups
      BY <3>2, TaskKept
    <3>4. ASSUME Waits(t) PROVE Owed(j, Awaited(t))'
      <4>1. PICK g : g = Awaited(t)
        OBVIOUS
      <4>2. Owed(j, g) /\ g \in Groups
        BY <3>1, <3>2, <3>3, <3>4, <4>1 DEF StackOK
      <4>3. Owed(j, g)'
        BY <3>2, <4>2, OwedKept
      <4>4. g = Awaited(t)'
        BY <3>3, <3>4, <4>1
      <4> QED
        BY <4>3, <4>4 DEF Owed
    <3> QED
      BY <3>2, <3>3, <3>4 DEF Waits, Awaited
  <2>2. ASSUME NEW k \in 1 .. Len(new), j = n + k
        PROVE  /\ TaskOK(tasks[j])'
               /\ Waits(tasks[j])' => Owed(j, Awaited(tasks[j]))'
    <3>1. tasks'[j] = new[k]
      BY <1>6, <2>2
    <3>2. TaskOK(tasks[j])'
      BY <3>1
    <3>3. ASSUME Waits(new[k]) PROVE Owed(j, Awaited(new[k]))'
      <4>1. PICK l \in 1 .. Len(new) : l > k /\ Promises(new[l], Awaited(new[k]))'
        BY <3>3
      <4>2. n + l \in DOMAIN tasks' /\ n + l > j /\ tasks'[n + l] = new[l]
        BY <1>2, <1>4, <1>6, <1>10, <2>2, <4>1
      <4> QED
        BY <4>1, <4>2 DEF Owed
    <3> QED
      BY <3>1, <3>2, <3>3 DEF Waits, Awaited
  <2> QED
    BY <1>7, <1>10, <2>1, <2>2
<1> QED
  BY <1>4, <1>9, <1>11 DEF StackOK

\* The same for a step that touches neither the memo nor a winner nor a rule.
LEMMA StackPushedOnly ==
  ASSUME plan \in Plans, MemoOK, StackOK, tasks # <<>>,
         NEW new, IsSeq(new), Push(new),
         plan' = plan, exprs' = exprs, winner' = winner, fired' = fired,
         \A g \in Groups :
           Promises(Last(tasks), g) => \/ winner[g] # NoWinner
                                       \/ \E k \in 1 .. Len(new) : Promises(new[k], g),
         \A k \in 1 .. Len(new) : TaskOK(new[k]),
         \A k \in 1 .. Len(new) : Waits(new[k]) =>
           \E l \in 1 .. Len(new) : l > k /\ Promises(new[l], Awaited(new[k]))
  PROVE  StackOK'
<1>1. \A t, g : Promises(t, g)' = Promises(t, g)
  BY DEF Promises, Matches, Kind
<1>2. \A t : TaskOK(t)' = TaskOK(t)
  BY DEF TaskOK, Matches, Kind, Groups
<1>3. \A t : Awaited(t)' = Awaited(t)
  BY DEF Awaited
<1>4. \A t, u : Promises(t, Awaited(u))' = Promises(t, Awaited(u))
  BY DEF Promises, Matches, Kind, Awaited
<1> QED
  BY <1>1, <1>2, <1>3, <1>4, StackPushed

\* A step of the search that only pushes tasks keeps the invariant.
LEMMA SearchPushed ==
  ASSUME CascadesInv, phase = "search", tasks # <<>>,
         NEW new, IsSeq(new), Push(new),
         UNCHANGED <<plan, exprs, winner, counter, fired, phase, best>>,
         explored' \subseteq Groups,
         \A g \in Groups :
           Promises(Last(tasks), g) => \/ winner[g] # NoWinner
                                       \/ \E k \in 1 .. Len(new) : Promises(new[k], g),
         \A k \in 1 .. Len(new) : TaskOK(new[k]),
         \A k \in 1 .. Len(new) : Waits(new[k]) =>
           \E l \in 1 .. Len(new) : l > k /\ Promises(new[l], Awaited(new[k]))
  PROVE  CascadesInv'
<1>1. plan \in Plans /\ SearchInv
  BY DEF CascadesInv
<1>2. StackOK'
  BY <1>1, StackPushedOnly DEF SearchInv
<1>3. MemoOK'
  BY <1>1 DEF SearchInv, MemoOK, MemoExpr, HasPhysical, Nodes, Groups
<1>4. (\A g \in Groups : WinnerOK(g))'
  BY <1>1 DEF SearchInv, WinnerOK, Groups
<1>5. explored' \subseteq Groups'
  BY DEF Groups
<1> QED
  BY <1>1, <1>2, <1>3, <1>4, <1>5 DEF CascadesInv, SearchInv

\* The elements of a set of at most one number in their order.
LEMMA FewAscending ==
  ASSUME NEW S, \A x, y \in S : x = y
  PROVE  /\ IsSeq(Ascending(S)) /\ Len(Ascending(S)) \in Nat
         /\ DOMAIN Ascending(S) = 1 .. Len(Ascending(S))
         /\ \A k \in 1 .. Len(Ascending(S)) : Ascending(S)[k] \in S
         /\ \A x \in S : \E k \in 1 .. Len(Ascending(S)) : Ascending(S)[k] = x
<1>1. PICK n \in {0, 1} : Cardinality(S) = n /\ (n = 0 <=> S = {})
  <2>1. CASE S = {}
    BY <2>1, FS_EmptySet
  <2>2. CASE S # {}
    <3>1. PICK x : S = {x}
      BY <2>2
    <3> QED
      BY <3>1, FS_Singleton
  <2> QED
    BY <2>1, <2>2
<1>2. \E s \in [1 .. n -> S] : \A i, j \in DOMAIN s : i < j => s[i] < s[j]
  <2>1. CASE n = 0
    <3> DEFINE s == [i \in 1 .. n |-> 0]
    <3>1. s \in [1 .. n -> S] /\ DOMAIN s = {}
      BY <2>1
    <3> QED
      BY <3>1
  <2>2. CASE n = 1
    <3>1. PICK x : x \in S
      BY <1>1, <2>2
    <3> DEFINE s == [i \in 1 .. n |-> x]
    <3>2. s \in [1 .. n -> S] /\ \A i, j \in DOMAIN s : ~(i < j)
      BY <2>2, <3>1
    <3> QED
      BY <3>2
  <2> QED
    BY <2>1, <2>2
<1> DEFINE a == Ascending(S)
<1>3. a \in [1 .. n -> S]
  BY <1>1, <1>2 DEF Ascending
<1> HIDE DEF a
<1>4. IsSeq(a) /\ Len(a) = n /\ DOMAIN a = 1 .. n
  BY <1>3, FunctionIsSeq
<1>5. \A k \in 1 .. n : a[k] \in S
  BY <1>3
<1>6. ASSUME NEW x \in S PROVE \E k \in 1 .. n : a[k] = x
  <2>1. n = 1 /\ 1 \in 1 .. n
    BY <1>1
  <2> QED
    BY <1>5, <2>1
<1> QED
  BY <1>4, <1>5, <1>6 DEF a

\* The logical expressions of a group: that of its node.
LEMMA LogicalExprs ==
  ASSUME plan \in Plans, MemoOK, NEW i \in Nodes
  PROVE  /\ IsSeq(GetAllExprsInGroup(GroupOf(i), FALSE))
         /\ Len(GetAllExprsInGroup(GroupOf(i), FALSE)) \in Nat
         /\ DOMAIN GetAllExprsInGroup(GroupOf(i), FALSE)
              = 1 .. Len(GetAllExprsInGroup(GroupOf(i), FALSE))
         /\ \A k \in 1 .. Len(GetAllExprsInGroup(GroupOf(i), FALSE)) :
              GetAllExprsInGroup(GroupOf(i), FALSE)[k] = ExprOf(i)
         /\ \E k \in 1 .. Len(GetAllExprsInGroup(GroupOf(i), FALSE)) :
              GetAllExprsInGroup(GroupOf(i), FALSE)[k] = ExprOf(i)
<1> DEFINE S == {e \in DOMAIN exprs : GetGroupId(e) = GroupOf(i) /\ exprs[e].physical = FALSE}
<1>0. \A j, k \in Nodes : GroupOf(j) = GroupOf(k) => j = k
  BY PlanFacts DEF GroupOf
<1>1. S = {ExprOf(i)}
  <2>1. ASSUME NEW e \in S PROVE e = ExprOf(i)
    <3>1. e \in DOMAIN exprs /\ exprs[e].group = GroupOf(i) /\ ~exprs[e].physical
      BY DEF GetGroupId
    <3>2. exprs[e].node \in Nodes /\ exprs[e].group = GroupOf(exprs[e].node)
      BY <3>1, ExprFacts
    <3>3. exprs[e].node = i
      BY <1>0, <3>1, <3>2
    <3> QED
      BY <3>1, <3>3 DEF MemoOK
  <2>2. ExprOf(i) \in S
    <3>1. ExprOf(i) \in DOMAIN exprs /\ exprs[ExprOf(i)] = MemoExpr(i, FALSE)
      BY DEF MemoOK
    <3> QED
      BY <3>1 DEF MemoExpr, GetGroupId
  <2> QED
    BY <2>1, <2>2
<1>2. GetAllExprsInGroup(GroupOf(i), FALSE) = Ascending(S)
  BY DEF GetAllExprsInGroup
<1> HIDE DEF S
<1>3. \A x, y \in S : x = y
  BY <1>1
<1> DEFINE a == Ascending(S)
<1>4. /\ IsSeq(a) /\ Len(a) \in Nat /\ DOMAIN a = 1 .. Len(a)
      /\ \A k \in 1 .. Len(a) : a[k] \in S
      /\ \A x \in S : \E k \in 1 .. Len(a) : a[k] = x
  BY <1>3, FewAscending
<1> HIDE DEF a
<1> QED
  BY <1>1, <1>2, <1>4 DEF a

\* The physical expressions of a group: all there are.
LEMMA PhysicalExprs ==
  ASSUME plan \in Plans, MemoOK, NEW i \in Nodes
  PROVE  /\ IsSeq(GetAllExprsInGroup(GroupOf(i), TRUE))
         /\ Len(GetAllExprsInGroup(GroupOf(i), TRUE)) \in Nat
         /\ DOMAIN GetAllExprsInGroup(GroupOf(i), TRUE)
              = 1 .. Len(GetAllExprsInGroup(GroupOf(i), TRUE))
         /\ \A k \in 1 .. Len(GetAllExprsInGroup(GroupOf(i), TRUE)) :
              /\ GetAllExprsInGroup(GroupOf(i), TRUE)[k] \in DOMAIN exprs
              /\ exprs[GetAllExprsInGroup(GroupOf(i), TRUE)[k]].physical
              /\ exprs[GetAllExprsInGroup(GroupOf(i), TRUE)[k]].group = GroupOf(i)
         /\ HasPhysical(i) => Len(GetAllExprsInGroup(GroupOf(i), TRUE)) > 0
<1> DEFINE S == {e \in DOMAIN exprs : GetGroupId(e) = GroupOf(i) /\ exprs[e].physical = TRUE}
<1>0. \A j, k \in Nodes : GroupOf(j) = GroupOf(k) => j = k
  BY PlanFacts DEF GroupOf
<1>1. \A e \in S : e \in DOMAIN exprs /\ exprs[e].group = GroupOf(i) /\ exprs[e].physical
  BY DEF GetGroupId
<1>2. \A x, y \in S : x = y
  <2> SUFFICES ASSUME NEW x \in S, NEW y \in S PROVE x = y
    OBVIOUS
  <2>1. \A e \in DOMAIN exprs : exprs[e].node \in Nodes /\ exprs[e].group = GroupOf(exprs[e].node)
    BY ExprFacts
  <2>2. exprs[x].node = exprs[y].node
    BY <1>0, <1>1, <2>1
  <2> QED
    BY <1>1, <2>2 DEF MemoOK
<1>3. HasPhysical(i) => \E x : x \in S
  <2> SUFFICES ASSUME HasPhysical(i) PROVE \E x : x \in S
    OBVIOUS
  <2>1. PICK e \in DOMAIN exprs : exprs[e].physical /\ exprs[e].group = GroupOf(i)
    BY DEF HasPhysical
  <2>2. exprs[e].physical \in BOOLEAN
    BY ExprFacts
  <2>3. e \in S
    BY <2>1, <2>2 DEF GetGroupId
  <2> QED
    BY <2>3
<1>4. GetAllExprsInGroup(GroupOf(i), TRUE) = Ascending(S)
  BY DEF GetAllExprsInGroup
<1> HIDE DEF S
<1> DEFINE a == Ascending(S)
<1>5. /\ IsSeq(a) /\ Len(a) \in Nat /\ DOMAIN a = 1 .. Len(a)
      /\ \A k \in 1 .. Len(a) : a[k] \in S
      /\ \A x \in S : \E k \in 1 .. Len(a) : a[k] = x
  BY <1>2, FewAscending
<1> HIDE DEF a
<1>6. HasPhysical(i) => Len(a) > 0
  BY <1>3, <1>5
<1> QED
  BY <1>1, <1>4, <1>5, <1>6 DEF a

-----------------------------------------------------------------------------
(* The tasks *)

\* The task on top of the stack is in order, and so is what is below it.
LEMMA TopFacts ==
  ASSUME CascadesInv, NEW type, Top(type)
  PROVE  /\ phase = "search" /\ tasks # <<>>
         /\ plan \in Plans /\ SearchInv /\ MemoOK
         /\ Last(tasks).type = type /\ TaskOK(Last(tasks))
<1>1. phase = "search" /\ tasks # <<>> /\ Last(tasks).type = type
  BY DEF Top
<1>2. plan \in Plans /\ SearchInv
  BY <1>1 DEF CascadesInv
<1>3. IsSeq(tasks) /\ \A j \in DOMAIN tasks : TaskOK(tasks[j])
  BY <1>2 DEF SearchInv, StackOK
<1>4. Len(tasks) \in DOMAIN tasks
  BY <1>1, <1>3 DEF IsSeq
<1> QED
  BY <1>1, <1>2, <1>3, <1>4 DEF Last, SearchInv

\* Groups are those of nodes.
LEMMA GroupNode ==
  ASSUME MemoOK, NEW g \in Groups
  PROVE  \E i \in Nodes : g = GroupOf(i)
BY DEF MemoOK, Groups

\* OptimizeGroupTask: a group without a winner gets its physical expression looked
\* at, or the rule that makes one.
LEMMA OptimizeGroupStep ==
  ASSUME CascadesInv, OptimizeGroup
  PROVE  CascadesInv'
<1> DEFINE t == Last(tasks)
           g == t.group
           L == GetAllExprsInGroup(g, FALSE)
           P == GetAllExprsInGroup(g, TRUE)
           LT == [k \in DOMAIN L |-> OptimizeExprTask(L[k], FALSE)]
           PT == [k \in DOMAIN P |-> OptimizeInputsTask(P[k])]
           new == IF winner[g] # NoWinner THEN <<>> ELSE LT \o PT
<1>1. /\ phase = "search" /\ tasks # <<>> /\ plan \in Plans /\ SearchInv /\ MemoOK
      /\ t.type = "OptimizeGroup" /\ TaskOK(t)
  BY TopFacts DEF OptimizeGroup
<1>2. /\ Push(new)
      /\ UNCHANGED <<plan, exprs, winner, counter, fired, explored, phase, best>>
  BY DEF OptimizeGroup
<1>3. g \in Groups
  BY <1>1, TaskKinds
<1>4. PICK i \in Nodes : g = GroupOf(i)
  BY <1>1, <1>3, GroupNode
<1>5. \A h : Promises(t, h) => h = g
  BY <1>1 DEF Promises
<1>6. explored' \subseteq Groups
  BY <1>1, <1>2 DEF SearchInv
<1>7. CASE winner[g] # NoWinner
  <2>1. new = <<>> /\ IsSeq(<<>>) /\ Len(<<>>) = 0
    BY <1>7 DEF IsSeq
  <2> HIDE DEF new, t, g
  <2>2. Push(<<>>)
    BY <1>2, <2>1
  <2> QED
    BY <1>1, <1>2, <1>5, <1>6, <1>7, <2>1, <2>2, SearchPushed DEF t
<1>8. CASE winner[g] = NoWinner
  <2>1. /\ IsSeq(L) /\ Len(L) \in Nat /\ DOMAIN L = 1 .. Len(L)
        /\ \A k \in 1 .. Len(L) : L[k] = ExprOf(i)
        /\ \E k \in 1 .. Len(L) : L[k] = ExprOf(i)
    BY <1>1, <1>4, LogicalExprs
  <2>2. /\ IsSeq(P) /\ Len(P) \in Nat /\ DOMAIN P = 1 .. Len(P)
        /\ \A k \in 1 .. Len(P) : /\ P[k] \in DOMAIN exprs
                                  /\ exprs[P[k]].physical /\ exprs[P[k]].group = g
        /\ HasPhysical(i) => Len(P) > 0
    BY <1>1, <1>4, PhysicalExprs
  <2>3. new = LT \o PT
    BY <1>8
  <2> HIDE DEF L, P, new, g
  <2>4. IsSeq(LT) /\ Len(LT) = Len(L) /\ IsSeq(PT) /\ Len(PT) = Len(P)
    <3>1. LT \in [1 .. Len(L) -> Range(LT)] /\ PT \in [1 .. Len(P) -> Range(PT)]
      BY <2>1, <2>2 DEF Range
    <3> HIDE DEF LT, PT
    <3> QED
      BY <2>1, <2>2, <3>1, FunctionIsSeq
  <2>5. ExprOf(i) \in DOMAIN exprs /\ exprs[ExprOf(i)] = MemoExpr(i, FALSE)
    BY <1>1 DEF MemoOK
  <2>6. ~exprs[ExprOf(i)].physical /\ exprs[ExprOf(i)].group = g /\ exprs[ExprOf(i)].node = i
    BY <1>4, <2>5 DEF MemoExpr
  <2>7. \A k \in 1 .. Len(L) :
          /\ LT[k] = OptimizeExprTask(ExprOf(i), FALSE)
          /\ TaskOK(LT[k]) /\ ~Waits(LT[k])
    <3>1. TaskOK(OptimizeExprTask(ExprOf(i), FALSE)) /\ ~Waits(OptimizeExprTask(ExprOf(i), FALSE))
      BY <2>5, <2>6 DEF OptimizeExprTask, TaskOK, Waits
    <3> QED
      BY <2>1, <3>1
  <2>8. ASSUME NEW k \in 1 .. Len(P)
        PROVE  TaskOK(PT[k]) /\ ~Waits(PT[k]) /\ Promises(PT[k], g)
    <3>1. PT[k] = OptimizeInputsTask(P[k])
      BY <2>2
    <3> QED
      BY <2>2, <3>1 DEF OptimizeInputsTask, TaskOK, Waits, Promises
  <2> HIDE DEF LT, PT
  <2>9. IsConcat(new, LT, PT)
    BY <2>3, <2>4, ConcatSeq
  <2>10. /\ IsSeq(new) /\ Len(new) = Len(L) + Len(P)
         /\ \A k \in 1 .. Len(L) : new[k] = LT[k]
         /\ \A k \in 1 .. Len(P) : new[Len(L) + k] = PT[k]
         /\ \A j \in 1 .. Len(new) :
              j \in 1 .. Len(L) \/ \E k \in 1 .. Len(P) : j = Len(L) + k
    BY <2>4, <2>9 DEF IsConcat
  <2>11. \A j \in 1 .. Len(new) : TaskOK(new[j]) /\ ~Waits(new[j])
    BY <2>7, <2>8, <2>10
  <2>12. \E j \in 1 .. Len(new) : Promises(new[j], g)
    <3>1. CASE HasPhysical(i)
      <4>1. 1 \in 1 .. Len(P) /\ Len(L) + 1 \in 1 .. Len(new)
        BY <2>1, <2>2, <2>10, <3>1
      <4> QED
        BY <2>8, <2>10, <4>1
    <3>2. CASE ~HasPhysical(i)
      <4>1. PICK r \in DOMAIN Rules : plan.kind[i] = Rules[r]
        BY <1>1, PlanFacts
      <4>2. <<ExprOf(i), r>> \notin fired
        BY <1>1, <3>2, <4>1 DEF MemoOK
      <4>3. Matches(r, ExprOf(i))
        BY <2>6, <4>1 DEF Matches, Kind
      <4>4. Promises(OptimizeExprTask(ExprOf(i), FALSE), g)
        BY <2>6, <4>2, <4>3 DEF Promises, OptimizeExprTask
      <4>5. PICK k \in 1 .. Len(L) : L[k] = ExprOf(i)
        BY <2>1
      <4>6. k \in 1 .. Len(new)
        <5>1. Len(new) = Len(L) + Len(P) /\ Len(L) \in Nat /\ Len(P) \in Nat
          BY <2>1, <2>2, <2>10
        <5> QED
          BY <5>1
      <4>7. new[k] = LT[k] /\ LT[k] = OptimizeExprTask(ExprOf(i), FALSE)
        BY <2>7, <2>10
      <4> QED
        BY <4>4, <4>6, <4>7
    <3> QED
      BY <3>1, <3>2
  <2> HIDE DEF t
  <2> QED
    BY <1>1, <1>2, <1>5, <1>6, <2>10, <2>11, <2>12, SearchPushed DEF t
<1> QED
  BY <1>7, <1>8

\* ExploreGroupTask only asks for expressions to be explored.
LEMMA ExploreGroupStep ==
  ASSUME CascadesInv, ExploreGroup
  PROVE  CascadesInv'
<1> DEFINE t == Last(tasks)
           g == t.group
           L == GetAllExprsInGroup(g, FALSE)
           LT == [k \in DOMAIN L |-> OptimizeExprTask(L[k], TRUE)]
           new == IF IsGroupExplored(g) THEN <<>> ELSE LT
<1>1. /\ phase = "search" /\ tasks # <<>> /\ plan \in Plans /\ SearchInv /\ MemoOK
      /\ t.type = "ExploreGroup" /\ TaskOK(t)
  BY TopFacts DEF ExploreGroup
<1>2. /\ Push(new) /\ MarkGroupExplored(g)
      /\ UNCHANGED <<plan, exprs, winner, counter, fired, phase, best>>
  BY DEF ExploreGroup
<1>3. g \in Groups
  BY <1>1, TaskKinds
<1>4. PICK i \in Nodes : g = GroupOf(i)
  BY <1>1, <1>3, GroupNode
<1>5. \A h : ~Promises(t, h)
  BY <1>1 DEF Promises
<1>6. explored' \subseteq Groups
  BY <1>1, <1>2, <1>3 DEF SearchInv, MarkGroupExplored
<1>7. /\ IsSeq(L) /\ Len(L) \in Nat /\ DOMAIN L = 1 .. Len(L)
      /\ \A k \in 1 .. Len(L) : L[k] = ExprOf(i)
  BY <1>1, <1>4, LogicalExprs
<1>8. ExprOf(i) \in DOMAIN exprs /\ exprs[ExprOf(i)] = MemoExpr(i, FALSE)
  BY <1>1 DEF MemoOK
<1>9. ~exprs[ExprOf(i)].physical
  BY <1>8 DEF MemoExpr
<1> HIDE DEF L, g
<1>10. IsSeq(LT) /\ Len(LT) = Len(L)
  <2>1. LT \in [1 .. Len(L) -> Range(LT)]
    BY <1>7 DEF Range
  <2> HIDE DEF LT
  <2> QED
    BY <1>7, <2>1, FunctionIsSeq
<1>11. \A k \in 1 .. Len(L) : TaskOK(LT[k]) /\ ~Waits(LT[k])
  <2>1. TaskOK(OptimizeExprTask(ExprOf(i), TRUE)) /\ ~Waits(OptimizeExprTask(ExprOf(i), TRUE))
    BY <1>8, <1>9 DEF OptimizeExprTask, TaskOK, Waits
  <2> QED
    BY <1>7, <2>1
<1> HIDE DEF LT
<1>12. IsSeq(new) /\ \A k \in 1 .. Len(new) : TaskOK(new[k]) /\ ~Waits(new[k])
  <2>1. CASE IsGroupExplored(g)
    BY <2>1 DEF IsSeq
  <2>2. CASE ~IsGroupExplored(g)
    BY <1>10, <1>11, <2>2
  <2> QED
    BY <2>1, <2>2
<1> HIDE DEF new, t
<1> QED
  BY <1>1, <1>2, <1>5, <1>6, <1>12, SearchPushed DEF t

\* OptimizeExprTask hands a logical expression to the rule for its kind, unless the
\* rule has fired, and its inputs to exploration.
LEMMA OptimizeExprStep ==
  ASSUME CascadesInv, OptimizeExpr
  PROVE  CascadesInv'
<1> DEFINE t == Last(tasks)
           e == t.expr
           ch == exprs[e].children
           Fires(r) == ~IsRuleFired(e, r) /\ ~t.exploring /\ TopMatches(r, e)
           XT == [k \in DOMAIN ch |-> ExploreGroupTask(ch[k])]
           TasksOf(r) == IF Fires(r) THEN <<ApplyRuleTask(r, e)>> \o XT ELSE <<>>
           new == TasksOf(1) \o TasksOf(2) \o TasksOf(3)
<1>1. /\ phase = "search" /\ tasks # <<>> /\ plan \in Plans /\ SearchInv /\ MemoOK
      /\ t.type = "OptimizeExpr" /\ TaskOK(t)
  BY TopFacts DEF OptimizeExpr
<1>2. /\ Push(new)
      /\ UNCHANGED <<plan, exprs, winner, counter, fired, explored, phase, best>>
  BY DEF OptimizeExpr
<1>3. e \in DOMAIN exprs /\ t.exploring \in BOOLEAN
  BY <1>1, TaskKinds
<1>4. /\ Len(ch) \in Nat /\ DOMAIN ch = 1 .. Len(ch)
      /\ \A k \in 1 .. Len(ch) : ch[k] \in Groups
  BY <1>1, <1>3, ExprFacts
<1>5. explored' \subseteq Groups
  BY <1>1, <1>2 DEF SearchInv
<1>6. \A h : Promises(t, h) =>
        exprs[e].group = h /\ \E r \in DOMAIN Rules : Fires(r)
  BY <1>1 DEF Promises, IsRuleFired, TopMatches
<1>7. \A r : Fires(r) => Matches(r, e) /\ <<e, r>> \notin fired
  BY DEF IsRuleFired, TopMatches
<1> HIDE DEF e, ch, Fires
<1>8. IsSeq(XT) /\ Len(XT) = Len(ch)
  <2>1. XT \in [1 .. Len(ch) -> Range(XT)]
    BY <1>4 DEF Range
  <2> HIDE DEF XT
  <2> QED
    BY <1>4, <2>1, FunctionIsSeq
<1>9. \A k \in 1 .. Len(ch) : TaskOK(XT[k]) /\ ~Waits(XT[k])
  <2> SUFFICES ASSUME NEW k \in 1 .. Len(ch) PROVE TaskOK(XT[k]) /\ ~Waits(XT[k])
    OBVIOUS
  <2>1. XT[k] = ExploreGroupTask(ch[k]) /\ ch[k] \in Groups
    BY <1>4
  <2> HIDE DEF XT
  <2> QED
    BY <2>1 DEF ExploreGroupTask, TaskOK, Waits
<1> HIDE DEF XT
<1>10. ASSUME NEW r \in DOMAIN Rules
       PROVE  /\ IsSeq(TasksOf(r)) /\ Len(TasksOf(r)) \in Nat
              /\ \A k \in 1 .. Len(TasksOf(r)) : TaskOK(TasksOf(r)[k]) /\ ~Waits(TasksOf(r)[k])
              /\ Fires(r) => \E k \in 1 .. Len(TasksOf(r)) : Promises(TasksOf(r)[k], exprs[e].group)
  <2>1. CASE ~Fires(r)
    BY <2>1 DEF IsSeq
  <2>2. CASE Fires(r)
    <3> DEFINE a == ApplyRuleTask(r, e)
               one == <<a>>
               u == TasksOf(r)
    <3>1. TaskOK(a) /\ ~Waits(a) /\ Promises(a, exprs[e].group)
      BY <1>3, <1>7, <2>2 DEF ApplyRuleTask, TaskOK, Waits, Promises, e
    <3> HIDE DEF a
    <3>2. one \in [1 .. 1 -> {a}] /\ one[1] = a
      OBVIOUS
    <3>3. u = one \o XT
      BY <2>2 DEF a
    <3> HIDE DEF one, u
    <3>4. IsSeq(one) /\ Len(one) = 1
      BY <3>2, FunctionIsSeq
    <3>5. IsConcat(u, one, XT)
      BY <1>8, <3>3, <3>4, ConcatSeq
    <3>6. /\ IsSeq(u) /\ Len(u) = 1 + Len(ch) /\ u[1] = a
          /\ \A k \in 1 .. Len(ch) : u[1 + k] = XT[k]
          /\ \A j \in 1 .. Len(u) : j = 1 \/ \E k \in 1 .. Len(ch) : j = 1 + k
      BY <1>8, <3>2, <3>4, <3>5 DEF IsConcat
    <3>7. \A j \in 1 .. Len(u) : TaskOK(u[j]) /\ ~Waits(u[j])
      BY <1>9, <3>1, <3>6
    <3>8. 1 \in 1 .. Len(u) /\ Promises(u[1], exprs[e].group) /\ Len(u) \in Nat
      BY <1>4, <3>1, <3>6
    <3>9. TasksOf(r) = u
      BY DEF u
    <3> HIDE DEF TasksOf
    <3> QED
      BY <3>6, <3>7, <3>8, <3>9
  <2> QED
    BY <2>1, <2>2
<1> DEFINE a1 == TasksOf(1)
           a2 == TasksOf(2)
           a3 == TasksOf(3)
           Good(s) == IsSeq(s) /\ Len(s) \in Nat /\ \A k \in 1 .. Len(s) : TaskOK(s[k]) /\ ~Waits(s[k])
           Keeps(s) == \E k \in 1 .. Len(s) : Promises(s[k], exprs[e].group)
<1>11. ASSUME NEW s1, NEW s2, Good(s1), Good(s2)
       PROVE  Good(s1 \o s2) /\ (Keeps(s1) \/ Keeps(s2) => Keeps(s1 \o s2))
  <2> DEFINE u == s1 \o s2
  <2>1. IsConcat(u, s1, s2)
    BY <1>11, ConcatSeq
  <2> HIDE DEF u
  <2>2. /\ IsSeq(u) /\ Len(u) = Len(s1) + Len(s2)
        /\ \A k \in 1 .. Len(s1) : u[k] = s1[k]
        /\ \A k \in 1 .. Len(s2) : u[Len(s1) + k] = s2[k]
        /\ \A j \in 1 .. Len(u) : j \in 1 .. Len(s1) \/ \E k \in 1 .. Len(s2) : j = Len(s1) + k
    BY <2>1 DEF IsConcat
  <2>3. Len(s1) \in Nat /\ Len(s2) \in Nat
    BY <1>11
  <2>4. /\ \A k \in 1 .. Len(s1) : k \in 1 .. Len(u)
        /\ \A k \in 1 .. Len(s2) : Len(s1) + k \in 1 .. Len(u)
    BY <2>2, <2>3
  <2>5. Good(u)
    BY <1>11, <2>2, <2>3
  <2>6. Keeps(s1) \/ Keeps(s2) => Keeps(u)
    BY <2>2, <2>4
  <2> QED
    BY <2>5, <2>6 DEF u
<1>12. /\ Good(a1) /\ Good(a2) /\ Good(a3)
       /\ Fires(1) => Keeps(a1)
       /\ Fires(2) => Keeps(a2)
       /\ Fires(3) => Keeps(a3)
  BY <1>10, RuleFacts
<1>13. (\E r \in DOMAIN Rules : Fires(r)) => Keeps(a1) \/ Keeps(a2) \/ Keeps(a3)
  BY <1>12, RuleFacts
<1>14. new = a1 \o a2 \o a3
  OBVIOUS
<1> HIDE DEF new, t, a1, a2, a3
<1>15. Good(new) /\ (Keeps(a1) \/ Keeps(a2) \/ Keeps(a3) => Keeps(new))
  <2> HIDE DEF Good, Keeps
  <2>1. Good(a1 \o a2) /\ (Keeps(a1) \/ Keeps(a2) => Keeps(a1 \o a2))
    BY <1>11, <1>12
  <2> DEFINE u == a1 \o a2
  <2>2. Good(u) /\ (Keeps(a1) \/ Keeps(a2) => Keeps(u)) /\ new = u \o a3
    BY <1>14, <2>1
  <2> HIDE DEF u
  <2> QED
    BY <1>11, <1>12, <2>2
<1>16. \A h \in Groups : Promises(t, h) => \E k \in 1 .. Len(new) : Promises(new[k], h)
  BY <1>6, <1>13, <1>15
<1> QED
  BY <1>1, <1>2, <1>5, <1>15, <1>16, SearchPushed DEF t

\* What the inputs cost, zero each.
LEMMA InputCosts ==
  ASSUME plan \in Plans, SearchInv, NEW e \in DOMAIN exprs
  PROVE  InputCost(e) \in Seq({0})
<1> DEFINE ch == exprs[e].children
<1>1. /\ Len(ch) \in Nat /\ DOMAIN ch = 1 .. Len(ch)
      /\ \A k \in 1 .. Len(ch) : ch[k] \in Groups
  BY ExprFacts DEF SearchInv
<1>2. \A g \in Groups : winner[g].cost = 0
  <2> SUFFICES ASSUME NEW g \in Groups PROVE winner[g].cost = 0
    OBVIOUS
  <2>1. WinnerOK(g)
    BY DEF SearchInv
  <2>2. CASE winner[g] = NoWinner
    BY <2>2 DEF NoWinner
  <2>3. CASE winner[g] \in [expr : DOMAIN exprs, cost : {0}]
    BY <2>3
  <2> QED
    BY <2>1, <2>2, <2>3 DEF WinnerOK
<1>3. InputCost(e) = [k \in DOMAIN ch |-> winner[ch[k]].cost]
  BY DEF InputCost
<1> HIDE DEF ch
<1>4. [k \in DOMAIN ch |-> winner[ch[k]].cost] \in [1 .. Len(ch) -> {0}]
  BY <1>1, <1>2
<1> QED
  BY <1>1, <1>3, <1>4

\* OptimizeInputsTask starts at its first input.
LEMMA OptimizeInputsStep ==
  ASSUME CascadesInv, OptimizeInputs
  PROVE  CascadesInv'
<1> DEFINE t == Last(tasks)
           e == t.expr
           c == ContinueInputsTask(e, 1, InputCost(e), FALSE)
           new == <<c>>
<1>1. /\ phase = "search" /\ tasks # <<>> /\ plan \in Plans /\ SearchInv /\ MemoOK
      /\ t.type = "OptimizeInputs" /\ TaskOK(t)
  BY TopFacts DEF OptimizeInputs
<1>2. /\ Push(new)
      /\ UNCHANGED <<plan, exprs, winner, counter, fired, explored, phase, best>>
  BY DEF OptimizeInputs
<1>3. e \in DOMAIN exprs /\ exprs[e].physical
  BY <1>1, TaskKinds
<1>4. explored' \subseteq Groups
  BY <1>1, <1>2 DEF SearchInv
<1>5. InputCost(e) \in Seq({0})
  BY <1>1, <1>3, InputCosts
<1>6. Len(exprs[e].children) \in Nat
  BY <1>1, <1>3, ExprFacts
<1>7. \A h : Promises(t, h) => exprs[e].group = h
  BY <1>1 DEF Promises
<1> HIDE DEF e
<1>8. c \in [type : {"ContinueInputs"}, expr : DOMAIN exprs, next : Nat \ {0},
             cost : Seq({0}), returned : BOOLEAN]
  BY <1>3, <1>5 DEF ContinueInputsTask
<1>9. c.type = "ContinueInputs" /\ c.expr = e /\ c.next = 1 /\ c.returned = FALSE
  BY DEF ContinueInputsTask
<1> HIDE DEF c
<1>10. TaskOK(c) /\ ~Waits(c) /\ Promises(c, exprs[e].group)
  <2>1. 1 <= Len(exprs[e].children) + 1 /\ 1 .. 1 - 1 = {}
    BY <1>6
  <2> QED
    BY <1>3, <1>8, <1>9, <2>1 DEF TaskOK, Waits, Promises
<1>11. new \in [1 .. 1 -> {c}] /\ new[1] = c
  OBVIOUS
<1> HIDE DEF new, t
<1>12. IsSeq(new) /\ Len(new) = 1
  BY <1>11, FunctionIsSeq
<1>13. \A k \in 1 .. Len(new) : TaskOK(new[k]) /\ ~Waits(new[k])
  BY <1>10, <1>11, <1>12
<1>14. \A h \in Groups : Promises(t, h) => \E k \in 1 .. Len(new) : Promises(new[k], h)
  BY <1>7, <1>10, <1>11, <1>12
<1> QED
  BY <1>1, <1>2, <1>4, <1>12, <1>13, <1>14, SearchPushed DEF t

\* At an input without a winner the task waits for one, below the task that
\* optimises the input's group; otherwise, with the winner there, it goes on.
LEMMA ContinueInputsStep ==
  ASSUME CascadesInv, ContinueInputs
  PROVE  CascadesInv'
<1> DEFINE t == Last(tasks)
           e == t.expr
           g == exprs[e].children[t.next]
           w == ContinueInputsTask(e, t.next, t.cost, TRUE)
           o == OptimizeGroupTask(g)
           c == ContinueInputsTask(e, t.next + 1, t.cost, FALSE)
           new == InputTasks(t)
<1>1. /\ phase = "search" /\ tasks # <<>> /\ plan \in Plans /\ SearchInv /\ MemoOK
      /\ t.type = "ContinueInputs" /\ TaskOK(t)
  BY TopFacts DEF ContinueInputs
<1>2. /\ t.next <= Len(exprs[e].children) /\ Push(new)
      /\ UNCHANGED <<plan, exprs, winner, counter, fired, explored, phase, best>>
  BY DEF ContinueInputs
<1>3. /\ e \in DOMAIN exprs /\ exprs[e].physical
      /\ t.next \in Nat \ {0} /\ t.cost \in Seq({0}) /\ t.returned \in BOOLEAN
      /\ \A k \in 1 .. t.next - 1 : winner[exprs[e].children[k]] # NoWinner
  BY <1>1, TaskKinds
<1>4. explored' \subseteq Groups
  BY <1>1, <1>2 DEF SearchInv
<1>5. /\ Len(exprs[e].children) \in Nat
      /\ \A k \in 1 .. Len(exprs[e].children) : exprs[e].children[k] \in Groups
  BY <1>1, <1>3, ExprFacts
<1>6. g \in Groups
  BY <1>2, <1>3, <1>5
<1>7. \A h : Promises(t, h) => exprs[e].group = h
  BY <1>1 DEF Promises
<1>8. t.returned => winner[g] # NoWinner
  <2> SUFFICES ASSUME t.returned PROVE winner[g] # NoWinner
    OBVIOUS
  <2>1. StackOK /\ IsSeq(tasks)
    BY <1>1 DEF SearchInv, StackOK
  <2>2. Len(tasks) \in DOMAIN tasks /\ DOMAIN tasks = 1 .. Len(tasks) /\ Len(tasks) \in Nat
    BY <1>1, <2>1 DEF IsSeq
  <2>3. Owed(Len(tasks), g)
    BY <1>1, <2>1, <2>2 DEF StackOK, Waits, Awaited, Last
  <2>4. ~\E k \in DOMAIN tasks : k > Len(tasks)
    BY <2>2
  <2> QED
    BY <2>3, <2>4 DEF Owed
<1>9. CASE winner[g] = NoWinner /\ ~t.returned
  <2>1. new = <<w, o>>
    BY <1>9 DEF InputTasks
  <2>2. /\ w \in [type : {"ContinueInputs"}, expr : DOMAIN exprs, next : Nat \ {0},
                  cost : Seq({0}), returned : BOOLEAN]
        /\ w.type = "ContinueInputs" /\ w.expr = e /\ w.next = t.next /\ w.returned = TRUE
    BY <1>3 DEF ContinueInputsTask
  <2>3. o \in [type : {"OptimizeGroup", "ExploreGroup"}, group : Groups]
    BY <1>6 DEF OptimizeGroupTask
  <2>4. o.type = "OptimizeGroup" /\ o.group = g
    BY DEF OptimizeGroupTask
  <2> HIDE DEF w, o, new, t
  <2>5. TaskOK(w) /\ Promises(w, exprs[e].group)
    BY <1>2, <1>3, <1>5, <2>2 DEF TaskOK, Promises
  <2>6. Awaited(w) = g
    BY <2>2 DEF Awaited
  <2>7. TaskOK(o) /\ ~Waits(o) /\ Promises(o, Awaited(w))
    BY <2>3, <2>4, <2>6 DEF TaskOK, Waits, Promises
  <2>8. new \in [1 .. 2 -> {w, o}] /\ new[1] = w /\ new[2] = o
    BY <2>1
  <2>9. IsSeq(new) /\ Len(new) = 2
    BY <2>8, FunctionIsSeq
  <2>10. \A k \in 1 .. Len(new) : TaskOK(new[k])
    BY <2>5, <2>7, <2>8, <2>9
  <2>11. \A k \in 1 .. Len(new) : Waits(new[k]) =>
           \E l \in 1 .. Len(new) : l > k /\ Promises(new[l], Awaited(new[k]))
    <3> SUFFICES ASSUME NEW k \in 1 .. Len(new), Waits(new[k])
                 PROVE  \E l \in 1 .. Len(new) : l > k /\ Promises(new[l], Awaited(new[k]))
      OBVIOUS
    <3>1. k = 1
      BY <2>7, <2>8, <2>9
    <3>2. 2 \in 1 .. Len(new) /\ 2 > k /\ new[k] = w /\ new[2] = o
      BY <2>8, <2>9, <3>1
    <3> QED
      BY <2>7, <3>2
  <2>12. \A h \in Groups : Promises(t, h) => \E k \in 1 .. Len(new) : Promises(new[k], h)
    BY <1>7, <2>5, <2>8, <2>9
  <2> QED
    BY <1>1, <1>2, <1>4, <2>9, <2>10, <2>11, <2>12, SearchPushed DEF t
<1>10. CASE winner[g] # NoWinner
  <2>1. new = <<c>>
    BY <1>10 DEF InputTasks
  <2>2. t.next + 1 \in Nat \ {0} /\ t.next + 1 <= Len(exprs[e].children) + 1
    BY <1>2, <1>3, <1>5
  <2>3. /\ c \in [type : {"ContinueInputs"}, expr : DOMAIN exprs, next : Nat \ {0},
                  cost : Seq({0}), returned : BOOLEAN]
        /\ c.type = "ContinueInputs" /\ c.expr = e /\ c.next = t.next + 1 /\ c.returned = FALSE
    BY <1>3, <2>2 DEF ContinueInputsTask
  <2>4. \A k \in 1 .. (t.next + 1) - 1 : winner[exprs[e].children[k]] # NoWinner
    <3> SUFFICES ASSUME NEW k \in 1 .. (t.next + 1) - 1
                 PROVE  winner[exprs[e].children[k]] # NoWinner
      OBVIOUS
    <3>1. k = t.next \/ k \in 1 .. t.next - 1
      BY <1>3
    <3> QED
      BY <1>3, <1>10, <3>1
  <2> HIDE DEF c, new, t
  <2>5. TaskOK(c) /\ ~Waits(c) /\ Promises(c, exprs[e].group)
    BY <1>3, <2>2, <2>3, <2>4 DEF TaskOK, Waits, Promises
  <2>6. new \in [1 .. 1 -> {c}] /\ new[1] = c
    BY <2>1
  <2>7. IsSeq(new) /\ Len(new) = 1
    BY <2>6, FunctionIsSeq
  <2>8. \A k \in 1 .. Len(new) : TaskOK(new[k]) /\ ~Waits(new[k])
    BY <2>5, <2>6, <2>7
  <2>9. \A h \in Groups : Promises(t, h) => \E k \in 1 .. Len(new) : Promises(new[k], h)
    BY <1>7, <2>5, <2>6, <2>7
  <2> QED
    BY <1>1, <1>2, <1>4, <2>7, <2>8, <2>9, SearchPushed DEF t
<1> QED
  BY <1>3, <1>8, <1>9, <1>10

\* Costs that are zero add up to zero.
LEMMA ZeroSum ==
  ASSUME NEW costs \in Seq({0})
  PROVE  CostSum(costs) = 0
<1> DEFINE n == Len(costs)
           SumEq(f) == f = [k \in 0 .. n |-> IF k = 0 THEN 0 ELSE f[k - 1] + costs[k]]
           sum == CHOOSE f : SumEq(f)
<1>1. n \in Nat /\ \A k \in 1 .. n : costs[k] = 0
  OBVIOUS
<1>2. CostSum(costs) = sum[n]
  BY DEF CostSum
<1> HIDE DEF n
<1>3. SumEq([k \in 0 .. n |-> 0])
  <2> DEFINE f == [k \in 0 .. n |-> 0]
  <2>1. \A k \in 0 .. n : (IF k = 0 THEN 0 ELSE f[k - 1] + costs[k]) = 0
    <3> SUFFICES ASSUME NEW k \in 0 .. n, k # 0 PROVE f[k - 1] + costs[k] = 0
      OBVIOUS
    <3>1. k - 1 \in 0 .. n /\ k \in 1 .. n
      BY <1>1
    <3> QED
      BY <1>1, <3>1
  <2>2. [k \in 0 .. n |-> IF k = 0 THEN 0 ELSE f[k - 1] + costs[k]] = f
    BY <2>1
  <2> QED
    BY <2>2
<1>4. SumEq(sum)
  <2> HIDE DEF SumEq
  <2> QED
    BY <1>3
<1> HIDE DEF sum
<1>5. \A k \in 0 .. n : sum[k] = IF k = 0 THEN 0 ELSE sum[k - 1] + costs[k]
  BY <1>4
<1> DEFINE T == {k \in 0 .. n : sum[k] # 0}
<1>6. T = {}
  <2> SUFFICES ASSUME T # {} PROVE FALSE
    OBVIOUS
  <2>1. T \in SUBSET Nat
    BY <1>1
  <2>2. PICK m \in T : \A k \in T : m <= k
    BY <2>1, LeastNumber
  <2>3. m \in 0 .. n /\ sum[m] # 0
    BY <2>2
  <2>4. m # 0
    BY <1>5, <2>3
  <2>5. m - 1 \in 0 .. n /\ m \in 1 .. n /\ ~(m <= m - 1)
    BY <1>1, <2>3, <2>4
  <2>6. sum[m - 1] = 0
    BY <2>2, <2>5
  <2>7. sum[m] = sum[m - 1] + costs[m]
    BY <1>5, <2>3, <2>4
  <2>8. costs[m] = 0
    BY <1>1, <2>5
  <2>9. sum[m] = 0 + 0
    BY <2>6, <2>7, <2>8, Zenon
  <2> QED
    BY <2>3, <2>9
<1>7. n \in 0 .. n
  BY <1>1
<1> QED
  BY <1>2, <1>6, <1>7

\* Past its last input the task makes its expression the winner of its group,
\* all of its inputs having theirs, or finds a winner there.
LEMMA ChooseWinnerStep ==
  ASSUME CascadesInv, ChooseWinner
  PROVE  CascadesInv'
<1> DEFINE t == Last(tasks)
           e == t.expr
           g == GetGroupId(e)
           w == [expr |-> e, cost |-> CostSum(t.cost)]
<1>1. /\ phase = "search" /\ tasks # <<>> /\ plan \in Plans /\ SearchInv /\ MemoOK
      /\ t.type = "ContinueInputs" /\ TaskOK(t)
  BY TopFacts DEF ChooseWinner
<1>2. /\ t.next > Len(exprs[e].children)
      /\ IF IsUpdateWinner(CostSum(t.cost), g) THEN winner' = [winner EXCEPT ![g] = w]
                                               ELSE winner' = winner
      /\ Push(<<>>)
      /\ UNCHANGED <<plan, exprs, counter, fired, explored, phase, best>>
  BY DEF ChooseWinner, UpdateGroupInfo
<1>3. /\ e \in DOMAIN exprs /\ exprs[e].physical
      /\ t.next \in Nat \ {0} /\ t.cost \in Seq({0})
      /\ t.next <= Len(exprs[e].children) + 1
      /\ \A k \in 1 .. t.next - 1 : winner[exprs[e].children[k]] # NoWinner
  BY <1>1, TaskKinds
<1>4. /\ e \in Nat \ {0} /\ g \in Groups /\ g = exprs[e].group
      /\ Len(exprs[e].children) \in Nat
      /\ DOMAIN exprs[e].children = 1 .. Len(exprs[e].children)
  BY <1>1, <1>3, ExprFacts DEF GetGroupId
<1>5. w \in [expr : DOMAIN exprs, cost : {0}] /\ w.expr = e /\ w # NoWinner
  BY <1>3, <1>4, ZeroSum DEF NoWinner
<1>6. \A c \in Range(exprs[e].children) : winner[c] # NoWinner
  <2>1. t.next - 1 = Len(exprs[e].children)
    BY <1>2, <1>3, <1>4
  <2> QED
    BY <1>3, <1>4, <2>1 DEF Range
<1>7. \A h : Promises(t, h) => h = g
  BY <1>1, <1>4 DEF Promises
<1> HIDE DEF e, g, w
<1>8. /\ DOMAIN winner' = DOMAIN winner
      /\ \A h \in Groups : h # g => winner'[h] = winner[h]
      /\ winner'[g] = w \/ winner'[g] = winner[g]
      /\ winner'[g] # NoWinner
  <2>1. CASE IsUpdateWinner(CostSum(t.cost), g)
    <3>1. winner' = [winner EXCEPT ![g] = w]
      BY <1>2, <2>1
    <3>2. g \in DOMAIN winner /\ Groups = DOMAIN winner
      BY <1>4 DEF Groups
    <3> QED
      BY <1>5, <3>1, <3>2
  <2>2. CASE ~IsUpdateWinner(CostSum(t.cost), g)
    <3>1. winner' = winner
      BY <1>2, <2>2
    <3>2. winner[g] # NoWinner
      BY <2>2 DEF IsUpdateWinner
    <3> QED
      BY <3>1, <3>2
  <2> QED
    BY <2>1, <2>2
<1>9. \A h \in Groups : winner[h] # NoWinner => winner'[h] # NoWinner
  BY <1>8
<1>10. Groups' = Groups
  BY <1>8 DEF Groups
<1>11. MemoOK'
  BY <1>1, <1>2, <1>8, <1>10 DEF MemoOK, MemoExpr, HasPhysical, Nodes
<1>12. ASSUME NEW h \in Groups PROVE WinnerOK(h)'
  <2>1. \A d \in DOMAIN exprs : \A c \in Range(exprs[d].children) : c \in Groups
    <3> SUFFICES ASSUME NEW d \in DOMAIN exprs, NEW c \in Range(exprs[d].children)
                 PROVE  c \in Groups
      OBVIOUS
    <3>1. /\ DOMAIN exprs[d].children = 1 .. Len(exprs[d].children)
          /\ \A k \in 1 .. Len(exprs[d].children) : exprs[d].children[k] \in Groups
      BY <1>1, ExprFacts
    <3> QED
      BY <3>1 DEF Range
  <2>2. CASE winner'[h] = w /\ h = g
    <3>1. \A c \in Range(exprs[e].children) : winner'[c] # NoWinner
      BY <1>3, <1>6, <1>9, <2>1 DEF e
    <3> QED
      BY <1>2, <1>3, <1>4, <1>5, <2>2, <3>1 DEF WinnerOK, e
  <2>3. CASE winner'[h] = winner[h]
    <3>1. WinnerOK(h)
      BY <1>1 DEF SearchInv
    <3>2. CASE winner[h] = NoWinner
      BY <2>3, <3>2 DEF WinnerOK
    <3>3. CASE winner[h] # NoWinner
      <4>1. /\ winner[h] \in [expr : DOMAIN exprs, cost : {0}]
            /\ exprs[winner[h].expr].physical
            /\ exprs[winner[h].expr].group = h
            /\ \A c \in Range(exprs[winner[h].expr].children) : winner[c] # NoWinner
        BY <3>1, <3>3 DEF WinnerOK
      <4>2. winner[h].expr \in DOMAIN exprs
        BY <4>1
      <4>3. \A c \in Range(exprs[winner[h].expr].children) : winner'[c] # NoWinner
        BY <1>9, <2>1, <4>1, <4>2
      <4> QED
        BY <1>2, <2>3, <4>1, <4>3 DEF WinnerOK
    <3> QED
      BY <3>2, <3>3
  <2> QED
    BY <1>8, <2>2, <2>3
<1>13. StackOK'
  <2> DEFINE new == <<>>
  <2>1. IsSeq(new) /\ Len(new) = 0 /\ Push(new)
    BY <1>2 DEF IsSeq
  <2>2. \A u, h : Promises(u, h) => Promises(u, h)'
    BY <1>2 DEF Promises, Matches, Kind
  <2>3. \A h \in Groups : Promises(Last(tasks), h) => winner'[h] # NoWinner
    BY <1>7, <1>8 DEF t
  <2>4. StackOK
    BY <1>1 DEF SearchInv
  <2> HIDE DEF new, t
  <2>5. /\ plan' = plan
        /\ \A d \in DOMAIN exprs : d \in DOMAIN exprs' /\ exprs'[d] = exprs[d]
        /\ \A k \in 1 .. Len(new) : FALSE
    BY <1>2, <2>1
  <2> QED
    BY <1>1, <1>8, <1>9, <2>1, <2>2, <2>3, <2>4, <2>5, StackPushed
<1>14. explored' \subseteq Groups'
  BY <1>1, <1>2, <1>10 DEF SearchInv
<1> QED
  BY <1>1, <1>2, <1>10, <1>11, <1>12, <1>13, <1>14 DEF CascadesInv, SearchInv

\* The logical expression of a node, made physical by a rule, is the physical one.
LEMMA ApplyMemo ==
  ASSUME NEW i
  PROVE  Apply(MemoExpr(i, FALSE)) = MemoExpr(i, TRUE)
<1>1. ASSUME NEW g, NEW ch, NEW a, NEW b
      PROVE  [[node |-> i, physical |-> a, group |-> g, children |-> ch] EXCEPT !.physical = b]
               = [node |-> i, physical |-> b, group |-> g, children |-> ch]
  OBVIOUS
<1> QED
  BY <1>1, Zenon DEF Apply, MemoExpr

\* ApplyRuleTask puts the physical expression of its node into the memo, once.
LEMMA ApplyRuleStep ==
  ASSUME CascadesInv, ApplyRule
  PROVE  CascadesInv'
<1> DEFINE t == Last(tasks)
<1>1. /\ phase = "search" /\ tasks # <<>> /\ plan \in Plans /\ SearchInv /\ MemoOK
      /\ t.type = "ApplyRule" /\ TaskOK(t)
  BY TopFacts DEF ApplyRule
<1>2. PICK e, r : e = t.expr /\ r = t.rule
  OBVIOUS
<1>3. e \in DOMAIN exprs /\ r \in DOMAIN Rules /\ Matches(r, e)
  BY <1>1, <1>2, TaskKinds
<1>4. MatchAndPickExpr(r, e) # {}
  BY <1>3 DEF MatchAndPickExpr
<1>5. /\ fired' = fired \cup {<<e, r>>}
      /\ UNCHANGED <<plan, winner, explored, phase, best>>
  BY <1>2 DEF ApplyRule, MarkRuleFired
<1>6. explored' \subseteq Groups /\ StackOK
  BY <1>1, <1>5 DEF SearchInv
<1>7. CASE <<e, r>> \in fired
  <2> DEFINE new == <<>>
  <2>1. Push(new) /\ exprs' = exprs /\ counter' = counter /\ fired' = fired
    BY <1>2, <1>5, <1>7 DEF ApplyRule, IsRuleFired
  <2>2. IsSeq(new) /\ Len(new) = 0
    BY DEF IsSeq
  <2>3. \A h : ~Promises(t, h)
    BY <1>1, <1>2, <1>7 DEF Promises
  <2> HIDE DEF new, t
  <2>4. /\ \A k \in 1 .. Len(new) : FALSE
        /\ UNCHANGED <<plan, exprs, winner, counter, fired, phase, best>>
    BY <1>5, <2>1, <2>2
  <2> QED
    BY <1>1, <1>6, <2>1, <2>2, <2>3, <2>4, SearchPushed DEF t
<1>8. CASE <<e, r>> \notin fired
  <2>1. PICK x : x = counter + 1
    OBVIOUS
  <2>2. PICK i : i = exprs[e].node
    OBVIOUS
  <2> DEFINE o == OptimizeInputsTask(x)
             new == <<o>>
  <2>3. exprs' = AddGroupExpr(e) /\ counter' = x /\ Push(new)
    BY <1>2, <1>4, <1>8, <2>1 DEF ApplyRule, IsRuleFired
  <2>4. /\ i \in Nodes /\ e = ExprOf(i) /\ exprs[e] = MemoExpr(i, FALSE)
        /\ exprs[e].group = GroupOf(i) /\ plan.kind[i] = Rules[r]
    <3>1. ~exprs[e].physical /\ plan.kind[i] = Rules[r]
      BY <1>3, <2>2 DEF Matches, Kind
    <3>2. i \in Nodes /\ e = ExprOf(i)
      BY <1>1, <1>3, <2>2, <3>1 DEF MemoOK
    <3>3. exprs[e] = MemoExpr(i, FALSE)
      BY <1>1, <3>2 DEF MemoOK
    <3> QED
      BY <3>1, <3>2, <3>3 DEF MemoExpr
  <2>5. ~HasPhysical(i)
    BY <1>1, <1>3, <1>8, <2>4 DEF MemoOK
  <2>6. \A j, k \in Nodes : j # k => GroupOf(j) # GroupOf(k) /\ ExprOf(j) # ExprOf(k)
    BY <1>1, PlanFacts DEF GroupOf, ExprOf
  <2>7. counter \in Nat /\ DOMAIN exprs \cup Groups = 1 .. counter
    BY <1>1 DEF MemoOK
  <2>8. x \notin DOMAIN exprs /\ x \notin Groups /\ x \in Nat /\ x > counter
    BY <2>1, <2>7
  <2>9. /\ DOMAIN exprs' = DOMAIN exprs \cup {x}
        /\ \A d \in DOMAIN exprs : exprs'[d] = exprs[d]
        /\ exprs'[x] = Apply(exprs[e])
    BY <2>1, <2>3, <2>8 DEF AddGroupExpr
  <2>10. exprs'[x] = MemoExpr(i, TRUE)
    BY <2>4, <2>9, ApplyMemo
  <2>11. /\ exprs'[x].node = i /\ exprs'[x].physical = TRUE
         /\ exprs'[x].group = GroupOf(i)
    BY <2>10 DEF MemoExpr
  <2>12. plan' = plan /\ Nodes' = Nodes /\ Groups' = Groups /\ winner' = winner
    BY <1>5 DEF Nodes, Groups
  <2>13. \A j, ph : MemoExpr(j, ph)' = MemoExpr(j, ph)
    BY <2>12 DEF MemoExpr
  <2>14. \A j \in Nodes : HasPhysical(j)' <=> (HasPhysical(j) \/ j = i)
    <3>1. HasPhysical(i)'
      BY <2>9, <2>11 DEF HasPhysical
    <3>2. \A j \in Nodes : HasPhysical(j) => HasPhysical(j)'
      BY <2>9 DEF HasPhysical
    <3>3. ASSUME NEW j \in Nodes, HasPhysical(j)', j # i PROVE HasPhysical(j)
      <4>1. PICK d \in DOMAIN exprs' : exprs'[d].physical /\ exprs'[d].group = GroupOf(j)
        BY <3>3 DEF HasPhysical
      <4>2. d # x
        BY <2>4, <2>6, <2>11, <3>3, <4>1
      <4> QED
        BY <2>9, <4>1, <4>2 DEF HasPhysical
    <3> QED
      BY <2>4, <3>1, <3>2, <3>3
  <2>15. MemoOK'
    <3>1. counter' \in Nat /\ counter' >= 2 * Len(plan'.kind)
      <4>1. counter >= 2 * Len(plan.kind) /\ Len(plan.kind) \in Nat
        BY <1>1, PlanFacts DEF MemoOK
      <4> QED
        BY <2>1, <2>3, <2>7, <2>12, <4>1
    <3>2. DOMAIN winner' = {GroupOf(j) : j \in Nodes'}
      BY <1>1, <2>12 DEF MemoOK
    <3>3. DOMAIN exprs' \cup Groups' = 1 .. counter'
      BY <2>1, <2>3, <2>7, <2>9, <2>12
    <3>4. DOMAIN exprs' \cap Groups' = {}
      BY <1>1, <2>8, <2>9, <2>12 DEF MemoOK
    <3>5. \A j \in Nodes' : ExprOf(j) \in DOMAIN exprs' /\ exprs'[ExprOf(j)] = MemoExpr(j, FALSE)'
      BY <1>1, <2>9, <2>12, <2>13 DEF MemoOK
    <3>6. ASSUME NEW d \in DOMAIN exprs'
          PROVE  /\ exprs'[d].node \in Nodes'
                 /\ exprs'[d].physical \in BOOLEAN
                 /\ exprs'[d] = MemoExpr(exprs[d].node, exprs[d].physical)'
                 /\ ~exprs'[d].physical => d = ExprOf(exprs'[d].node)
      <4>1. CASE d = x
        BY <2>4, <2>10, <2>11, <2>12, <4>1 DEF MemoExpr
      <4>2. CASE d \in DOMAIN exprs
        <5>1. /\ exprs[d].node \in Nodes /\ exprs[d].physical \in BOOLEAN
              /\ exprs[d] = MemoExpr(exprs[d].node, exprs[d].physical)
              /\ ~exprs[d].physical => d = ExprOf(exprs[d].node)
          BY <1>1, <4>2 DEF MemoOK
        <5>2. exprs'[d] = exprs[d]
          BY <2>9, <4>2
        <5>3. MemoExpr(exprs[d].node, exprs[d].physical)'
                = MemoExpr(exprs[d].node, exprs[d].physical)
          BY <2>12, <5>2 DEF MemoExpr
        <5> QED
          BY <2>12, <5>1, <5>2, <5>3
      <4> QED
        BY <2>9, <4>1, <4>2
    <3>7. ASSUME NEW c \in DOMAIN exprs', NEW d \in DOMAIN exprs',
                 exprs'[c].physical, exprs'[d].physical, exprs'[c].node = exprs'[d].node
          PROVE  c = d
      <4>1. \A b \in DOMAIN exprs : exprs[b].physical => exprs[b].node # i
        <5> SUFFICES ASSUME NEW b \in DOMAIN exprs, exprs[b].physical, exprs[b].node = i
                     PROVE  FALSE
          OBVIOUS
        <5>1. exprs[b].group = GroupOf(i)
          BY <1>1, ExprFacts
        <5> QED
          BY <2>5, <5>1 DEF HasPhysical
      <4>2. CASE c \in DOMAIN exprs /\ d \in DOMAIN exprs
        BY <1>1, <2>9, <3>7, <4>2 DEF MemoOK
      <4>3. CASE c = x \/ d = x
        BY <2>9, <2>11, <3>7, <4>1, <4>3
      <4> QED
        BY <2>9, <4>2, <4>3
    <3>8. ASSUME NEW j \in Nodes, NEW q \in DOMAIN Rules, plan.kind[j] = Rules[q]
          PROVE  <<ExprOf(j), q>> \in fired' <=> HasPhysical(j)'
      <4>1. <<ExprOf(j), q>> \in fired <=> HasPhysical(j)
        BY <1>1, <3>8 DEF MemoOK
      <4>2. CASE j = i
        <5>1. q = r
          BY <1>3, <2>4, <3>8, <4>2, RuleFacts
        <5> QED
          BY <1>5, <2>4, <2>14, <4>2, <5>1
      <4>3. CASE j # i
        <5>1. ExprOf(j) # e
          BY <2>4, <2>6, <4>3
        <5> QED
          BY <1>5, <2>14, <4>1, <4>3, <5>1
      <4> QED
        BY <4>2, <4>3
    <3> QED
      BY <2>12, <3>1, <3>2, <3>3, <3>4, <3>5, <3>6, <3>7, <3>8 DEF MemoOK
  <2>16. ASSUME NEW g \in Groups PROVE WinnerOK(g)'
    <3>1. WinnerOK(g) /\ winner'[g] = winner[g]
      BY <1>1, <2>12 DEF SearchInv
    <3>2. CASE winner[g] = NoWinner
      BY <3>1, <3>2 DEF WinnerOK
    <3>3. CASE winner[g] # NoWinner
      <4>1. /\ winner[g] \in [expr : DOMAIN exprs, cost : {0}]
            /\ winner[g].expr \in DOMAIN exprs
            /\ exprs[winner[g].expr].physical
            /\ exprs[winner[g].expr].group = g
            /\ \A c \in Range(exprs[winner[g].expr].children) : winner[c] # NoWinner
        BY <3>1, <3>3 DEF WinnerOK
      <4>2. winner[g] \in [expr : DOMAIN exprs', cost : {0}]
        BY <2>9, <4>1
      <4>3. exprs'[winner[g].expr] = exprs[winner[g].expr]
        BY <2>9, <4>1
      <4> QED
        BY <2>12, <4>1, <4>2, <4>3 DEF WinnerOK
    <3> QED
      BY <3>2, <3>3
  <2>17. StackOK'
    <3>1. /\ o \in [type : {"OptimizeInputs"}, expr : DOMAIN exprs']
          /\ o.type = "OptimizeInputs" /\ o.expr = x
      BY <2>9 DEF OptimizeInputsTask
    <3> HIDE DEF o
    <3>2. TaskOK(o)' /\ ~Waits(o) /\ Promises(o, GroupOf(i))'
      BY <2>11, <3>1 DEF TaskOK, Waits, Promises
    <3>3. new \in [1 .. 1 -> {o}] /\ new[1] = o
      OBVIOUS
    <3>4. PICK n : n = new
      OBVIOUS
    <3> HIDE DEF new
    <3>5. IsSeq(n) /\ Len(n) = 1 /\ n[1] = o /\ Push(n)
      BY <2>3, <3>3, <3>4, FunctionIsSeq
    <3>6. ASSUME NEW u, TaskOK(u), NEW g \in Groups, Promises(u, g)
          PROVE  Promises(u, g)' \/ \E k \in 1 .. Len(n) : Promises(n[k], g)'
      <4>1. CASE u.type = "OptimizeGroup" /\ u.group = g
        BY <4>1 DEF Promises
      <4>2. CASE u.type \in {"OptimizeInputs", "ContinueInputs"} /\ exprs[u.expr].group = g
        <5>1. u.expr \in DOMAIN exprs
          BY <3>6, <4>2, TaskKinds
        <5> QED
          BY <2>9, <4>2, <5>1 DEF Promises
      <4>3. CASE /\ u.type \in {"OptimizeExpr", "ApplyRule"}
                 /\ u.expr = e /\ exprs[u.expr].group = g
        <5>1. 1 \in 1 .. Len(n) /\ g = GroupOf(i)
          BY <2>4, <3>5, <4>3
        <5> QED
          BY <3>2, <3>5, <5>1
      <4>4. CASE /\ u.type = "OptimizeExpr" /\ u.expr # e
                 /\ ~u.exploring /\ exprs[u.expr].group = g
                 /\ \E q \in DOMAIN Rules : Matches(q, u.expr) /\ <<u.expr, q>> \notin fired
        <5>1. PICK q \in DOMAIN Rules : Matches(q, u.expr) /\ <<u.expr, q>> \notin fired
          BY <4>4
        <5>2. u.expr \in DOMAIN exprs /\ exprs'[u.expr] = exprs[u.expr]
          BY <2>9, <3>6, <4>4, TaskKinds
        <5>3. Matches(q, u.expr)' /\ <<u.expr, q>> \notin fired'
          BY <1>5, <2>12, <4>4, <5>1, <5>2 DEF Matches, Kind
        <5> QED
          BY <4>4, <5>2, <5>3 DEF Promises
      <4>5. CASE /\ u.type = "ApplyRule" /\ u.expr # e
                 /\ exprs[u.expr].group = g /\ <<u.expr, u.rule>> \notin fired
        <5>1. u.expr \in DOMAIN exprs /\ exprs'[u.expr] = exprs[u.expr]
          BY <2>9, <3>6, <4>5, TaskKinds
        <5>2. <<u.expr, u.rule>> \notin fired'
          BY <1>5, <4>5
        <5> QED
          BY <4>5, <5>1, <5>2 DEF Promises
      <4> QED
        BY <3>6, <4>1, <4>2, <4>3, <4>4, <4>5 DEF Promises
    <3>7. ASSUME NEW g \in Groups, Promises(Last(tasks), g)
          PROVE  \E k \in 1 .. Len(n) : Promises(n[k], g)'
      <4>1. exprs[e].group = g
        BY <1>1, <1>2, <3>7 DEF Promises
      <4>2. 1 \in 1 .. Len(n) /\ g = GroupOf(i)
        BY <2>4, <3>5, <4>1
      <4> QED
        BY <3>2, <3>5, <4>2
    <3>8. \A k \in 1 .. Len(n) : TaskOK(n[k])' /\ ~Waits(n[k])
      BY <3>2, <3>5
    <3>9. \A d \in DOMAIN exprs : d \in DOMAIN exprs' /\ exprs'[d] = exprs[d]
      BY <2>9
    <3> HIDE DEF t
    <3> QED
      BY <1>1, <1>6, <2>12, <3>5, <3>6, <3>7, <3>8, <3>9, StackPushed
  <2> QED
    BY <1>1, <1>5, <1>6, <2>12, <2>15, <2>16, <2>17 DEF CascadesInv, SearchInv
<1> QED
  BY <1>7, <1>8

-----------------------------------------------------------------------------
(* FindBestExp *)

\* The memo after InitMemo, and the first task.
LEMMA StartStep ==
  ASSUME CascadesInv, Start
  PROVE  CascadesInv'
<1> DEFINE n == Len(plan.kind)
           o == OptimizeGroupTask(GroupOf(n))
<1>1. /\ plan \in Plans /\ phase = "start" /\ fired = {} /\ explored = {}
  BY DEF CascadesInv, Start
<1>2. /\ exprs' = InitExprs(plan)
      /\ winner' = [g \in {GroupOf(i) : i \in Nodes} |-> NoWinner]
      /\ counter' = 2 * n /\ tasks' = <<o>> /\ phase' = "search"
      /\ plan' = plan /\ fired' = {} /\ explored' = {}
  BY <1>1 DEF Start
<1>3. n \in Nat \ {0} /\ Nodes = 1 .. n /\ Nodes' = Nodes /\ n \in Nodes
  BY <1>1, <1>2, PlanFacts DEF Nodes
<1>4. \A i \in Nodes : ExprOf(i) \in Nat /\ (ExprOf(i) + 1) \div 2 = i
  BY <1>3 DEF ExprOf
<1>5. DOMAIN exprs' = {ExprOf(i) : i \in Nodes}
  BY <1>2 DEF InitExprs, Nodes
<1>6. \A i \in Nodes : ExprOf(i) \in DOMAIN exprs' /\ exprs'[ExprOf(i)] = MemoExpr(i, FALSE)
  <2> SUFFICES ASSUME NEW i \in Nodes
               PROVE  ExprOf(i) \in DOMAIN exprs' /\ exprs'[ExprOf(i)] = MemoExpr(i, FALSE)
    OBVIOUS
  <2>1. ExprOf(i) \in {ExprOf(j) : j \in DOMAIN plan.kind} /\ (ExprOf(i) + 1) \div 2 = i
    BY <1>4 DEF Nodes
  <2>2. PICK x : x = ExprOf(i)
    OBVIOUS
  <2>3. exprs'[x] = LET j == (x + 1) \div 2
                    IN  [node |-> j, physical |-> FALSE, group |-> GroupOf(j),
                         children |-> [k \in DOMAIN plan.inputs[j] |-> GroupOf(plan.inputs[j][k])]]
    BY <1>2, <2>1, <2>2 DEF InitExprs
  <2>4. (x + 1) \div 2 = i
    BY <2>1, <2>2
  <2> QED
    BY <1>5, <2>2, <2>3, <2>4 DEF MemoExpr
<1>7. DOMAIN winner' = {GroupOf(i) : i \in Nodes} /\ Groups' = {GroupOf(i) : i \in Nodes}
  BY <1>2 DEF Groups
<1>8. \A g \in Groups' : winner'[g] = NoWinner
  BY <1>2, <1>7
<1>9. \A i, ph : MemoExpr(i, ph)' = MemoExpr(i, ph)
  BY <1>2 DEF MemoExpr
<1>10. MemoOK'
  <2>1. counter' \in Nat /\ counter' >= 2 * Len(plan'.kind)
    BY <1>2, <1>3
  <2>2. DOMAIN exprs' \cup Groups' = 1 .. counter'
    <3>1. ASSUME NEW x \in 1 .. 2 * n
          PROVE  x \in DOMAIN exprs' \cup Groups'
      <4>1. PICK m \in 1 .. n : x = 2 * m - 1 \/ x = 2 * m
        <5>1. (x + 1) \div 2 \in 1 .. n
          BY <1>3
        <5>2. x = 2 * ((x + 1) \div 2) - 1 \/ x = 2 * ((x + 1) \div 2)
          BY <1>3
        <5> QED
          BY <5>1, <5>2
      <4> QED
        BY <1>3, <1>5, <1>7, <4>1 DEF ExprOf, GroupOf
    <3>2. DOMAIN exprs' \subseteq 1 .. 2 * n
      BY <1>3, <1>5 DEF ExprOf
    <3>3. Groups' \subseteq 1 .. 2 * n
      BY <1>3, <1>7 DEF GroupOf
    <3> QED
      BY <1>2, <3>1, <3>2, <3>3
  <2>3. DOMAIN exprs' \cap Groups' = {}
    BY <1>3, <1>5, <1>7 DEF ExprOf, GroupOf
  <2>4. ASSUME NEW e \in DOMAIN exprs'
        PROVE  /\ exprs'[e].node \in Nodes'
               /\ exprs'[e].physical = FALSE
               /\ exprs'[e] = MemoExpr(exprs[e].node, exprs[e].physical)'
               /\ e = ExprOf(exprs'[e].node)
    <3>1. PICK i \in Nodes : e = ExprOf(i)
      BY <1>5
    <3>2. exprs'[e] = MemoExpr(i, FALSE)
      BY <1>6, <3>1
    <3>3. exprs'[e].node = i /\ exprs'[e].physical = FALSE
      BY <3>2 DEF MemoExpr
    <3>4. MemoExpr(exprs[e].node, exprs[e].physical)' = MemoExpr(i, FALSE)
      BY <1>2, <3>3 DEF MemoExpr
    <3> QED
      BY <1>3, <3>1, <3>2, <3>3, <3>4
  <2>5. \A i \in Nodes : ~HasPhysical(i)'
    BY <2>4 DEF HasPhysical
  <2>6. \A i \in Nodes' : ExprOf(i) \in DOMAIN exprs' /\ exprs'[ExprOf(i)] = MemoExpr(i, FALSE)'
    BY <1>3, <1>6, <1>9
  <2>7. DOMAIN winner' = {GroupOf(i) : i \in Nodes'}
    BY <1>3, <1>7
  <2> QED
    BY <1>2, <1>3, <2>1, <2>2, <2>3, <2>4, <2>5, <2>6, <2>7 DEF MemoOK
<1>11. (\A g \in Groups : WinnerOK(g))'
  BY <1>8 DEF WinnerOK
<1>12. StackOK'
  <2>1. o.type = "OptimizeGroup" /\ o.group = GroupOf(n) /\ GroupOf(n) \in Groups'
    BY <1>3, <1>7 DEF OptimizeGroupTask
  <2>2. TaskOK(o)' /\ ~Waits(o) /\ Promises(o, GroupOf(n))'
    <3>1. PICK g : g = GroupOf(n)
      OBVIOUS
    <3>2. PICK u : u = o
      OBVIOUS
    <3>3. u \in [type : {"OptimizeGroup", "ExploreGroup"}, group : Groups']
      BY <2>1, <3>1, <3>2 DEF OptimizeGroupTask
    <3>4. TaskOK(u)' /\ ~Waits(u) /\ Promises(u, g)'
      BY <2>1, <3>1, <3>2, <3>3 DEF TaskOK, Waits, Promises
    <3>5. o' = o /\ GroupOf(n)' = GroupOf(n)
      BY <1>2
    <3> QED
      BY <3>1, <3>2, <3>4, <3>5
  <2> HIDE DEF o
  <2>3. tasks' \in [1 .. 1 -> {o}] /\ tasks'[1] = o
    BY <1>2
  <2>4. IsSeq(tasks') /\ Len(tasks') = 1 /\ DOMAIN tasks' = {1}
    <3>1. PICK s : s = tasks'
      OBVIOUS
    <3>2. s \in [1 .. 1 -> {o}] /\ 1 \in Nat
      BY <2>3, <3>1
    <3>3. IsSeq(s) /\ Len(s) = 1
      BY <3>2, FunctionIsSeq
    <3>4. DOMAIN s = {1}
      BY <3>2
    <3> QED
      BY <3>1, <3>3, <3>4
  <2>5. o' = o
    BY <1>2 DEF o
  <2> QED
    BY <1>2, <2>2, <2>3, <2>4, <2>5 DEF StackOK, Owed, Waits
<1> QED
  BY <1>1, <1>2, <1>10, <1>11, <1>12 DEF CascadesInv, SearchInv

-----------------------------------------------------------------------------
(* The plan FindBestExp returns *)

\* The chosen expression of a group with a winner is the physical one of its
\* node, and the groups of its inputs have winners.
LEMMA ChosenFacts ==
  ASSUME plan \in Plans, MemoOK, \A g \in Groups : WinnerOK(g),
         NEW i \in Nodes, winner[GroupOf(i)] # NoWinner
  PROVE  /\ GroupOf(i) \in Groups
         /\ Chosen(GroupOf(i)) = MemoExpr(i, TRUE)
         /\ \A k \in DOMAIN plan.inputs[i] :
              /\ plan.inputs[i][k] \in Nodes /\ plan.inputs[i][k] < i
              /\ winner[GroupOf(plan.inputs[i][k])] # NoWinner
<1>1. PICK g : g = GroupOf(i)
  OBVIOUS
<1>2. g \in Groups
  BY <1>1 DEF MemoOK, Groups
<1>3. PICK e : e = winner[g].expr
  OBVIOUS
<1>4. /\ e \in DOMAIN exprs /\ exprs[e].physical /\ exprs[e].group = g
      /\ \A c \in Range(exprs[e].children) : winner[c] # NoWinner
  BY <1>1, <1>2, <1>3 DEF WinnerOK
<1>5. /\ exprs[e].node \in Nodes /\ exprs[e].physical \in BOOLEAN
      /\ exprs[e] = MemoExpr(exprs[e].node, exprs[e].physical)
      /\ exprs[e].group = GroupOf(exprs[e].node)
  BY <1>4, ExprFacts DEF MemoOK
<1>6. \A j, k \in Nodes : GroupOf(j) = GroupOf(k) => j = k
  BY PlanFacts DEF GroupOf
<1>7. exprs[e].node = i
  BY <1>1, <1>4, <1>5, <1>6
<1>8. exprs[e] = MemoExpr(i, TRUE)
  <2>1. exprs[e].physical = TRUE
    BY <1>4, <1>5, Zenon
  <2> QED
    BY <1>5, <1>7, <2>1
<1>9. exprs[e].children = [k \in DOMAIN plan.inputs[i] |-> GroupOf(plan.inputs[i][k])]
  BY <1>8 DEF MemoExpr
<1>10. ASSUME NEW k \in DOMAIN plan.inputs[i]
       PROVE  /\ plan.inputs[i][k] \in Nodes /\ plan.inputs[i][k] < i
              /\ winner[GroupOf(plan.inputs[i][k])] # NoWinner
  <2>1. GroupOf(plan.inputs[i][k]) \in Range(exprs[e].children)
    BY <1>9 DEF Range
  <2>2. plan.inputs[i][k] \in Nodes /\ plan.inputs[i][k] < i
    BY InputFacts
  <2> QED
    BY <1>4, <2>1, <2>2
<1> QED
  BY <1>1, <1>2, <1>3, <1>8, <1>10 DEF Chosen

\* getBestGroupBind finds a winner in every group it reaches from one that has
\* a winner.
LEMMA BindReaches ==
  ASSUME plan \in Plans, MemoOK, \A g \in Groups : WinnerOK(g),
         winner[GroupOf(Len(plan.kind))] # NoWinner
  PROVE  CanBind
<1> DEFINE n == Len(plan.kind)
           OkEq(f) == f = [g \in Groups |-> /\ winner[g] # NoWinner
                                            /\ \A c \in Range(Chosen(g).children) : f[c]]
           ok == CHOOSE f : OkEq(f)
<1>1. CanBind = ok[GroupOf(n)]
  BY DEF CanBind
<1>2. n \in Nodes /\ Nodes \subseteq Nat /\ \A i \in Nodes : GroupOf(i) \in Groups
  BY PlanFacts DEF MemoOK, Groups
<1> HIDE DEF n
<1>3. \A g \in Groups : winner[g] # NoWinner =>
        \A c \in Range(Chosen(g).children) : c \in Groups /\ winner[c] # NoWinner
  <2> SUFFICES ASSUME NEW g \in Groups, winner[g] # NoWinner,
                      NEW c \in Range(Chosen(g).children)
               PROVE  c \in Groups /\ winner[c] # NoWinner
    OBVIOUS
  <2>1. PICK i \in Nodes : g = GroupOf(i)
    BY DEF MemoOK, Groups
  <2>2. /\ Chosen(g) = MemoExpr(i, TRUE)
        /\ \A k \in DOMAIN plan.inputs[i] :
             plan.inputs[i][k] \in Nodes /\ winner[GroupOf(plan.inputs[i][k])] # NoWinner
    BY <2>1, ChosenFacts
  <2>3. PICK k \in DOMAIN plan.inputs[i] : c = GroupOf(plan.inputs[i][k])
    BY <2>2 DEF MemoExpr, Range
  <2> QED
    BY <1>2, <2>2, <2>3
<1>4. OkEq([g \in Groups |-> winner[g] # NoWinner])
  <2> DEFINE f == [g \in Groups |-> winner[g] # NoWinner]
             P(g) == /\ winner[g] # NoWinner
                     /\ \A c \in Range(Chosen(g).children) : f[c]
  <2>1. ASSUME NEW g \in Groups PROVE (winner[g] # NoWinner) = P(g)
    <3>1. CASE winner[g] # NoWinner
      <4>1. \A c \in Range(Chosen(g).children) : f[c]
        BY <1>3, <3>1
      <4> QED
        BY <3>1, <4>1, Zenon
    <3>2. CASE winner[g] = NoWinner
      BY <3>2, Zenon
    <3> QED
      BY <3>1, <3>2
  <2>2. f = [g \in Groups |-> P(g)]
    <3> HIDE DEF P
    <3> QED
      BY <2>1, Zenon
  <2> QED
    BY <2>2, Zenon
<1>5. OkEq(ok)
  <2> HIDE DEF OkEq
  <2> QED
    BY <1>4
<1> HIDE DEF ok
<1>6. \A g \in Groups : winner[g] # NoWinner /\ (\A c \in Range(Chosen(g).children) : ok[c]) => ok[g]
  BY <1>5, Zenon
<1> DEFINE T == {i \in Nodes : winner[GroupOf(i)] # NoWinner /\ ~ok[GroupOf(i)]}
<1>7. T = {}
  <2> SUFFICES ASSUME T # {} PROVE FALSE
    OBVIOUS
  <2>1. PICK m \in T : \A k \in T : m <= k
    BY <1>2, LeastNumber
  <2>2. m \in Nodes /\ winner[GroupOf(m)] # NoWinner /\ ~ok[GroupOf(m)]
    BY <2>1
  <2>3. /\ Chosen(GroupOf(m)) = MemoExpr(m, TRUE)
        /\ \A k \in DOMAIN plan.inputs[m] :
             /\ plan.inputs[m][k] \in Nodes /\ plan.inputs[m][k] < m
             /\ winner[GroupOf(plan.inputs[m][k])] # NoWinner
    BY <2>2, ChosenFacts
  <2>4. ASSUME NEW c \in Range(Chosen(GroupOf(m)).children) PROVE ok[c]
    <3>1. PICK k \in DOMAIN plan.inputs[m] : c = GroupOf(plan.inputs[m][k])
      BY <2>3 DEF MemoExpr, Range
    <3>2. PICK j : j = plan.inputs[m][k]
      OBVIOUS
    <3>3. j \in Nodes /\ j < m /\ winner[GroupOf(j)] # NoWinner /\ c = GroupOf(j)
      BY <2>3, <3>1, <3>2
    <3>4. j \notin T
      BY <1>2, <2>1, <2>2, <3>3
    <3> QED
      BY <3>3, <3>4, Zenon
  <2> QED
    BY <1>2, <1>6, <2>2, <2>4, Zenon
<1>8. n \notin T
  BY <1>7
<1>9. ok[GroupOf(n)]
  BY <1>2, <1>8, Zenon DEF n
<1> QED
  BY <1>1, <1>9

\* f gives the nodes up to n their physical plans.
IsPhys(f, n) ==
  f = [i \in 1 .. n |->
         [node |-> i, physical |-> TRUE,
          inputs |-> [k \in DOMAIN plan.inputs[i] |-> f[plan.inputs[i][k]]]]]

\* Every node has a physical plan.
LEMMA PhysExists ==
  ASSUME plan \in Plans
  PROVE  \E f : IsPhys(f, Len(plan.kind))
<1> DEFINE L == Len(plan.kind)
           T == {n \in 0 .. L : ~ \E f : IsPhys(f, n)}
<1>1. L \in Nat /\ Nodes = 1 .. L
  BY PlanFacts
<1>2. \A i \in 1 .. L : \A k \in DOMAIN plan.inputs[i] :
        plan.inputs[i][k] \in 1 .. L /\ plan.inputs[i][k] < i
  BY <1>1, InputFacts
<1> HIDE DEF L
<1>3. T = {}
  <2> SUFFICES ASSUME T # {} PROVE FALSE
    OBVIOUS
  <2>1. T \in SUBSET Nat
    BY <1>1
  <2>2. PICK m \in T : \A k \in T : m <= k
    BY <2>1, LeastNumber
  <2>3. m \in 0 .. L /\ ~ \E f : IsPhys(f, m)
    BY <2>2
  <2>4. m # 0
    <3>1. ASSUME m = 0 PROVE IsPhys([i \in 1 .. 0 |-> 0], m)
      BY <3>1 DEF IsPhys
    <3> QED
      BY <2>3, <3>1
  <2>5. m - 1 \in 0 .. L /\ m \in Nat /\ ~(m <= m - 1) /\ m <= L
    BY <1>1, <2>3, <2>4
  <2>6. PICK f : IsPhys(f, m - 1)
    BY <2>2, <2>5
  <2> DEFINE Plan(i, h) ==
               [node |-> i, physical |-> TRUE,
                inputs |-> [k \in DOMAIN plan.inputs[i] |-> h[plan.inputs[i][k]]]]
             g == [i \in 1 .. m |-> Plan(i, f)]
  <2>7. \A i \in 1 .. m - 1 : f[i] = Plan(i, f)
    BY <2>6 DEF IsPhys
  <2>8. \A i \in 1 .. m - 1 : g[i] = f[i]
    <3> HIDE DEF Plan
    <3> QED
      BY <2>5, <2>7
  <2>9. ASSUME NEW i \in 1 .. m PROVE Plan(i, f) = Plan(i, g)
    <3>1. \A k \in DOMAIN plan.inputs[i] : plan.inputs[i][k] \in 1 .. m - 1
      BY <1>1, <1>2, <2>5
    <3>2. \A k \in DOMAIN plan.inputs[i] : f[plan.inputs[i][k]] = g[plan.inputs[i][k]]
      <4> HIDE DEF g
      <4> QED
        BY <2>8, <3>1
    <3> HIDE DEF g
    <3>3. [k \in DOMAIN plan.inputs[i] |-> f[plan.inputs[i][k]]]
            = [k \in DOMAIN plan.inputs[i] |-> g[plan.inputs[i][k]]]
      BY <3>2
    <3> QED
      BY <3>3, Zenon
  <2>10. g = [i \in 1 .. m |-> Plan(i, g)]
    <3>1. g = [i \in 1 .. m |-> Plan(i, f)]
      OBVIOUS
    <3> HIDE DEF g, Plan
    <3> QED
      BY <2>9, <3>1
  <2>11. IsPhys(g, m)
    <3> HIDE DEF g
    <3> QED
      BY <2>10, Zenon DEF IsPhys
  <2> QED
    BY <2>3, <2>11
<1>4. L \in 0 .. L
  BY <1>1
<1>5. \E f : IsPhys(f, L)
  BY <1>3, <1>4
<1> QED
  BY <1>5 DEF L

\* PhysicalPlan by its equation: some function gives every node its physical
\* plan, and PhysicalPlan is that of the last node.
LEMMA PhysFacts ==
  ASSUME plan \in Plans
  PROVE  \E f : IsPhys(f, Len(plan.kind)) /\ PhysicalPlan = f[Len(plan.kind)]
<1> DEFINE n == Len(plan.kind)
           PhysEq(f) == f = [i \in Nodes |->
                               [node |-> i, physical |-> TRUE,
                                inputs |-> [k \in DOMAIN plan.inputs[i] |-> f[plan.inputs[i][k]]]]]
           phys == CHOOSE f : PhysEq(f)
<1>1. PhysicalPlan = phys[n]
  BY DEF PhysicalPlan
<1>2. Nodes = 1 .. n
  BY PlanFacts
<1> HIDE DEF n
<1>3. \A f : PhysEq(f) <=> IsPhys(f, n)
  BY <1>2, Zenon DEF IsPhys
<1>4. \E f : IsPhys(f, n)
  BY PhysExists DEF n
<1> HIDE DEF PhysEq
<1>5. PhysEq(phys)
  BY <1>3, <1>4
<1> HIDE DEF phys
<1>6. IsPhys(phys, n) /\ PhysicalPlan = phys[n]
  BY <1>1, <1>3, <1>5
<1> QED
  BY <1>6 DEF n

\* What getBestGroupBind builds is the physical plan of the query.
LEMMA BindIsPhysical ==
  ASSUME plan \in Plans, MemoOK, \A g \in Groups : WinnerOK(g),
         winner[GroupOf(Len(plan.kind))] # NoWinner
  PROVE  BestGroupBind = PhysicalPlan
<1> DEFINE n == Len(plan.kind)
           W == {h \in Groups : winner[h] # NoWinner}
           Bound(g, f) == [node |-> Chosen(g).node, physical |-> Chosen(g).physical,
                           inputs |-> [k \in DOMAIN Chosen(g).children |-> f[Chosen(g).children[k]]]]
           BindEq(f) == f = [g \in W |-> Bound(g, f)]
           bind == CHOOSE f : BindEq(f)
<1>1. BestGroupBind = bind[GroupOf(n)]
  BY DEF BestGroupBind
<1>2. n \in Nodes /\ Nodes = 1 .. n /\ n \in Nat /\ Nodes \subseteq Nat
  BY PlanFacts
<1>3. PICK phys : IsPhys(phys, n) /\ PhysicalPlan = phys[n]
  BY PhysFacts
<1>4. winner[GroupOf(n)] # NoWinner
  OBVIOUS
<1> HIDE DEF n
<1>5. ASSUME NEW i \in Nodes
      PROVE  phys[i] = [node |-> i, physical |-> TRUE,
                        inputs |-> [k \in DOMAIN plan.inputs[i] |-> phys[plan.inputs[i][k]]]]
  BY <1>2, <1>3 DEF IsPhys
<1>6. ASSUME NEW i \in Nodes, winner[GroupOf(i)] # NoWinner
      PROVE  /\ GroupOf(i) \in W
             /\ Chosen(GroupOf(i)) = MemoExpr(i, TRUE)
             /\ \A k \in DOMAIN plan.inputs[i] :
                  /\ plan.inputs[i][k] \in Nodes /\ plan.inputs[i][k] < i
                  /\ winner[GroupOf(plan.inputs[i][k])] # NoWinner
  BY <1>6, ChosenFacts
<1>7. ASSUME NEW i \in Nodes, winner[GroupOf(i)] # NoWinner, NEW f,
             \A k \in DOMAIN plan.inputs[i] : f[GroupOf(plan.inputs[i][k])] = phys[plan.inputs[i][k]]
      PROVE  Bound(GroupOf(i), f) = phys[i]
  <2>1. PICK x : x = Chosen(GroupOf(i))
    OBVIOUS
  <2>2. /\ x.node = i /\ x.physical = TRUE
        /\ x.children = [k \in DOMAIN plan.inputs[i] |-> GroupOf(plan.inputs[i][k])]
    BY <1>6, <1>7, <2>1 DEF MemoExpr
  <2>3. [k \in DOMAIN x.children |-> f[x.children[k]]]
          = [k \in DOMAIN plan.inputs[i] |-> phys[plan.inputs[i][k]]]
    BY <1>7, <2>2
  <2>4. Bound(GroupOf(i), f) = [node |-> x.node, physical |-> x.physical,
                                inputs |-> [k \in DOMAIN x.children |-> f[x.children[k]]]]
    BY <2>1, Zenon
  <2> HIDE DEF Bound
  <2> QED
    BY <1>5, <2>2, <2>3, <2>4, Zenon
<1> HIDE DEF Bound
<1>8. ASSUME NEW g \in W PROVE \E i \in Nodes : g = GroupOf(i) /\ winner[GroupOf(i)] # NoWinner
  BY DEF MemoOK, Groups
<1> DEFINE f0 == [g \in W |-> phys[Chosen(g).node]]
<1>9. \A i \in Nodes : winner[GroupOf(i)] # NoWinner => f0[GroupOf(i)] = phys[i]
  <2> SUFFICES ASSUME NEW i \in Nodes, winner[GroupOf(i)] # NoWinner
               PROVE  f0[GroupOf(i)] = phys[i]
    OBVIOUS
  <2>1. Chosen(GroupOf(i)).node = i /\ GroupOf(i) \in W
    BY <1>6 DEF MemoExpr
  <2> HIDE DEF W
  <2> QED
    BY <2>1
<1>10. BindEq(f0)
  <2>1. ASSUME NEW g \in W PROVE f0[g] = Bound(g, f0)
    <3>1. PICK i \in Nodes : g = GroupOf(i) /\ winner[GroupOf(i)] # NoWinner
      BY <1>8
    <3>2. f0[g] = phys[i]
      BY <1>9, <3>1
    <3>3. \A k \in DOMAIN plan.inputs[i] : f0[GroupOf(plan.inputs[i][k])] = phys[plan.inputs[i][k]]
      <4> HIDE DEF f0
      <4> QED
        BY <1>6, <1>9, <3>1
    <3> HIDE DEF f0
    <3> QED
      BY <1>7, <3>1, <3>2, <3>3
  <2>2. f0 = [g \in W |-> f0[g]]
    <3> HIDE DEF W
    <3> QED
      OBVIOUS
  <2> HIDE DEF f0, W
  <2>3. f0 = [g \in W |-> Bound(g, f0)]
    BY <2>1, <2>2
  <2> QED
    BY <2>3
<1>11. BindEq(bind)
  <2> HIDE DEF BindEq, f0
  <2> QED
    BY <1>10
<1> HIDE DEF bind, f0
<1>12. \A g \in W : bind[g] = Bound(g, bind)
  <2> HIDE DEF W
  <2> QED
    BY <1>11
<1> DEFINE T == {i \in Nodes : winner[GroupOf(i)] # NoWinner /\ bind[GroupOf(i)] # phys[i]}
<1>13. T = {}
  <2> SUFFICES ASSUME T # {} PROVE FALSE
    OBVIOUS
  <2>1. PICK m \in T : \A k \in T : m <= k
    BY <1>2, LeastNumber
  <2>2. m \in Nodes /\ winner[GroupOf(m)] # NoWinner /\ bind[GroupOf(m)] # phys[m]
    BY <2>1
  <2>3. ASSUME NEW k \in DOMAIN plan.inputs[m]
        PROVE  bind[GroupOf(plan.inputs[m][k])] = phys[plan.inputs[m][k]]
    <3>1. PICK j : j = plan.inputs[m][k]
      OBVIOUS
    <3>2. j \in Nodes /\ j < m /\ winner[GroupOf(j)] # NoWinner
      BY <1>6, <2>2, <3>1
    <3>3. j \notin T
      BY <1>2, <2>1, <2>2, <3>2
    <3> QED
      BY <3>1, <3>2, <3>3
  <2>4. Bound(GroupOf(m), bind) = phys[m] /\ GroupOf(m) \in W
    BY <1>6, <1>7, <2>2, <2>3
  <2> HIDE DEF W
  <2> QED
    BY <1>12, <2>2, <2>4
<1>14. bind[GroupOf(n)] = phys[n]
  BY <1>2, <1>4, <1>13
<1> QED
  BY <1>1, <1>3, <1>14

\* FindBestExp comes back with the physical plan of the query.
LEMMA GetBestPlanStep ==
  ASSUME CascadesInv, GetBestPlan
  PROVE  CascadesInv'
<1>1. /\ plan \in Plans /\ phase = "search" /\ tasks = <<>>
      /\ SearchInv /\ MemoOK /\ \A g \in Groups : WinnerOK(g)
  BY DEF CascadesInv, GetBestPlan, SearchInv
<1>2. winner[GroupOf(Len(plan.kind))] # NoWinner
  <2>1. DOMAIN tasks = {}
    BY <1>1
  <2>2. Owed(0, GroupOf(Len(plan.kind)))
    BY <1>1 DEF SearchInv, StackOK
  <2> QED
    BY <2>1, <2>2 DEF Owed
<1>3. CanBind /\ BestGroupBind = PhysicalPlan
  BY <1>1, <1>2, BindReaches, BindIsPhysical
<1>4. /\ best' = PhysicalPlan /\ phase' = "done"
      /\ UNCHANGED <<plan, exprs, winner, counter, tasks, fired, explored>>
  BY <1>3 DEF GetBestPlan
<1>5. SearchInv'
  BY <1>1, <1>4 DEF SearchInv, MemoOK, MemoExpr, HasPhysical, WinnerOK, Groups, Nodes, StackOK,
     TaskOK, Matches, Kind, Waits, Owed, Promises, Awaited
<1>6. PhysicalPlan' = PhysicalPlan
  BY <1>4 DEF PhysicalPlan, Nodes
<1> QED
  BY <1>1, <1>4, <1>5, <1>6 DEF CascadesInv

-----------------------------------------------------------------------------
(* The theorems *)

\* The memo starts empty.
LEMMA CascadesInitInv == Init => CascadesInv
BY DEF Init, CascadesInv

\* Every task, and FindBestExp around them, keep the invariant.
LEMMA CascadesNextInv ==
  ASSUME CascadesInv, [Next]_vars
  PROVE  CascadesInv'
<1>1. CASE Start
  BY <1>1, StartStep
<1>2. CASE OptimizeGroup
  BY <1>2, OptimizeGroupStep
<1>3. CASE OptimizeExpr
  BY <1>3, OptimizeExprStep
<1>4. CASE ExploreGroup
  BY <1>4, ExploreGroupStep
<1>5. CASE ApplyRule
  BY <1>5, ApplyRuleStep
<1>6. CASE OptimizeInputs
  BY <1>6, OptimizeInputsStep
<1>7. CASE ContinueInputs
  BY <1>7, ContinueInputsStep
<1>8. CASE ChooseWinner
  BY <1>8, ChooseWinnerStep
<1>9. CASE GetBestPlan
  BY <1>9, GetBestPlanStep
<1>10. CASE UNCHANGED vars
  <2>1. UNCHANGED <<plan, exprs, winner, counter, tasks, fired, explored, phase, best>>
    BY <1>10 DEF vars
  <2>2. SearchInv' <=> SearchInv
    BY <2>1 DEF SearchInv, MemoOK, MemoExpr, HasPhysical, WinnerOK, Groups, Nodes, StackOK,
       TaskOK, Matches, Kind, Waits, Owed, Promises, Awaited
  <2>3. PhysicalPlan' = PhysicalPlan
    BY <2>1 DEF PhysicalPlan, Nodes
  <2> QED
    BY <2>1, <2>2, <2>3 DEF CascadesInv
<1> QED
  BY <1>1, <1>2, <1>3, <1>4, <1>5, <1>6, <1>7, <1>8, <1>9, <1>10 DEF Next

\* The invariant holds in every state of a search.
LEMMA CascadesInvariant == Spec => []CascadesInv
BY CascadesInitInv, CascadesNextInv, PTL DEF Spec

\* For every logical plan: expressions and groups never share a number, tasks on
\* the stack of fireOptimizeTask name expressions and groups of the memo, and no
\* OptimizeInputsTask looks past the inputs of its expression.
THEOREM SearchIsTyped == Spec => []CascadesTypeOK
<1>1. CascadesInv => CascadesTypeOK
  <2> SUFFICES ASSUME CascadesInv PROVE CascadesTypeOK
    OBVIOUS
  <2>1. CASE phase = "start"
    <3>1. exprs = <<>> /\ winner = <<>> /\ counter = 0 /\ tasks = <<>> /\ explored = {}
      BY <2>1 DEF CascadesInv
    <3>2. DOMAIN exprs = {} /\ Groups = {} /\ Range(tasks) = {}
      BY <3>1 DEF Groups, Range
    <3> QED
      BY <2>1, <3>1, <3>2 DEF CascadesTypeOK
  <2>2. CASE phase # "start"
    <3>1. plan \in Plans /\ phase \in {"search", "done"} /\ SearchInv /\ MemoOK
      BY <2>2 DEF CascadesInv, SearchInv
    <3>2. ASSUME NEW e \in DOMAIN exprs
          PROVE  /\ exprs[e].node \in Nodes /\ exprs[e].group \in Groups
                 /\ Range(exprs[e].children) \subseteq Groups
      <4>1. PICK ch : ch = exprs[e].children
        OBVIOUS
      <4>2. /\ exprs[e].node \in Nodes /\ exprs[e].group \in Groups
            /\ DOMAIN ch = 1 .. Len(ch) /\ \A k \in 1 .. Len(ch) : ch[k] \in Groups
        BY <3>1, <4>1, ExprFacts
      <4>3. Range(ch) \subseteq Groups
        BY <4>2 DEF Range
      <4> QED
        BY <4>1, <4>2, <4>3
    <3>3. ASSUME NEW t, TaskOK(t) PROVE t \in TaskType
      BY <3>3 DEF TaskOK, TaskType
    <3>4. Range(tasks) \subseteq TaskType
      BY <3>1, <3>3 DEF SearchInv, StackOK, Range
    <3>5. \A g \in Groups : winner[g] = NoWinner \/ winner[g].expr \in DOMAIN exprs
      BY <3>1 DEF SearchInv, WinnerOK
    <3> QED
      BY <3>1, <3>2, <3>4, <3>5 DEF CascadesTypeOK, SearchInv, MemoOK
  <2> QED
    BY <2>1, <2>2
<1> QED
  BY <1>1, CascadesInvariant, PTL

\* For every logical plan: OptimizeInputsTask gives a group a winner only when
\* the groups its winner reads from have theirs, and the winner is a physical
\* operator of its own group.
THEOREM WinnersComeAfterTheirInputs == Spec => []WinnersAreComplete
<1>1. CascadesInv => WinnersAreComplete
  BY DEF CascadesInv, SearchInv, WinnerOK, WinnersAreComplete, Chosen, Groups
<1> QED
  BY <1>1, CascadesInvariant, PTL

\* For every logical plan: FindBestExp never follows a missing winner, and the
\* plan it returns is the query's, each operator replaced by its physical one.
THEOREM SearchKeepsTheQuery == Spec => []BestPlanIsTheQuery
<1>1. CascadesInv => BestPlanIsTheQuery
  BY DEF CascadesInv, BestPlanIsTheQuery, Undefined
<1> QED
  BY <1>1, CascadesInvariant, PTL

=============================================================================
