------------------------------ MODULE Cascades ------------------------------
(***************************************************************************)
(* The search for the physical plan of a SELECT: sql/optimizer/cascades    *)
(* with the rules of sql/optimizer/rules.                                  *)
(*                                                                         *)
(* A logical plan is a tree whose nodes are numbered in post-order:        *)
(* plan.kind[i] is the kind of node i and plan.inputs[i] lists its inputs. *)
(*                                                                         *)
(* exprs     the memo's expressions by ExprId: the plan node the operator  *)
(*           carries the data of, whether it is physical, the groups of    *)
(*           its inputs, and the group it is in                            *)
(* winner    groups_[g].info.winner of every group, [expr, cost] or        *)
(*           NoWinner (no code sets "impossible")                          *)
(* counter   group_expr_counter_, shared by expressions and groups         *)
(* tasks     the stack tasks_, its top last                                *)
(* fired     fired_rules_, as pairs of an expression and a rule            *)
(* explored  explored_group_                                               *)
(* phase     where FindBestExp is; Undefined when it has dereferenced a    *)
(*           winner that is not there                                      *)
(* best      the plan FindBestExp returns, as a tree of records            *)
(*                                                                         *)
(* disable_rules_ is never filled, so IsRuleDisabled is left out.          *)
(***************************************************************************)
EXTENDS Naturals, Sequences, FiniteSets, SequencesExt

CONSTANT Plans    \* the logical plans to optimise

VARIABLES plan, exprs, winner, counter, tasks, fired, explored, phase, best

vars == <<plan, exprs, winner, counter, tasks, fired, explored, phase, best>>

Undefined == "Undefined"
NoWinner == [expr |-> 0, cost |-> 0]
NoPlan == <<>>

\* The kinds of node the rules match, in the order of InitCascadesRules.
Rules == <<"ResultSet", "Filter", "TableScan">>

ASSUME PlansAssumption ==
  \A p \in Plans :
    LET n == Len(p.kind)
    IN  /\ p.kind \in Seq(Range(Rules)) /\ n > 0
        /\ p.inputs \in [1 .. n -> Seq(Nat)]
        /\ \A i \in 1 .. n : p.inputs[i] \in Seq(1 .. i - 1)

Nodes == DOMAIN plan.kind
Groups == DOMAIN winner

-----------------------------------------------------------------------------
(* The memo *)

\* Memo::InitMemo: inputs first, then one number for the expression and the
\* next one for its group.
ExprOf(i) == 2 * i - 1

\* Mutant: groups are counted apart from expressions.
GroupOfOwnCounter(i) == i

GroupOf(i) == 2 * i

InitExprs(p) ==
  [e \in {ExprOf(i) : i \in DOMAIN p.kind} |->
     LET i == (e + 1) \div 2
     IN  [node |-> i, physical |-> FALSE, group |-> GroupOf(i),
          children |-> [k \in DOMAIN p.inputs[i] |-> GroupOf(p.inputs[i][k])]]]

Kind(e) == plan.kind[exprs[e].node]

\* Memo::GetGroupId; merged_groups_ is never filled.
GetGroupId(e) == exprs[e].group

\* The elements of a set of numbers in their order.
Ascending(S) ==
  CHOOSE s \in [1 .. Cardinality(S) -> S] : \A i, j \in DOMAIN s : i < j => s[i] < s[j]

\* Memo::GetAllExprsInGroup, sorted.
GetAllExprsInGroup(g, physical) ==
  Ascending({e \in DOMAIN exprs : GetGroupId(e) = g /\ exprs[e].physical = physical})

\* Apply of the rules: the physical operator takes over the data of the node.
Apply(x) == [x EXCEPT !.physical = TRUE]

\* Mutant: the placeholders of the inputs are not handed on.
AddGroupExprNoInputs(e) ==
  [x \in DOMAIN exprs \cup {counter + 1} |->
     IF x = counter + 1 THEN [Apply(exprs[e]) EXCEPT !.children = <<>>] ELSE exprs[x]]

\* Memo::AddNewGroupExpr: the placeholders of the binding name the groups.
AddGroupExpr(e) ==
  [x \in DOMAIN exprs \cup {counter + 1} |-> IF x = counter + 1 THEN Apply(exprs[e]) ELSE exprs[x]]

-----------------------------------------------------------------------------
(* Tasks *)

OptimizeGroupTask(g) == [type |-> "OptimizeGroup", group |-> g]
ExploreGroupTask(g) == [type |-> "ExploreGroup", group |-> g]
OptimizeExprTask(e, exploring) == [type |-> "OptimizeExpr", expr |-> e, exploring |-> exploring]
ApplyRuleTask(r, e) == [type |-> "ApplyRule", rule |-> r, expr |-> e]

\* OptimizeInputsTask without and with a ContinueTask.
OptimizeInputsTask(e) == [type |-> "OptimizeInputs", expr |-> e]
ContinueInputsTask(e, next, cost, returned) ==
  [type |-> "ContinueInputs", expr |-> e, next |-> next, cost |-> cost, returned |-> returned]

\* fireOptimizeTask: the tasks execute() has returned replace the one it ran.
Push(new) == tasks' = Front(tasks) \o new

Top(type) == phase = "search" /\ tasks # <<>> /\ Last(tasks).type = type

-----------------------------------------------------------------------------
(* execute() of each task *)

\* OptimizeGroupTask::execute.
OptimizeGroup ==
  /\ Top("OptimizeGroup")
  /\ LET g == Last(tasks).group
         L == GetAllExprsInGroup(g, FALSE)
         P == GetAllExprsInGroup(g, TRUE)
     IN  Push(IF winner[g] # NoWinner THEN <<>>
              ELSE [k \in DOMAIN L |-> OptimizeExprTask(L[k], FALSE)]
                   \o [k \in DOMAIN P |-> OptimizeInputsTask(P[k])])
  /\ UNCHANGED <<plan, exprs, winner, counter, fired, explored, phase, best>>

\* The node Matcher() of a rule picks: a logical one of the rule's kind, whatever
\* its inputs are (IgnoreMany).
Matches(r, e) == ~exprs[e].physical /\ Kind(e) = Rules[r]

\* TopMatches: the matcher of every rule there is names one logical type.
TopMatches(r, e) == Matches(r, e)

IsRuleFired(e, r) == <<e, r>> \in fired

MarkRuleFired(e, r) == fired' = fired \cup {<<e, r>>}

IsGroupExplored(g) == g \in explored

MarkGroupExplored(g) == explored' = explored \cup {g}

\* OptimizeExprTask::execute: while exploring it finds nothing to do.
OptimizeExpr ==
  /\ Top("OptimizeExpr")
  /\ LET t  == Last(tasks)
         ch == exprs[t.expr].children
         TasksOf(r) ==
           IF ~IsRuleFired(t.expr, r) /\ ~t.exploring /\ TopMatches(r, t.expr)
           THEN <<ApplyRuleTask(r, t.expr)>> \o [k \in DOMAIN ch |-> ExploreGroupTask(ch[k])]
           ELSE <<>>
     IN  Push(TasksOf(1) \o TasksOf(2) \o TasksOf(3))
  /\ UNCHANGED <<plan, exprs, winner, counter, fired, explored, phase, best>>

\* ExploreGroupTask::execute.
ExploreGroup ==
  /\ Top("ExploreGroup")
  /\ LET g == Last(tasks).group
         L == GetAllExprsInGroup(g, FALSE)
     IN  /\ Push(IF IsGroupExplored(g) THEN <<>>
                 ELSE [k \in DOMAIN L |-> OptimizeExprTask(L[k], TRUE)])
         /\ MarkGroupExplored(g)
  /\ UNCHANGED <<plan, exprs, winner, counter, fired, phase, best>>

\* MatchAndPickExpr: the matcher is MatchAndPickNode with IgnoreMany below it, so
\* there is one binding, the expression with placeholders for its groups, or none.
MatchAndPickExpr(r, e) == IF Matches(r, e) THEN {e} ELSE {}

\* ApplyRuleTask::execute: the physical operator joins the group of e.
ApplyRule ==
  /\ Top("ApplyRule")
  /\ LET t == Last(tasks)
     IN  /\ IF IsRuleFired(t.expr, t.rule) \/ MatchAndPickExpr(t.rule, t.expr) = {}
            THEN Push(<<>>) /\ UNCHANGED <<exprs, counter>>
            ELSE /\ exprs' = AddGroupExpr(t.expr)
                 /\ counter' = counter + 1
                 /\ Push(<<OptimizeInputsTask(counter + 1)>>)
         /\ MarkRuleFired(t.expr, t.rule)
  /\ UNCHANGED <<plan, winner, explored, phase, best>>

\* FirstInvoke: what the inputs cost, zero for one without a winner yet.
InputCost(e) ==
  LET ch == exprs[e].children IN [k \in DOMAIN ch |-> winner[ch[k]].cost]

\* OptimizeInputsTask::execute, the first time.
OptimizeInputs ==
  /\ Top("OptimizeInputs")
  /\ LET e == Last(tasks).expr
     IN  Push(<<ContinueInputsTask(e, 1, InputCost(e), FALSE)>>)
  /\ UNCHANGED <<plan, exprs, winner, counter, fired, explored, phase, best>>

\* Mutant: the two tasks are pushed in the other order.
InputTasksSwapped(t) ==
  LET g == exprs[t.expr].children[t.next]
  IN  IF winner[g] = NoWinner /\ ~t.returned
      THEN <<OptimizeGroupTask(g), ContinueInputsTask(t.expr, t.next, t.cost, TRUE)>>
      ELSE <<ContinueInputsTask(t.expr, t.next + 1, t.cost, FALSE)>>

\* Mutant: the task goes on at the same input.
InputTasksStuck(t) ==
  LET g == exprs[t.expr].children[t.next]
  IN  IF winner[g] = NoWinner /\ ~t.returned
      THEN <<ContinueInputsTask(t.expr, t.next, t.cost, TRUE), OptimizeGroupTask(g)>>
      ELSE <<ContinueInputsTask(t.expr, t.next, t.cost, FALSE)>>

\* What OptimizeInputsTask returns at input t.next: the input's group is
\* optimised first, once; then the next input is looked at.
InputTasks(t) ==
  LET g == exprs[t.expr].children[t.next]
  IN  IF winner[g] = NoWinner /\ ~t.returned
      THEN <<ContinueInputsTask(t.expr, t.next, t.cost, TRUE), OptimizeGroupTask(g)>>
      ELSE <<ContinueInputsTask(t.expr, t.next + 1, t.cost, FALSE)>>

ContinueInputs ==
  /\ Top("ContinueInputs")
  /\ LET t == Last(tasks)
     IN  /\ t.next <= Len(exprs[t.expr].children)
         /\ Push(InputTasks(t))
  /\ UNCHANGED <<plan, exprs, winner, counter, fired, explored, phase, best>>

\* CostModel::Sum from zero.
CostSum(costs) ==
  LET sum[k \in 0 .. Len(costs)] == IF k = 0 THEN 0 ELSE sum[k - 1] + costs[k]
  IN  sum[Len(costs)]

\* Memo::UpdateGroupInfo; a winner already there is replaced.
UpdateGroupInfo(g, w) == winner' = [winner EXCEPT ![g] = w]

\* IsUpdateWinner.
IsUpdateWinner(cost, g) == winner[g] = NoWinner \/ winner[g].cost > cost

\* OptimizeInputsTask::execute past the last input; the operator's own cost is
\* commented out in the code.
ChooseWinner ==
  /\ Top("ContinueInputs")
  /\ LET t    == Last(tasks)
         g    == GetGroupId(t.expr)
         cost == CostSum(t.cost)
     IN  /\ t.next > Len(exprs[t.expr].children)
         /\ IF IsUpdateWinner(cost, g)
            THEN UpdateGroupInfo(g, [expr |-> t.expr, cost |-> cost])
            ELSE UNCHANGED winner
         /\ Push(<<>>)
  /\ UNCHANGED <<plan, exprs, counter, fired, explored, phase, best>>

-----------------------------------------------------------------------------
(* FindBestExp *)

Init ==
  /\ plan \in Plans
  /\ exprs = <<>> /\ winner = <<>> /\ counter = 0
  /\ tasks = <<>> /\ fired = {} /\ explored = {}
  /\ phase = "start"
  /\ best = NoPlan

Start ==
  /\ phase = "start"
  /\ exprs' = InitExprs(plan)
  /\ winner' = [g \in {GroupOf(i) : i \in Nodes} |-> NoWinner]
  /\ counter' = 2 * Len(plan.kind)
  /\ tasks' = <<OptimizeGroupTask(GroupOf(Len(plan.kind)))>>
  /\ phase' = "search"
  /\ UNCHANGED <<plan, fired, explored, best>>

Chosen(g) == exprs[winner[g].expr]

\* Memo::getBestGroupBind reaches no group without a winner.
CanBind ==
  LET ok[g \in Groups] == /\ winner[g] # NoWinner
                          /\ \A c \in Range(Chosen(g).children) : ok[c]
  IN  ok[GroupOf(Len(plan.kind))]

\* Memo::getBestGroupBind: every winner gets the winners of its groups as
\* inputs, in place of the placeholders.
BestGroupBind ==
  LET bind[g \in {h \in Groups : winner[h] # NoWinner}] ==
        LET x == Chosen(g)
        IN  [node |-> x.node, physical |-> x.physical,
             inputs |-> [k \in DOMAIN x.children |-> bind[x.children[k]]]]
  IN  bind[GroupOf(Len(plan.kind))]

GetBestPlan ==
  /\ phase = "search" /\ tasks = <<>>
  /\ IF CanBind
     THEN best' = BestGroupBind /\ phase' = "done"
     ELSE phase' = Undefined /\ UNCHANGED best
  /\ UNCHANGED <<plan, exprs, winner, counter, tasks, fired, explored>>

Next ==
  \/ Start
  \/ OptimizeGroup
  \/ OptimizeExpr
  \/ ExploreGroup
  \/ ApplyRule
  \/ OptimizeInputs
  \/ ContinueInputs
  \/ ChooseWinner
  \/ GetBestPlan

\* FindBestExp is one call of one thread, which goes on until it returns.
Spec == Init /\ [][Next]_vars /\ WF_vars(Next)

-----------------------------------------------------------------------------
(* Properties *)

TaskType ==
  [type : {"OptimizeGroup", "ExploreGroup"}, group : Groups]
  \cup [type : {"OptimizeExpr"}, expr : DOMAIN exprs, exploring : BOOLEAN]
  \cup [type : {"ApplyRule"}, rule : DOMAIN Rules, expr : DOMAIN exprs]
  \cup [type : {"OptimizeInputs"}, expr : DOMAIN exprs]
  \cup {t \in [type : {"ContinueInputs"}, expr : DOMAIN exprs, next : Nat \ {0},
               cost : Seq({0}), returned : BOOLEAN] :
          t.next <= Len(exprs[t.expr].children) + 1}

\* Type invariant: expressions and groups never share a number (they come from
\* one counter), tasks name existing ones, and a task never looks past the
\* inputs of its expression.
CascadesTypeOK ==
  /\ DOMAIN exprs \cup Groups = 1 .. counter
  /\ DOMAIN exprs \cap Groups = {}
  /\ \A e \in DOMAIN exprs : /\ exprs[e].node \in Nodes
                             /\ exprs[e].group \in Groups
                             /\ Range(exprs[e].children) \subseteq Groups
  /\ \A g \in Groups : winner[g] = NoWinner \/ winner[g].expr \in DOMAIN exprs
  /\ Range(tasks) \subseteq TaskType
  /\ explored \subseteq Groups
  /\ phase \in {"start", "search", "done", Undefined}

\* A group gets a winner only after the groups its winner reads from have
\* theirs, although OptimizeInputsTask goes on after one try even when the
\* input's group came back without a winner: the stack must run everything
\* below OptimizeGroupTask(g) before the task that waits for it, and a winner
\* is a physical operator of its own group.
WinnersAreComplete ==
  \A g \in Groups : winner[g] # NoWinner =>
    /\ Chosen(g).physical
    /\ Chosen(g).group = g
    /\ \A c \in Range(Chosen(g).children) : winner[c] # NoWinner

PhysicalPlan ==
  LET phys[i \in Nodes] ==
        [node |-> i, physical |-> TRUE,
         inputs |-> [k \in DOMAIN plan.inputs[i] |-> phys[plan.inputs[i][k]]]]
  IN  phys[Len(plan.kind)]

\* FindBestExp never dereferences a missing winner, and the plan it returns is
\* the logical plan with each operator replaced by its physical one: no
\* operator lost, doubled, or with the inputs of another.
BestPlanIsTheQuery ==
  /\ phase # Undefined
  /\ phase = "done" => best = PhysicalPlan

\* The search comes to an end: fireOptimizeTask empties its stack although
\* most tasks push others.
SearchEnds == <>(phase = "done")

=============================================================================
