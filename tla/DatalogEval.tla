----------------------------- MODULE DatalogEval -----------------------------
(***************************************************************************)
(* The stratified bottom-up evaluator of internal/datalog: load-time       *)
(* stratification, and Query over a whole relation by strongly connected   *)
(* components with semi-naive deltas.                                      *)
(*                                                                         *)
(* A rule is given by its ground instances: binding variables, constants   *)
(* and the comparison builtins decide which instances there are, and are   *)
(* left out.  What is kept is the control: which relation each body        *)
(* position reads in which round, what is final when a negated or an       *)
(* aggregated literal reads it, and when the rounds stop.  Rules and heads *)
(* are taken in any order; the code takes them in file or name order.      *)
(***************************************************************************)
EXTENDS Integers, FiniteSets, Sequences

CONSTANTS
  Rel,        \* relation names
  Atom,       \* ground atoms
  RelOf,      \* the relation of each atom
  Fact,       \* atoms a batch may assert
  Rule,       \* rules a rule file may hold
  Clauses,    \* the parsed rules, see RuleShape
  Programs,   \* the sets of rules that are loaded
  MaxTuples,  \* Options.MaxTuples
  MaxRounds,  \* Options.MaxRounds
  None        \* no rule name, no goal

Agg == {"none", "min", "max", "count"}

Least(S) == CHOOSE n \in S : \A m \in S : n <= m

Greatest(S) == CHOOSE n \in S : \A m \in S : n >= m

Reduce(fn, S) ==
  CASE fn = "min" -> Least(S)
    [] fn = "max" -> Greatest(S)
    [] fn = "count" -> Cardinality(S)

(* The text of a rule: its name (rule file and head relation), the head
   relation, the aggregate, the body literals, and the ground instances.  An
   instance has one atom per body position and the head atom; for an aggregate
   rule, the group (the head without the aggregated column), the input value
   and the head atom for each result. *)
RuleShape(t) ==
  /\ t.head \in Rel /\ t.agg \in Agg /\ t.name # None
  /\ t.body \in Seq([rel : Rel, neg : BOOLEAN])
  /\ \A i \in t.insts :
       /\ \A k \in DOMAIN t.body :
            i.at[k] \in Atom /\ RelOf[i.at[k]] = t.body[k].rel
       /\ i.in \in DOMAIN i.out
       /\ \A n \in DOMAIN i.out : i.out[n] \in Atom /\ RelOf[i.out[n]] = t.head
       /\ t.agg # "none" => \A S \in SUBSET t.insts : i \in S =>
            Reduce(t.agg, {j.in : j \in {x \in S : x.group = i.group}}) \in DOMAIN i.out

(* The parsed rules under the name the rest of the module uses: TLC evaluates a
   definition of constants once, and a constant at every use. *)
Text == Clauses

ASSUME DatalogAssumption ==
  /\ RelOf \in [Atom -> Rel] /\ Fact \subseteq Atom
  /\ \A r \in Rule : RuleShape(Text[r])
  /\ Programs \subseteq SUBSET Rule /\ \A P \in Programs : IsFiniteSet(P)
  /\ MaxTuples \in Nat /\ MaxRounds \in Nat
  /\ None \notin Rel

VARIABLES
  rules,      \* Engine.ruleOrder
  strata,     \* the strata being assigned, Engine.strata once settled
  reads,      \* reads still to be relaxed in this round of stratify
  changed,    \* stratify: this round changed a stratum
  round,      \* round of stratify, then of evalComponent
  phase,      \* where Compile or Eval is
  base,       \* asserted facts
  full,       \* tuples of the derived relations' all-free tables
  final,      \* derived relations whose table is tableComplete
  goal,       \* the relation Query is computing
  cone,       \* components of the goal's cone not evaluated yet
  comp,       \* the component being evaluated
  todo,       \* <<rule, delta position>> still to be evaluated in this round
  marked,     \* tuples known when the current round began
  delta,      \* tuples the previous round added
  fastRule,   \* Engine.fastRule
  ambiguous,  \* Engine.fastRuleAmbiguous
  answered    \* goals answered so far

loadVars == <<rules, strata, reads, changed>>
ruleOfVars == <<fastRule, ambiguous>>
evalVars == <<comp, todo, marked, delta>>
vars == <<loadVars, round, phase, base, full, final, goal, cone, evalVars,
          ruleOfVars, answered>>

-----------------------------------------------------------------------------
(* Stratification *)

Derived == {Text[r].head : r \in rules}

(* What the heads read: <<head, relation read, strict>>.  A negated literal
   and every literal of an aggregate rule is a strict read. *)
Deps ==
  UNION {{<<Text[r].head, Text[r].body[k].rel,
            Text[r].body[k].neg \/ Text[r].agg # "none">> :
            k \in {k \in DOMAIN Text[r].body : Text[r].body[k].rel \in Derived}} :
           r \in rules}

(* Mutant: a strict read asks no more than a positive one. *)
Want_Weak(d) == strata[d[2]]

(* The stratum a read asks of its head. *)
Want(d) == strata[d[2]] + IF d[3] THEN 1 ELSE 0

(* Compile parses the rule file and starts stratify. *)
Init ==
  /\ rules \in Programs
  /\ strata = [h \in Derived |-> 0]
  /\ reads = Deps
  /\ changed = FALSE /\ round = 0 /\ phase = "stratify"
  /\ base = {} /\ full = {} /\ final = {} /\ goal = None /\ cone = {}
  /\ comp = {} /\ todo = {} /\ marked = {} /\ delta = {}
  /\ fastRule = [a \in Atom |-> None] /\ ambiguous = {} /\ answered = {}

Relax(d) ==
  /\ phase = "stratify" /\ d \in reads
  /\ reads' = reads \ {d}
  /\ IF Want(d) > strata[d[1]]
     THEN strata' = [strata EXCEPT ![d[1]] = Want(d)] /\ changed' = TRUE
     ELSE UNCHANGED <<strata, changed>>
  /\ UNCHANGED <<rules, round, phase, base, full, final, goal, cone, evalVars,
                 ruleOfVars, answered>>

(* A round that changed nothing settles the strata; len(heads) + 1 rounds that
   all changed something reject the program. *)
EndStratifyRound ==
  /\ phase = "stratify" /\ reads = {}
  /\ IF ~changed
     THEN phase' = "compiled" /\ round' = 0 /\ UNCHANGED <<reads, changed>>
     ELSE IF round = Cardinality(Derived)
     THEN phase' = "rejected" /\ UNCHANGED <<reads, changed, round>>
     ELSE /\ reads' = Deps /\ changed' = FALSE /\ round' = round + 1
          /\ UNCHANGED phase
  /\ UNCHANGED <<rules, strata, base, full, final, goal, cone, evalVars,
                 ruleOfVars, answered>>

-----------------------------------------------------------------------------
(* Eval: Assert the facts, then Query each goal *)

(* Eval asserts the facts of one batch; a relation may be both asserted and
   derived. *)
Assert(facts) ==
  /\ phase = "compiled"
  /\ base' = facts
  /\ phase' = IF \E r \in Rel :
                   Cardinality({a \in facts : RelOf[a] = r}) > MaxTuples
              THEN "failed" ELSE "ready"
  /\ UNCHANGED <<loadVars, round, full, final, goal, cone, evalVars,
                 ruleOfVars, answered>>

Edges == {<<d[1], d[2]>> : d \in Deps}

(* The pairs of derived relations of which the first reads the second through
   any number of rules. *)
Reaches ==
  LET D == Derived
      E == Edges
      closed == {T \in {E \cup X : X \in SUBSET ((D \X D) \ E)} :
                   \A p, q \in T : p[2] = q[1] => <<p[1], q[2]>> \in T}
  IN  {p \in D \X D : \A T \in closed : p \in T}

(* cone(goal): the derived relations the goal depends on, by strongly connected
   component. *)
Cone(g) ==
  LET R == Reaches
  IN  {{x} \cup {y \in Derived : <<x, y>> \in R /\ <<y, x>> \in R} :
         x \in {g} \cup {y \in Derived : <<g, y>> \in R}}

Query(g) ==
  /\ phase = "ready" /\ g \in Rel \ answered
  /\ IF g \in Derived
     THEN phase' = "cone" /\ goal' = g /\ cone' = Cone(g) /\ UNCHANGED answered
     ELSE answered' = answered \cup {g} /\ UNCHANGED <<phase, goal, cone>>
  /\ UNCHANGED <<loadVars, round, base, full, final, evalVars, ruleOfVars>>

-----------------------------------------------------------------------------
(* Evaluating one component *)

Of(S, r) == {a \in S : RelOf[a] = r}

(* The literal's relation: the table of a derived one, the asserted facts of
   any other. *)
Holds(a) == IF RelOf[a] \in Derived THEN a \in full ELSE a \in base

(* Mutant: only reads of the head's own relation are recursive. *)
RecPos_Self(r) ==
  {k \in DOMAIN Text[r].body : ~Text[r].body[k].neg /\ Text[r].body[k].rel = Text[r].head}

(* Body positions that read the component itself: the ones a round redirects to
   the delta. *)
RecPos(r) == {k \in DOMAIN Text[r].body : ~Text[r].body[k].neg /\ Text[r].body[k].rel \in comp}

Producing == {r \in rules : Text[r].head \in comp}

Recursive == \E r \in Producing : RecPos(r) # {}

(* Mutant: components are taken in any order. *)
Ready_Any(C) == TRUE

(* A component comes after every component it reads. *)
Ready(C) ==
  \A d \in Deps : d[1] \in C => \A D \in cone \ {C} : d[2] \notin D

(* Mutant: a reused component stays at the head of the list. *)
StartComponent_Again(C) ==
  /\ phase = "cone" /\ C \in cone /\ Ready(C)
  /\ IF C \subseteq final
     THEN UNCHANGED <<cone, phase, comp, full, todo, marked, delta, round>>
     ELSE /\ cone' = cone \ {C} /\ phase' = "rounds" /\ comp' = C /\ round' = 0
          /\ full' = full \cup {a \in base : RelOf[a] \in C}
          /\ todo' = {<<r, 0>> : r \in {q \in rules : Text[q].head \in C}}
          /\ marked' = {} /\ delta' = {}
  /\ UNCHANGED <<loadVars, base, final, goal, ruleOfVars, answered>>

(* A component an earlier query completed is reused; otherwise the asserted
   facts of its relations are recorded and round 0 evaluates every rule with
   every literal reading its whole relation (delta position 0). *)
StartComponent(C) ==
  /\ phase = "cone" /\ C \in cone /\ Ready(C)
  /\ cone' = cone \ {C}
  /\ IF C \subseteq final
     THEN UNCHANGED <<phase, comp, full, todo, marked, delta, round>>
     ELSE /\ phase' = "rounds" /\ comp' = C /\ round' = 0
          /\ full' = full \cup {a \in base : RelOf[a] \in C}
          /\ todo' = {<<r, 0>> : r \in {q \in rules : Text[q].head \in C}}
          /\ marked' = {} /\ delta' = {}
  /\ UNCHANGED <<loadVars, base, final, goal, ruleOfVars, answered>>

(* The substitutions join finds: position pos reads the delta, every other
   positive one the whole relation, a negated one must be absent. *)
Sat(r, pos) ==
  {i \in Text[r].insts :
     \A k \in DOMAIN Text[r].body :
       IF Text[r].body[k].neg THEN ~Holds(i.at[k])
       ELSE IF k = pos THEN i.at[k] \in delta
       ELSE Holds(i.at[k])}

(* The head atoms for a set of substitutions: one each, or one per group of an
   aggregate rule. *)
Emits(r, S) ==
  IF Text[r].agg = "none"
  THEN {i.out[i.in] : i \in S}
  ELSE {i.out[Reduce(Text[r].agg, {j.in : j \in {x \in S : x.group = i.group}})] : i \in S}

(* Mutant: the first rule's name is kept. *)
Record_First(name, heads) ==
  /\ full' = full \cup heads
  /\ fastRule' = [a \in Atom |->
       IF a \in heads /\ fastRule[a] = None THEN name ELSE fastRule[a]]
  /\ UNCHANGED ambiguous

(* record: new tuples enter the table, and the rule's name is noted for RuleOf;
   a second name makes the tuple ambiguous. *)
Record(name, heads) ==
  /\ full' = full \cup heads
  /\ ambiguous' = ambiguous \cup {a \in heads : fastRule[a] \notin {None, name}}
  /\ fastRule' = [a \in Atom |->
       IF a \notin heads \/ a \in ambiguous THEN fastRule[a]
       ELSE IF fastRule[a] \in {None, name} THEN name ELSE None]

EvalRule(w) ==
  /\ phase = "rounds" /\ w \in todo
  /\ \E heads \in {Emits(w[1], Sat(w[1], w[2]))} :
       /\ Record(Text[w[1]].name, heads)
       /\ IF /\ ~(heads \subseteq full)
             /\ Cardinality(Of(full \cup heads, Text[w[1]].head)) > MaxTuples
          THEN phase' = "failed" /\ UNCHANGED todo
          ELSE todo' = todo \ {w} /\ UNCHANGED phase
  /\ UNCHANGED <<loadVars, round, base, final, goal, cone, comp, marked, delta,
                 answered>>

Complete ==
  /\ final' = final \cup comp
  /\ comp' = {} /\ phase' = "cone"
  /\ UNCHANGED <<todo, marked, delta, round>>

(* The tuples the component gained since the mark. *)
Grown == {a \in full \ marked : RelOf[a] \in comp}

(* The tuples since the mark are the next round's delta, and the mark moves. *)
NextRound ==
  /\ delta' = Grown
  /\ marked' = full
  /\ todo' = UNION {{<<r, k>> : k \in RecPos(r)} : r \in Producing}
  /\ round' = round + 1
  /\ UNCHANGED <<final, comp, phase>>

(* The end of a round: done when the component is not recursive or nothing was
   added since the mark. *)
EndRound ==
  /\ phase = "rounds" /\ todo = {}
  /\ IF ~Recursive \/ Grown = {} THEN Complete
     ELSE IF round + 1 > MaxRounds
     THEN phase' = "failed" /\ UNCHANGED <<round, final, comp, todo, marked, delta>>
     ELSE NextRound
  /\ UNCHANGED <<loadVars, base, full, goal, cone, ruleOfVars, answered>>

(* The cone is evaluated: the goal's table is the answer. *)
Answer ==
  /\ phase = "cone" /\ cone = {}
  /\ answered' = answered \cup {goal} /\ goal' = None /\ phase' = "ready"
  /\ UNCHANGED <<loadVars, round, base, full, final, cone, evalVars, ruleOfVars>>

Next ==
  \/ \E d \in reads : Relax(d)
  \/ EndStratifyRound
  \/ \E facts \in SUBSET Fact : Assert(facts)
  \/ \E g \in Rel : Query(g)
  \/ \E C \in cone : StartComponent(C)
  \/ \E w \in todo : EvalRule(w)
  \/ EndRound
  \/ Answer

Spec == Init /\ [][Next]_vars

(* Compile and Eval run to their end on one goroutine; which batch is asserted
   and which goal is asked is the caller's choice. *)
FairSpec ==
  Spec /\ WF_vars(\/ \E d \in reads : Relax(d)
                  \/ EndStratifyRound
                  \/ \E C \in cone : StartComponent(C)
                  \/ \E w \in todo : EvalRule(w)
                  \/ EndRound
                  \/ Answer)

-----------------------------------------------------------------------------
(* Properties *)

(* The tuples, strata and marks have their types, and what a round reads was
   derived before it: the delta is below the mark, the mark below the table. *)
TypeOK ==
  /\ rules \subseteq Rule
  /\ DOMAIN strata = Derived /\ \A h \in Derived : strata[h] \in Nat
  /\ reads \subseteq Derived \X Derived \X BOOLEAN
  /\ changed \in BOOLEAN /\ round \in Nat
  /\ phase \in {"stratify", "rejected", "compiled", "ready", "cone", "rounds",
                "failed"}
  /\ base \subseteq Fact /\ full \subseteq Atom
  /\ final \subseteq Derived /\ comp \subseteq Derived
  /\ goal \in Derived \cup {None} /\ answered \subseteq Rel
  /\ phase \in {"cone", "rounds"} => goal # None
  /\ \A C \in cone : C \subseteq Derived
  /\ \A w \in todo : w[1] \in rules /\ w[2] \in Nat
  /\ delta \subseteq marked /\ marked \subseteq full
  /\ ambiguous \subseteq Atom /\ DOMAIN fastRule = Atom

(* stratify accepts exactly the programs in which no strict read lies on a
   cycle: what it settles is proof that one order of evaluation exists, and
   what it rejects has none. *)
AcceptsStratified ==
  phase \in {"compiled", "rejected"} =>
    (phase = "rejected" <=>
       \E d \in Deps : d[3] /\ (d[1] = d[2] \/ <<d[2], d[1]>> \in Reaches))

(* Whenever a rule is about to be evaluated, every derived relation it reads
   under "not", and every one it aggregates, is complete: the internal error
   of negated() is never reached, and no absence is concluded from a relation
   that can still grow. *)
NegatedAreFinal ==
  \A w \in todo : \A k \in DOMAIN Text[w[1]].body :
    (Text[w[1]].body[k].neg \/ Text[w[1]].agg # "none") /\ Text[w[1]].body[k].rel \in Derived
      => Text[w[1]].body[k].rel \in final

Final == {a \in full : RelOf[a] \in final}

(* The substitutions of r whose positive literals hold in P and whose negated
   literals do not hold in N; underived relations are read from the facts. *)
SatIn(r, P, N) ==
  LET Read(k) == IF Text[r].body[k].rel \notin Derived THEN base
                 ELSE IF Text[r].body[k].neg THEN N ELSE P
  IN  {i \in Text[r].insts :
         \A k \in DOMAIN Text[r].body :
           i.at[k] \in Read(k) <=> ~Text[r].body[k].neg}

(* P holds the asserted facts of the final relations and every head their
   rules derive from P, negation and aggregates being read in N. *)
ClosedIn(P, N) ==
  /\ {a \in base : RelOf[a] \in final} \subseteq P
  /\ \A r \in rules :
       Text[r].head \in final =>
         Emits(r, SatIn(r, IF Text[r].agg = "none" THEN P ELSE N, N)) \subseteq P

(* The completed tables are the stable model of the program over the facts,
   which for a stratified program is the only one: closed under every rule, and
   no smaller set is.  Semi-naive deltas lose no tuple that the whole relations
   would give, and none is derived that the rules do not support. *)
StableModel ==
  phase = "ready" =>
    /\ ClosedIn(Final, Final)
    /\ \A P \in SUBSET Final : ClosedIn(P, Final) => P = Final

(* RuleOf's answer for a tuple of a complete relation. *)
RuleOf(a) == IF a \in ambiguous THEN None ELSE fastRule[a]

(* The names of the rules that derive each atom from the completed tables. *)
RuleNames(a) ==
  {Text[r].name : r \in {q \in rules : Text[q].head = RelOf[a] /\ a \in Emits(q, SatIn(q, full, full))}}

(* RuleOf names a rule exactly when that is the only rule name that derives the
   tuple: the deltas reach every rule that derives it, not just the first. *)
RuleOfExact ==
  phase = "ready" =>
    \A a \in Final :
      LET names == RuleNames(a)
      IN  IF Cardinality(names) = 1 THEN names = {RuleOf(a)} ELSE RuleOf(a) = None

(* Compile decides, and every Query returns an answer or an error. *)
EvalEnds ==
  /\ phase = "stratify" ~> phase \in {"compiled", "rejected"}
  /\ phase \in {"cone", "rounds"} ~> phase \in {"ready", "failed"}
=============================================================================
