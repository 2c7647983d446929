---------------------------- MODULE EngineProofs ----------------------------
(***************************************************************************)
(* What the two engines of the fact pipeline promise of every input.       *)
(*                                                                         *)
(* The Datalog engine, over any relations, atoms and rules: it accepts the *)
(* stratified programs and no others, a negated or an aggregated relation  *)
(* is complete before a rule reads it, a complete relation never changes,  *)
(* the tables of a query that has ended are the stable model, and RuleOf's *)
(* names are exact.                                                        *)
(*                                                                         *)
(* The value engine, over any function in which no statement assigns from  *)
(* the parameter a name that an argument reads: it never asks one question *)
(* twice, it invents no literal, and it loses none in silence.             *)
(***************************************************************************)
EXTENDS DatalogEval, ValueGraph, SequenceTheorems, FiniteSetTheorems, TLAPS

-----------------------------------------------------------------------------
(* The inductive invariant *)

Mutual(x, y) == <<x, y>> \in Reaches /\ <<y, x>> \in Reaches

(* Every read already relaxed in a round without a change asks no more than
   its head has; once compiled, no read does. *)
StrataHold ==
  /\ phase = "stratify" /\ ~changed => \A d \in Deps \ reads : Want(d) <= strata[d[1]]
  /\ phase \notin {"stratify", "rejected"} => \A d \in Deps : Want(d) <= strata[d[1]]

(* A component is a whole class of relations that read each other. *)
Class(C) ==
  /\ \A x, y \in C : x = y \/ Mutual(x, y)
  /\ \A x \in C, y \in Derived : Mutual(x, y) => y \in C

(* What the components of the cone read is in the cone, being evaluated or
   complete; what the one being evaluated reads is itself or complete. *)
ConeReads ==
  /\ \A C \in cone : \A d \in Deps : d[1] \in C => d[2] \in (UNION cone) \cup comp \cup final
  /\ \A d \in Deps : d[1] \in comp => d[2] \in comp \cup final

Components ==
  /\ \A C \in cone : Class(C)
  /\ Class(comp)
  /\ \A x \in final, y \in Derived : Mutual(x, y) => y \in final
  /\ comp \cap final = {}

Work ==
  /\ \A w \in todo : Text[w[1]].head \in comp
  /\ phase \notin {"rounds", "failed"} => comp = {} /\ todo = {}

IInv == TypeOK /\ StrataHold /\ ConeReads /\ Components /\ Work

(* A program that was accepted has no strict read on a cycle. *)
AcceptedIsStratified ==
  phase \notin {"stratify", "rejected"} =>
    \A d \in Deps : d[3] => d[1] # d[2] /\ <<d[2], d[1]>> \notin Reaches

(* A complete relation never changes, whatever is queried after it: what a
   negated literal or an aggregate read stays true. *)
FinalStands ==
  [][\A a \in Atom : RelOf[a] \in final => (a \in full' <=> a \in full)]_vars

-----------------------------------------------------------------------------
(* The reads of a program *)

(* A read names two derived relations. *)
LEMMA DepShape ==
  ASSUME NEW d \in Deps
  PROVE  d \in Derived \X Derived \X BOOLEAN
<1>1. PICK r \in rules : d \in {<<Text[r].head, Text[r].body[k].rel,
            Text[r].body[k].neg \/ Text[r].agg # "none">> :
            k \in {k \in DOMAIN Text[r].body : Text[r].body[k].rel \in Derived}}
  BY DEF Deps
<1>2. PICK k \in DOMAIN Text[r].body :
        /\ Text[r].body[k].rel \in Derived
        /\ d = <<Text[r].head, Text[r].body[k].rel,
                 Text[r].body[k].neg \/ Text[r].agg # "none">>
  BY <1>1
<1>3. Text[r].head \in Derived
  BY DEF Derived
<1>. QED BY <1>2, <1>3

(* A body literal over a derived relation is a read of its rule's head. *)
LEMMA BodyIsDep ==
  ASSUME NEW r \in rules, NEW k \in DOMAIN Text[r].body, Text[r].body[k].rel \in Derived
  PROVE  <<Text[r].head, Text[r].body[k].rel,
           Text[r].body[k].neg \/ Text[r].agg # "none">> \in Deps
BY DEF Deps

-----------------------------------------------------------------------------
(* Reachability *)

LEMMA ReachesShape == Reaches \subseteq Derived \X Derived
BY DEF Reaches

(* Reaches is below every transitive relation that holds the reads. *)
LEMMA ReachesLeast ==
  ASSUME NEW T, T \subseteq Derived \X Derived, Edges \subseteq T,
         \A p, q \in T : p[2] = q[1] => <<p[1], q[2]>> \in T
  PROVE  Reaches \subseteq T
<1>1. T \ Edges \in SUBSET ((Derived \X Derived) \ Edges)
  OBVIOUS
<1>2. T = Edges \cup (T \ Edges)
  OBVIOUS
<1>3. T \in {Edges \cup X : X \in SUBSET ((Derived \X Derived) \ Edges)}
  BY <1>1, <1>2
<1>. QED BY <1>3, Zenon DEF Reaches

LEMMA EdgesReach ==
  ASSUME NEW d \in Deps
  PROVE  <<d[1], d[2]>> \in Reaches
<1>1. <<d[1], d[2]>> \in Edges
  BY DEF Edges
<1>2. <<d[1], d[2]>> \in Derived \X Derived
  BY DepShape
<1>. QED BY <1>1, <1>2 DEF Reaches

LEMMA ReachesTransitive ==
  ASSUME NEW x, NEW y, NEW z, <<x, y>> \in Reaches, <<y, z>> \in Reaches
  PROVE  <<x, z>> \in Reaches
<1>. DEFINE closed == {T \in {Edges \cup X : X \in SUBSET ((Derived \X Derived) \ Edges)} :
                   \A p, q \in T : p[2] = q[1] => <<p[1], q[2]>> \in T}
<1>1. Reaches = {p \in Derived \X Derived : \A T \in closed : p \in T}
  BY DEF Reaches
<1>2. <<x, z>> \in Derived \X Derived
  BY ReachesShape
<1>3. ASSUME NEW T \in closed
      PROVE  <<x, z>> \in T
  <2>1. <<x, y>> \in T /\ <<y, z>> \in T
    BY <1>1, <1>3
  <2>2. \A p, q \in T : p[2] = q[1] => <<p[1], q[2]>> \in T
    BY <1>3
  <2>3. <<x, y>>[1] = x /\ <<x, y>>[2] = y /\ <<y, z>>[1] = y /\ <<y, z>>[2] = z
    OBVIOUS
  <2>. QED BY <2>1, <2>2, <2>3
<1>. QED BY <1>1, <1>2, <1>3

(* Settled strata never rise along a chain of reads. *)
LEMMA StrataFall ==
  ASSUME TypeOK, \A d \in Deps : Want(d) <= strata[d[1]],
         NEW x, NEW y, <<x, y>> \in Reaches
  PROVE  strata[y] <= strata[x]
<1>. DEFINE T == {p \in Derived \X Derived : strata[p[2]] <= strata[p[1]]}
<1>1. \A h \in Derived : strata[h] \in Nat
  BY DEF TypeOK
<1>2. Edges \subseteq T
  <2>1. ASSUME NEW d \in Deps
        PROVE  <<d[1], d[2]>> \in T
    <3>1. d[1] \in Derived /\ d[2] \in Derived /\ d[3] \in BOOLEAN
      BY DepShape
    <3>2. strata[d[2]] <= strata[d[1]]
      BY <1>1, <3>1 DEF Want
    <3>. QED BY <3>1, <3>2
  <2>. QED BY <2>1 DEF Edges
<1>3. ASSUME NEW p \in T, NEW q \in T, p[2] = q[1]
      PROVE  <<p[1], q[2]>> \in T
  <2>1. p[1] \in Derived /\ p[2] \in Derived /\ q[2] \in Derived
    OBVIOUS
  <2>2. strata[p[2]] <= strata[p[1]] /\ strata[q[2]] <= strata[p[2]]
    BY <1>3
  <2>3. strata[q[2]] <= strata[p[1]]
    BY <1>1, <2>1, <2>2
  <2>. QED BY <2>1, <2>3
<1>4. T \subseteq Derived \X Derived
  OBVIOUS
<1>5. Reaches \subseteq T
  <2>. HIDE DEF T
  <2>. QED BY <1>2, <1>3, <1>4, ReachesLeast
<1>6. <<x, y>> \in T
  BY <1>5
<1>. QED BY <1>6

(* A strict read goes to a strictly lower stratum, so it is on no cycle. *)
LEMMA StrictIsAcyclic ==
  ASSUME TypeOK, StrataHold
  PROVE  AcceptedIsStratified
<1>. SUFFICES ASSUME phase \notin {"stratify", "rejected"}, NEW d \in Deps, d[3]
              PROVE  d[1] # d[2] /\ <<d[2], d[1]>> \notin Reaches
  BY DEF AcceptedIsStratified
<1>1. \A e \in Deps : Want(e) <= strata[e[1]]
  BY DEF StrataHold
<1>2. strata[d[1]] \in Nat /\ strata[d[2]] \in Nat
  BY DepShape DEF TypeOK
<1>3. strata[d[2]] + 1 <= strata[d[1]]
  BY <1>1 DEF Want
<1>4. d[1] # d[2]
  BY <1>2, <1>3
<1>5. ASSUME <<d[2], d[1]>> \in Reaches
      PROVE  FALSE
  <2>1. strata[d[1]] <= strata[d[2]]
    BY <1>1, <1>5, StrataFall
  <2>. QED BY <2>1, <1>2, <1>3
<1>. QED BY <1>4, <1>5

(* The invariant gives the property: a strict read of a rule being evaluated
   cannot lie in its own component, and everything else it reads is done. *)
LEMMA WorkReadsFinal ==
  ASSUME IInv
  PROVE  NegatedAreFinal
<1>. SUFFICES ASSUME NEW w \in todo, NEW k \in DOMAIN Text[w[1]].body,
                     Text[w[1]].body[k].neg \/ Text[w[1]].agg # "none",
                     Text[w[1]].body[k].rel \in Derived
              PROVE  Text[w[1]].body[k].rel \in final
  BY DEF NegatedAreFinal
<1>. DEFINE d == <<Text[w[1]].head, Text[w[1]].body[k].rel,
                   Text[w[1]].body[k].neg \/ Text[w[1]].agg # "none">>
<1>1. w[1] \in rules
  BY DEF IInv, TypeOK
<1>2. d \in Deps
  BY <1>1, BodyIsDep
<1>3. phase \notin {"stratify", "rejected"}
  BY DEF IInv, Work
<1>4. d[1] # d[2] /\ <<d[2], d[1]>> \notin Reaches
  BY <1>2, <1>3, StrictIsAcyclic DEF IInv, AcceptedIsStratified
<1>5. d[1] \in comp
  BY DEF IInv, Work
<1>6. d[2] \in comp \cup final
  BY <1>2, <1>5 DEF IInv, ConeReads
<1>7. d[2] \notin comp
  <2>1. \A x, y \in comp : x = y \/ <<y, x>> \in Reaches
    BY DEF IInv, Components, Class, Mutual
  <2>. HIDE DEF d
  <2>. QED BY <1>4, <1>5, <2>1
<1>8. d[2] = Text[w[1]].body[k].rel
  OBVIOUS
<1>. QED BY <1>6, <1>7, <1>8

-----------------------------------------------------------------------------
(* Types *)

(* The program is loaded once; what is computed from it stays. *)
LEMMA ProgramStays ==
  ASSUME rules' = rules
  PROVE  Derived' = Derived /\ Deps' = Deps /\ Reaches' = Reaches
<1>1. Derived' = Derived
  BY DEF Derived
<1>2. Deps' = Deps
  BY <1>1 DEF Deps
<1>3. Edges' = Edges
  BY <1>2 DEF Edges
<1>4. Reaches' = Reaches
  BY <1>1, <1>3 DEF Reaches
<1>. QED BY <1>1, <1>2, <1>4

LEMMA RulesStay ==
  ASSUME [Next]_vars
  PROVE  rules' = rules
BY DEF Next, Relax, EndStratifyRound, Assert, Query, StartComponent, EvalRule,
       EndRound, Answer, vars, loadVars

(* What a rule emits are atoms of its head. *)
LEMMA EmitsShape ==
  ASSUME NEW r \in Rule, NEW S \in SUBSET Text[r].insts, NEW a \in Emits(r, S)
  PROVE  a \in Atom /\ RelOf[a] = Text[r].head
<1>. DEFINE Values(i) == {j.in : j \in {x \in S : x.group = i.group}}
<1>1. RuleShape(Text[r])
  BY DatalogAssumption
<1>2. \A i \in S : \A n \in DOMAIN i.out : i.out[n] \in Atom /\ RelOf[i.out[n]] = Text[r].head
  BY <1>1 DEF RuleShape
<1>3. CASE Text[r].agg = "none"
  <2>1. PICK i \in S : a = i.out[i.in]
    BY <1>3 DEF Emits
  <2>2. i.in \in DOMAIN i.out
    BY <1>1 DEF RuleShape
  <2>. QED BY <1>2, <2>1, <2>2
<1>4. CASE Text[r].agg # "none"
  <2>1. PICK i \in S : a = i.out[Reduce(Text[r].agg, Values(i))]
    BY <1>4, Zenon DEF Emits
  <2>2. Reduce(Text[r].agg, Values(i)) \in DOMAIN i.out
    BY <1>1, <1>4, Zenon DEF RuleShape
  <2>. QED BY <1>2, <2>1, <2>2
<1>. QED BY <1>3, <1>4

LEMMA InitTypes == Init => TypeOK
<1>. SUFFICES ASSUME Init PROVE TypeOK
  OBVIOUS
<1>1. reads \subseteq Derived \X Derived \X BOOLEAN
  BY DepShape DEF Init
<1>2. rules \subseteq Rule
  BY DatalogAssumption DEF Init
<1>. QED BY <1>1, <1>2 DEF Init, TypeOK

LEMMA StepTypes == TypeOK /\ [Next]_vars => TypeOK'
<1>. SUFFICES ASSUME TypeOK, [Next]_vars PROVE TypeOK'
  OBVIOUS
<1>0. rules' = rules /\ Derived' = Derived /\ Deps' = Deps
  BY RulesStay, ProgramStays
<1>1. ASSUME NEW d \in reads, Relax(d) PROVE TypeOK'
  <2>1. d[1] \in Derived /\ d[2] \in Derived
    BY DEF TypeOK
  <2>2. Want(d) \in Nat
    BY <2>1 DEF TypeOK, Want
  <2>3. DOMAIN strata' = Derived /\ \A h \in Derived : strata'[h] \in Nat
    <3>1. strata' \in {strata, [strata EXCEPT ![d[1]] = Want(d)]}
      BY <1>1 DEF Relax
    <3>. QED BY <2>1, <2>2, <3>1 DEF TypeOK
  <2>4. reads' \subseteq reads /\ changed' \in BOOLEAN
    BY <1>1 DEF TypeOK, Relax
  <2>. QED BY <1>0, <1>1, <2>3, <2>4 DEF TypeOK, Relax, evalVars, ruleOfVars
<1>2. CASE EndStratifyRound
  <2>1. Deps \subseteq Derived \X Derived \X BOOLEAN
    BY DepShape
  <2>2. reads' = reads \/ reads' = Deps
    BY <1>2, Zenon DEF EndStratifyRound
  <2>4. changed' \in BOOLEAN
    BY <1>2, Zenon DEF TypeOK, EndStratifyRound
  <2>5. round' \in {round, round + 1, 0}
    BY <1>2 DEF EndStratifyRound
  <2>6. round' \in Nat
    BY <2>5 DEF TypeOK
  <2>3. phase' \in {"stratify", "compiled", "rejected"}
    BY <1>2 DEF TypeOK, EndStratifyRound
  <2>. QED BY <1>0, <1>2, <2>1, <2>2, <2>3, <2>4, <2>6
       DEF TypeOK, EndStratifyRound, evalVars, ruleOfVars
<1>3. ASSUME NEW facts \in SUBSET Fact, Assert(facts) PROVE TypeOK'
  <2>1. phase' \in {"failed", "ready"} /\ base' \subseteq Fact
    BY <1>3 DEF Assert
  <2>. QED BY <1>0, <1>3, <2>1 DEF TypeOK, Assert, loadVars, evalVars, ruleOfVars
<1>4. ASSUME NEW g \in Rel, Query(g) PROVE TypeOK'
  <2>1. g \in Derived => \A C \in Cone(g) : C \subseteq Derived
    BY DEF Cone
  <2>2. /\ phase' \in {"ready", "cone"} /\ goal' \in Derived \cup {None}
        /\ phase' = "cone" => goal' # None
    BY <1>4, DatalogAssumption DEF TypeOK, Query
  <2>3. \A C \in cone' : C \subseteq Derived
    BY <1>4, <2>1 DEF TypeOK, Query
  <2>4. answered' \subseteq Rel
    BY <1>4 DEF TypeOK, Query
  <2>. QED BY <1>0, <1>4, <2>2, <2>3, <2>4 DEF TypeOK, Query, loadVars, evalVars, ruleOfVars
<1>5. ASSUME NEW C \in cone, StartComponent(C) PROVE TypeOK'
  <2>1. C \subseteq Derived /\ cone' \subseteq cone
    BY <1>5 DEF TypeOK, StartComponent
  <2>2. CASE C \subseteq final
    BY <1>0, <1>5, <2>1, <2>2 DEF TypeOK, StartComponent, loadVars, ruleOfVars
  <2>3. CASE ~(C \subseteq final)
    <3>1. base \subseteq Atom
      BY DatalogAssumption DEF TypeOK
    <3>2. \A w \in todo' : w[1] \in rules /\ w[2] \in Nat
      BY <1>5, <2>3 DEF StartComponent
    <3>3. full' \subseteq Atom /\ marked' = {} /\ delta' = {} /\ comp' = C
            /\ phase' = "rounds" /\ round' = 0
      BY <1>5, <2>3, <3>1 DEF TypeOK, StartComponent
    <3>. QED BY <1>0, <1>5, <2>1, <3>2, <3>3 DEF TypeOK, StartComponent, loadVars, ruleOfVars
  <2>. QED BY <2>2, <2>3
<1>6. ASSUME NEW w \in todo, EvalRule(w) PROVE TypeOK'
  <2>. DEFINE heads == Emits(w[1], Sat(w[1], w[2]))
  <2>1. w[1] \in Rule /\ Sat(w[1], w[2]) \in SUBSET Text[w[1]].insts
    BY DEF TypeOK, Sat
  <2>2. heads \subseteq Atom
    BY <2>1, EmitsShape
  <2>3. full' = full \cup heads /\ ambiguous' \subseteq ambiguous \cup heads
          /\ DOMAIN fastRule' = Atom
    BY <1>6 DEF EvalRule, Record
  <2>4. phase' \in {"failed", phase} /\ todo' \subseteq todo
    BY <1>6 DEF EvalRule
  <2>. HIDE DEF heads
  <2>. QED BY <1>0, <1>6, <2>2, <2>3, <2>4 DEF TypeOK, EvalRule, loadVars
<1>7. CASE EndRound
  <2>1. CASE Complete
    BY <1>0, <1>7, <2>1 DEF TypeOK, EndRound, Complete, loadVars, ruleOfVars
  <2>2. CASE phase' = "failed" /\ UNCHANGED <<round, final, comp, todo, marked, delta>>
    BY <1>0, <1>7, <2>2 DEF TypeOK, EndRound, loadVars, ruleOfVars
  <2>3. CASE NextRound
    <3>1. ASSUME NEW r \in rules PROVE RecPos(r) \subseteq Nat
      <4>1. RuleShape(Text[r])
        BY DatalogAssumption DEF TypeOK
      <4>2. DOMAIN Text[r].body \subseteq Nat
        BY <4>1 DEF RuleShape
      <4>. QED BY <4>2 DEF RecPos
    <3>2. \A w \in todo' : w[1] \in rules /\ w[2] \in Nat
      BY <2>3, <3>1 DEF NextRound, Producing
    <3>3. delta' \subseteq marked' /\ marked' = full /\ round' \in Nat
      BY <2>3 DEF TypeOK, NextRound, Grown
    <3>. QED BY <1>0, <1>7, <2>3, <3>2, <3>3 DEF TypeOK, EndRound, NextRound, loadVars, ruleOfVars
  <2>. QED BY <1>7, <2>1, <2>2, <2>3 DEF EndRound
<1>8. CASE Answer
  <2>1. answered' \subseteq Rel
    <3>1. Derived \subseteq Rel
      BY DatalogAssumption DEF TypeOK, Derived, RuleShape
    <3>. QED BY <1>8, <3>1 DEF TypeOK, Answer
  <2>. QED BY <1>0, <1>8, <2>1 DEF TypeOK, Answer, loadVars, evalVars, ruleOfVars
<1>9. CASE UNCHANGED vars
  BY <1>0, <1>9 DEF TypeOK, vars, loadVars, evalVars, ruleOfVars
<1>. QED BY <1>1, <1>2, <1>3, <1>4, <1>5, <1>6, <1>7, <1>8, <1>9 DEF Next

-----------------------------------------------------------------------------
(* The rest of the invariant, part by part *)

LEMMA InitInvariant == Init => IInv
<1>. SUFFICES ASSUME Init PROVE IInv
  OBVIOUS
<1>1. TypeOK
  BY InitTypes
<1>2. StrataHold
  BY DEF Init, StrataHold
<1>3. ConeReads /\ Components /\ Work
  BY DEF Init, ConeReads, Components, Class, Work
<1>. QED BY <1>1, <1>2, <1>3 DEF IInv

(* Relaxing a read raises its head or leaves the strata as they are; a round
   that changed nothing has relaxed every read. *)
LEMMA StepStrata ==
  ASSUME TypeOK, StrataHold, [Next]_vars
  PROVE  StrataHold'
<1>0. Deps' = Deps
  BY RulesStay, ProgramStays
<1>1. ASSUME NEW d \in reads, Relax(d) PROVE StrataHold'
  <2>1. phase' = "stratify"
    BY <1>1 DEF Relax
  <2>2. CASE Want(d) > strata[d[1]]
    BY <1>1, <2>1, <2>2 DEF Relax, StrataHold
  <2>3. CASE ~(Want(d) > strata[d[1]])
    <3>1. strata' = strata /\ changed' = changed /\ reads' = reads \ {d}
            /\ phase = "stratify"
      BY <1>1, <2>3 DEF Relax
    <3>2. Want(d) <= strata[d[1]]
      <4>1. strata[d[1]] \in Nat /\ strata[d[2]] \in Nat
        BY DEF TypeOK
      <4>. QED BY <2>3, <4>1 DEF Want
    <3>3. ASSUME ~changed', NEW e \in Deps \ reads'
          PROVE  Want(e)' <= strata'[e[1]]
      <4>1. Want(e)' = Want(e)
        BY <3>1 DEF Want
      <4>2. CASE e = d
        BY <3>1, <3>2, <4>1, <4>2
      <4>3. CASE e # d
        BY <3>1, <3>3, <4>1, <4>3 DEF StrataHold
      <4>. QED BY <4>2, <4>3
    <3>. QED BY <1>0, <2>1, <3>3 DEF StrataHold
  <2>. QED BY <2>2, <2>3
<1>2. CASE EndStratifyRound
  <2>1. phase = "stratify" /\ reads = {} /\ strata' = strata
    BY <1>2 DEF EndStratifyRound
  <2>2. \A d : Want(d)' = Want(d)
    BY <2>1 DEF Want
  <2>3. CASE ~changed
    <3>1. phase' = "compiled"
      BY <1>2, <2>3 DEF EndStratifyRound
    <3>. QED BY <1>0, <2>1, <2>2, <2>3, <3>1 DEF StrataHold
  <2>4. CASE changed
    <3>1. phase' = "rejected" \/ (phase' = "stratify" /\ reads' = Deps)
      BY <1>2, <2>1, <2>4, Zenon DEF EndStratifyRound
    <3>. QED BY <1>0, <3>1 DEF StrataHold
  <2>. QED BY <2>3, <2>4
<1>3. CASE /\ UNCHANGED <<strata, reads, changed>>
           /\ \/ phase' = phase
              \/ phase \notin {"stratify", "rejected"} /\ phase' \notin {"stratify", "rejected"}
  <2>1. \A d : Want(d)' = Want(d)
    BY <1>3 DEF Want
  <2>. QED BY <1>0, <1>3, <2>1 DEF StrataHold
<1>4. ASSUME NEW facts \in SUBSET Fact, Assert(facts) PROVE StrataHold'
  BY <1>3, <1>4 DEF Assert, loadVars
<1>5. ASSUME NEW g \in Rel, Query(g) PROVE StrataHold'
  BY <1>3, <1>5 DEF Query, loadVars
<1>6. ASSUME NEW C \in cone, StartComponent(C) PROVE StrataHold'
  BY <1>3, <1>6 DEF StartComponent, loadVars
<1>7. ASSUME NEW w \in todo, EvalRule(w) PROVE StrataHold'
  BY <1>3, <1>7 DEF EvalRule, loadVars
<1>8. CASE EndRound
  BY <1>3, <1>8 DEF EndRound, Complete, NextRound, loadVars
<1>9. CASE Answer
  BY <1>3, <1>9 DEF Answer, loadVars
<1>10. CASE UNCHANGED vars
  BY <1>3, <1>10 DEF vars, loadVars
<1>. QED BY <1>1, <1>2, <1>4, <1>5, <1>6, <1>7, <1>8, <1>9, <1>10 DEF Next

(* The components of a cone are classes, and hold all that they read. *)
LEMMA ConeShape ==
  ASSUME NEW g \in Derived
  PROVE  /\ \A C \in Cone(g) : Class(C)
         /\ \A C \in Cone(g) : \A d \in Deps : d[1] \in C => d[2] \in UNION Cone(g)
<1>. DEFINE In == {g} \cup {y \in Derived : <<g, y>> \in Reaches}
            Cl(x) == {x} \cup {y \in Derived : <<x, y>> \in Reaches /\ <<y, x>> \in Reaches}
<1>1. Cone(g) = {Cl(x) : x \in In}
  BY DEF Cone
<1>2. ASSUME NEW x \in In
      PROVE  Class(Cl(x)) /\ \A d \in Deps : d[1] \in Cl(x) => d[2] \in UNION Cone(g)
  <2>1. \A y \in Cl(x) : y = x \/ Mutual(x, y)
    BY DEF Mutual
  <2>2. \A u, v, t : Mutual(u, v) /\ Mutual(v, t) => Mutual(u, t)
    BY ReachesTransitive DEF Mutual
  <2>3. \A u, v : Mutual(u, v) => Mutual(v, u)
    BY DEF Mutual
  <2>4. ASSUME NEW u \in Cl(x), NEW v \in Cl(x)
        PROVE  u = v \/ Mutual(u, v)
    <3>. HIDE DEF Cl
    <3>. QED BY <2>1, <2>2, <2>3
  <2>5. ASSUME NEW u \in Cl(x), NEW v \in Derived, Mutual(u, v)
        PROVE  v \in Cl(x)
    <3>1. Mutual(x, v)
      <4>. HIDE DEF Cl
      <4>. QED BY <2>1, <2>2, <2>5
    <3>. QED BY <3>1 DEF Mutual
  <2>6. ASSUME NEW d \in Deps, d[1] \in Cl(x)
        PROVE  d[2] \in UNION Cone(g)
    <3>1. <<d[1], d[2]>> \in Reaches /\ d[2] \in Derived
      BY EdgesReach, DepShape
    <3>2. d[1] = x \/ <<x, d[1]>> \in Reaches
      BY <2>6
    <3>3. <<x, d[2]>> \in Reaches
      BY <3>1, <3>2, ReachesTransitive
    <3>4. <<g, d[2]>> \in Reaches
      BY <3>3, ReachesTransitive
    <3>5. d[2] \in In /\ d[2] \in Cl(d[2])
      BY <3>1, <3>4
    <3>. HIDE DEF In, Cl
    <3>. QED BY <1>1, <3>5
  <2>. HIDE DEF Cl
  <2>. QED BY <2>4, <2>5, <2>6 DEF Class
<1>. HIDE DEF In, Cl
<1>. QED BY <1>1, <1>2

(* A component that is not all complete has nothing complete in it. *)
LEMMA FreshComponent ==
  ASSUME TypeOK, Components, NEW C \in cone, ~(C \subseteq final)
  PROVE  C \cap final = {}
<1>. SUFFICES ASSUME NEW x \in C, x \in final PROVE FALSE
  OBVIOUS
<1>1. ASSUME NEW y \in C PROVE y \in final
  <2>1. y = x \/ Mutual(x, y)
    BY DEF Components, Class
  <2>2. y \in Derived
    BY DEF TypeOK
  <2>. QED BY <2>1, <2>2 DEF Components
<1>. QED BY <1>1

(* The components are taken off the cone one at a time, each after what it
   reads, and completing one adds a whole class to the complete relations. *)
LEMMA StepComponents ==
  ASSUME TypeOK, ConeReads, Components, Work, [Next]_vars
  PROVE  ConeReads' /\ Components' /\ Work'
<1>0. Deps' = Deps /\ Derived' = Derived /\ Reaches' = Reaches
  BY RulesStay, ProgramStays
<1>1. \A x, y : Mutual(x, y)' = Mutual(x, y)
  BY <1>0 DEF Mutual
<1>2. \A C : Class(C)' = Class(C)
  BY <1>0, <1>1 DEF Class
<1>3. Class(comp)' <=> /\ \A x, y \in comp' : x = y \/ Mutual(x, y)
                       /\ \A x \in comp', y \in Derived : Mutual(x, y) => y \in comp'
  BY <1>0, <1>1 DEF Class
<1>4. CASE /\ UNCHANGED <<cone, comp, final>> /\ todo' \subseteq todo
           /\ phase' \notin {"rounds", "failed"} => phase \notin {"rounds", "failed"}
  <2>1. ConeReads'
    BY <1>0, <1>4 DEF ConeReads
  <2>2. Components'
    BY <1>0, <1>1, <1>2, <1>3, <1>4 DEF Components, Class
  <2>3. Work'
    BY <1>4 DEF Work
  <2>. QED BY <2>1, <2>2, <2>3
<1>5. ASSUME NEW d \in reads, Relax(d) PROVE ConeReads' /\ Components' /\ Work'
  BY <1>4, <1>5 DEF Relax, evalVars
<1>6. CASE EndStratifyRound
  BY <1>4, <1>6 DEF EndStratifyRound, evalVars
<1>7. ASSUME NEW facts \in SUBSET Fact, Assert(facts)
      PROVE  ConeReads' /\ Components' /\ Work'
  BY <1>4, <1>7 DEF Assert, evalVars
<1>8. ASSUME NEW g \in Rel, Query(g) PROVE ConeReads' /\ Components' /\ Work'
  <2>1. CASE g \notin Derived
    BY <1>4, <1>8, <2>1 DEF Query, evalVars
  <2>2. CASE g \in Derived
    <3>1. /\ cone' = Cone(g) /\ comp = {} /\ todo = {} /\ phase' = "cone"
          /\ UNCHANGED <<comp, todo, final>>
      BY <1>8, <2>2 DEF Query, Work, evalVars
    <3>2. ConeReads'
      BY <1>0, <2>2, <3>1, ConeShape DEF ConeReads
    <3>3. \A C \in cone' : Class(C)'
      BY <1>2, <2>2, <3>1, ConeShape
    <3>4. Components'
      BY <1>0, <1>1, <1>3, <3>1, <3>3 DEF Components
    <3>. QED BY <3>1, <3>2, <3>4 DEF Work
  <2>. QED BY <2>1, <2>2
<1>9. ASSUME NEW C \in cone, StartComponent(C) PROVE ConeReads' /\ Components' /\ Work'
  <2>1. /\ phase = "cone" /\ comp = {} /\ todo = {} /\ Ready(C)
        /\ cone' = cone \ {C} /\ final' = final
    BY <1>9 DEF StartComponent, Work
  <2>2. CASE C \subseteq final
    <3>1. UNCHANGED <<phase, comp, todo>>
      BY <1>9, <2>2 DEF StartComponent
    <3>2. ConeReads'
      BY <1>0, <2>1, <2>2, <3>1 DEF ConeReads
    <3>3. Components'
      BY <1>0, <1>1, <1>2, <1>3, <2>1, <3>1 DEF Components
    <3>. QED BY <2>1, <3>1, <3>2, <3>3 DEF Work
  <2>3. CASE ~(C \subseteq final)
    <3>1. /\ comp' = C /\ phase' = "rounds"
          /\ todo' = {<<r, 0>> : r \in {q \in rules : Text[q].head \in C}}
      BY <1>9, <2>3 DEF StartComponent
    <3>2. ASSUME NEW d \in Deps, d[1] \in C PROVE d[2] \in C \cup final
      BY <2>1, <3>2 DEF ConeReads, Ready
    <3>3. ConeReads'
      BY <1>0, <2>1, <3>1, <3>2 DEF ConeReads
    <3>4. C \cap final = {} /\ Class(C)
      BY <2>3, FreshComponent DEF Components
    <3>5. Components'
      BY <1>0, <1>1, <1>2, <1>3, <2>1, <3>1, <3>4 DEF Components, Class
    <3>6. Work'
      BY <3>1 DEF Work
    <3>. QED BY <3>3, <3>5, <3>6
  <2>. QED BY <2>2, <2>3
<1>10. ASSUME NEW w \in todo, EvalRule(w) PROVE ConeReads' /\ Components' /\ Work'
  BY <1>4, <1>10 DEF EvalRule
<1>11. CASE EndRound
  <2>1. phase = "rounds" /\ todo = {} /\ cone' = cone
    BY <1>11 DEF EndRound
  <2>2. CASE Complete
    <3>1. final' = final \cup comp /\ comp' = {} /\ phase' = "cone" /\ todo' = todo
      BY <2>2 DEF Complete
    <3>2. ConeReads'
      BY <1>0, <2>1, <3>1 DEF ConeReads
    <3>3. ASSUME NEW x \in final', NEW y \in Derived, Mutual(x, y)
          PROVE  y \in final'
      BY <3>1, <3>3 DEF Components, Class
    <3>4. Components'
      BY <1>0, <1>1, <1>2, <1>3, <2>1, <3>1, <3>3 DEF Components
    <3>. QED BY <2>1, <3>1, <3>2, <3>4 DEF Work
  <2>3. CASE phase' = "failed" /\ UNCHANGED <<round, final, comp, todo, marked, delta>>
    BY <1>4, <2>1, <2>3
  <2>4. CASE NextRound
    <3>1. UNCHANGED <<cone, comp, final, phase>>
      BY <2>1, <2>4 DEF NextRound
    <3>2. \A w \in todo' : Text[w[1]].head \in comp
      BY <2>4 DEF NextRound, Producing
    <3>3. ConeReads'
      BY <1>0, <3>1 DEF ConeReads
    <3>4. Components'
      BY <1>0, <1>1, <1>2, <1>3, <3>1 DEF Components, Class
    <3>5. Work'
      BY <2>1, <3>1, <3>2 DEF Work
    <3>. QED BY <3>3, <3>4, <3>5
  <2>. QED BY <1>11, <2>2, <2>3, <2>4 DEF EndRound
<1>12. CASE Answer
  BY <1>4, <1>12 DEF Answer, evalVars
<1>13. CASE UNCHANGED vars
  BY <1>4, <1>13 DEF vars, evalVars
<1>. QED BY <1>5, <1>6, <1>7, <1>8, <1>9, <1>10, <1>11, <1>12, <1>13 DEF Next

-----------------------------------------------------------------------------
(* The theorems *)

(* The tables, strata, marks and deltas have their types in every run of
   Compile and Eval, for any rules and facts. *)
THEOREM DatalogTypes == Spec => []TypeOK
<1>1. Init => TypeOK
  BY InitTypes
<1>2. TypeOK /\ [Next]_vars => TypeOK'
  BY StepTypes
<1>. QED BY <1>1, <1>2, PTL DEF Spec

(* The inductive invariant holds in every run. *)
THEOREM DatalogInvariant == Spec => []IInv
<1>1. Init => IInv
  BY InitInvariant
<1>2. IInv /\ [Next]_vars => IInv'
  BY StepTypes, StepStrata, StepComponents DEF IInv
<1>. QED BY <1>1, <1>2, PTL DEF Spec

(* Whatever the rules, a program stratify accepts has no negated and no
   aggregated read on a cycle: load-time acceptance is sound. *)
THEOREM AcceptanceIsSound == Spec => []AcceptedIsStratified
<1>1. IInv => AcceptedIsStratified
  BY StrictIsAcyclic DEF IInv
<1>. QED BY <1>1, DatalogInvariant, PTL

(* Whatever the rules, the facts and the order of queries, evalComponent never
   evaluates a rule whose negated or aggregated relation is still growing: the
   internal error in negated() cannot happen. *)
THEOREM NegationReadsFinal == Spec => []NegatedAreFinal
<1>1. IInv => NegatedAreFinal
  BY WorkReadsFinal
<1>. QED BY <1>1, DatalogInvariant, PTL

(* A table once complete never changes: a later query that reuses it reads what
   the earlier one answered. *)
THEOREM CompleteNeverChanges == Spec => FinalStands
<1>. DEFINE A == \A a \in Atom : RelOf[a] \in final => (a \in full' <=> a \in full)
<1>1. IInv /\ [Next]_vars => [A]_vars
  <2>. SUFFICES ASSUME IInv, [Next]_vars PROVE A \/ UNCHANGED vars
    OBVIOUS
  <2>1. CASE full' = full
    BY <2>1
  <2>2. ASSUME NEW C \in cone, StartComponent(C) PROVE A
    <3>1. CASE C \subseteq final
      BY <2>1, <2>2, <3>1 DEF StartComponent
    <3>2. CASE ~(C \subseteq final)
      <4>1. full' = full \cup {a \in base : RelOf[a] \in C}
        BY <2>2, <3>2 DEF StartComponent
      <4>2. C \cap final = {}
        BY <3>2, FreshComponent DEF IInv
      <4>. QED BY <4>1, <4>2
    <3>. QED BY <3>1, <3>2
  <2>3. ASSUME NEW w \in todo, EvalRule(w) PROVE A
    <3>. DEFINE heads == Emits(w[1], Sat(w[1], w[2]))
    <3>1. full' = full \cup heads
      BY <2>3 DEF EvalRule, Record
    <3>2. w[1] \in Rule /\ Sat(w[1], w[2]) \in SUBSET Text[w[1]].insts
      BY DEF IInv, TypeOK, Sat
    <3>3. \A a \in heads : RelOf[a] \in comp
      BY <3>2, EmitsShape DEF IInv, Work
    <3>4. comp \cap final = {}
      BY DEF IInv, Components
    <3>. HIDE DEF heads
    <3>. QED BY <3>1, <3>3, <3>4
  <2>4. \/ full' = full
        \/ \E C \in cone : StartComponent(C)
        \/ \E w \in todo : EvalRule(w)
    BY DEF Next, Relax, EndStratifyRound, Assert, Query, EndRound, Answer, vars
  <2>. QED BY <2>1, <2>2, <2>3, <2>4
<1>. QED BY <1>1, DatalogInvariant, PTL DEF Spec, FinalStands

-----------------------------------------------------------------------------
(* The second inductive invariant: what the tables and the rule names hold *)

(* SatIn with everything it reads as an argument: the derived relations, the
   facts, and the tuples positive and negated literals are read in. *)
Meets(r, D, B, P, N) ==
  {i \in Text[r].insts :
     \A k \in DOMAIN Text[r].body :
       i.at[k] \in (IF Text[r].body[k].rel \notin D THEN B
                    ELSE IF Text[r].body[k].neg THEN N ELSE P)
         <=> ~Text[r].body[k].neg}

Known == final \cup comp

(* What rule r derives from the tables as they are. *)
Derives(r) == Emits(r, Meets(r, Derived, base, full, full))

(* The relations a complete one reads are complete. *)
FinalReads ==
  /\ \A d \in Deps : d[1] \in final => d[2] \in final
  /\ phase \in {"stratify", "compiled"} => final = {}

(* The tables hold tuples of the relations reached so far, and their facts. *)
TablesKnown ==
  /\ \A a \in full : RelOf[a] \in Known
  /\ \A a \in base : RelOf[a] \in Known => a \in full

(* A set of tuples that holds the facts and all that the rules derive from it,
   negation and aggregates being read in the tables. *)
ClosedUnder(P) ==
  /\ \A a \in base : RelOf[a] \in Known => a \in P
  /\ \A r \in rules :
       Text[r].head \in Known =>
         IF Text[r].agg = "none"
         THEN \A i \in Meets(r, Derived, base, P, full) : i.out[i.in] \in P
         ELSE Derives(r) \subseteq P

(* No tuple is there that some closed set does without. *)
Supported == \A P \in SUBSET Atom : ClosedUnder(P) => full \subseteq P

(* Tuple a is in its table, and RuleOf knows that rule r derives it. *)
Noted(r, a) == a \in full /\ (a \in ambiguous \/ fastRule[a] = Text[r].name)

(* Work that will derive the head of instance i of rule r is still to be done. *)
Pending(r, i) ==
  \/ <<r, 0>> \in todo
  \/ \E k \in RecPos(r) : <<r, k>> \in todo /\ i.at[k] \in delta

(* What the rounds have done: an instance whose recursive literals were there
   at the mark has its head in the table, or a delta will still meet it. *)
RoundsDone ==
  \A r \in Producing :
    IF Text[r].agg = "none"
    THEN \A i \in Meets(r, Derived, base, full, full) :
           (\A k \in RecPos(r) : i.at[k] \in marked) => Noted(r, i.out[i.in]) \/ Pending(r, i)
    ELSE <<r, 0>> \in todo \/ \A a \in Derives(r) : Noted(r, a)

(* What complete relations have: every tuple each of their rules derives. *)
FinalDone ==
  \A r \in rules : Text[r].head \in final => \A a \in Derives(r) : Noted(r, a)

(* Rule r derives tuple a and is one of the rules reached so far. *)
Gives(r, a) == Text[r].head \in Known /\ Text[r].head = RelOf[a] /\ a \in Derives(r)

(* The names RuleOf keeps are names of rules that derive the tuple. *)
NamesSound ==
  \A a \in Atom :
    /\ fastRule[a] # None => \E r \in rules : Gives(r, a) /\ Text[r].name = fastRule[a]
    /\ a \in ambiguous =>
         /\ fastRule[a] = None
         /\ \E r, q \in rules : Gives(r, a) /\ Gives(q, a) /\ Text[r].name # Text[q].name

(* The deltas of a round are read at the recursive positions. *)
WorkPositions == \A w \in todo : w[2] = 0 \/ w[2] \in RecPos(w[1])

TableInv ==
  /\ FinalReads /\ TablesKnown /\ Supported /\ RoundsDone /\ FinalDone /\ NamesSound
  /\ WorkPositions

-----------------------------------------------------------------------------
(* Substitutions and what a rule reads *)

LEMMA SatInMeets ==
  ASSUME NEW r, NEW P, NEW N
  PROVE  SatIn(r, P, N) = Meets(r, Derived, base, P, N)
BY DEF SatIn, Meets

LEMMA Positions ==
  ASSUME NEW S, NEW s \in Seq(S), NEW k \in DOMAIN s
  PROVE  k \in 1..Len(s) /\ s[k] \in S
OBVIOUS

(* An instance of a rule has one atom of the literal's relation per position. *)
LEMMA InstanceShape ==
  ASSUME NEW r \in Rule, NEW i \in Text[r].insts, NEW k \in DOMAIN Text[r].body
  PROVE  /\ i.at[k] \in Atom /\ RelOf[i.at[k]] = Text[r].body[k].rel
         /\ Text[r].body[k].neg \in BOOLEAN /\ k # 0
<1>1. RuleShape(Text[r])
  BY DatalogAssumption
<1>2. Text[r].body \in Seq([rel : Rel, neg : BOOLEAN])
  BY <1>1 DEF RuleShape
<1>. DEFINE Literal == [rel : Rel, neg : BOOLEAN]
<1>3. k \in 1..Len(Text[r].body) /\ Text[r].body[k] \in Literal
  <2>. HIDE DEF Literal
  <2>1. Text[r].body \in Seq(Literal)
    BY <1>2 DEF Literal
  <2>. QED BY <2>1, Positions
<1>4. i.at[k] \in Atom /\ RelOf[i.at[k]] = Text[r].body[k].rel
  BY <1>1 DEF RuleShape
<1>. QED BY <1>3, <1>4

(* Two readings that agree on what a rule reads give the same substitutions. *)
LEMMA MeetsSame ==
  ASSUME NEW r, NEW D, NEW B, NEW P, NEW N, NEW Q, NEW M,
         \A i \in Text[r].insts : \A k \in DOMAIN Text[r].body :
           Text[r].body[k].rel \in D =>
             /\ Text[r].body[k].neg => (i.at[k] \in N <=> i.at[k] \in M)
             /\ ~Text[r].body[k].neg => (i.at[k] \in P <=> i.at[k] \in Q)
  PROVE  Meets(r, D, B, P, N) = Meets(r, D, B, Q, M)
BY DEF Meets

(* Reading more where literals are positive gives no fewer. *)
LEMMA MeetsMore ==
  ASSUME NEW r, NEW D, NEW B, NEW P, NEW N, NEW Q, NEW M, NEW i \in Meets(r, D, B, P, N),
         \A k \in DOMAIN Text[r].body :
           Text[r].body[k].rel \in D =>
             /\ Text[r].body[k].neg => (i.at[k] \in N <=> i.at[k] \in M)
             /\ ~Text[r].body[k].neg => (i.at[k] \in P => i.at[k] \in Q)
  PROVE  i \in Meets(r, D, B, Q, M)
BY DEF Meets

(* With no delta, join reads the tables. *)
LEMMA SatIsMeets ==
  ASSUME NEW r \in Rule
  PROVE  Sat(r, 0) = Meets(r, Derived, base, full, full)
<1>1. ASSUME NEW i \in Text[r].insts
      PROVE  i \in Sat(r, 0) <=> i \in Meets(r, Derived, base, full, full)
  <2>1. \A k \in DOMAIN Text[r].body :
           /\ RelOf[i.at[k]] = Text[r].body[k].rel /\ k # 0
           /\ Text[r].body[k].neg \in BOOLEAN
    BY InstanceShape
  <2>. QED BY <2>1 DEF Sat, Meets, Holds
<1>. QED BY <1>1 DEF Sat, Meets

(* With a delta it finds no others, as long as the delta is in the tables. *)
LEMMA SatWithin ==
  ASSUME TypeOK, NEW r \in Rule, NEW k, k \in RecPos(r) \/ k = 0
  PROVE  Sat(r, k) \subseteq Meets(r, Derived, base, full, full)
<1>1. ASSUME NEW i \in Sat(r, k)
      PROVE  i \in Sat(r, 0)
  <2>1. i \in Text[r].insts
    BY DEF Sat
  <2>2. \A n \in DOMAIN Text[r].body : RelOf[i.at[n]] = Text[r].body[n].rel /\ n # 0
    BY <2>1, InstanceShape
  <2>3. k \in RecPos(r) => Text[r].body[k].rel \in Derived
    BY DEF RecPos, TypeOK
  <2>4. delta \subseteq full
    BY DEF TypeOK
  <2>. QED BY <1>1, <2>2, <2>3, <2>4 DEF Sat, Holds
<1>. QED BY <1>1, SatIsMeets

(* What a rule of a relation reached so far reads is reached so far; what it
   reads under "not" or aggregates is complete. *)
LEMMA ReadsKnown ==
  ASSUME IInv, FinalReads, NEW r \in rules, Text[r].head \in Known,
         NEW k \in DOMAIN Text[r].body, Text[r].body[k].rel \in Derived
  PROVE  /\ Text[r].body[k].rel \in Known
         /\ Text[r].body[k].neg \/ Text[r].agg # "none" => Text[r].body[k].rel \in final
         /\ Text[r].head \in final => Text[r].body[k].rel \in final
<1>. DEFINE d == <<Text[r].head, Text[r].body[k].rel,
                   Text[r].body[k].neg \/ Text[r].agg # "none">>
<1>1. d \in Deps
  BY BodyIsDep
<1>2. d[1] = Text[r].head /\ d[2] = Text[r].body[k].rel
        /\ (d[3] <=> Text[r].body[k].neg \/ Text[r].agg # "none")
  OBVIOUS
<1>. HIDE DEF d
<1>3. CASE d[1] \in final
  BY <1>1, <1>2, <1>3 DEF FinalReads, Known
<1>4. CASE d[1] \notin final
  <2>1. d[1] \in comp
    BY <1>2, <1>4 DEF Known
  <2>2. d[2] \in comp \cup final
    BY <1>1, <2>1 DEF IInv, ConeReads
  <2>3. ASSUME d[3] PROVE d[2] \notin comp
    <3>1. phase \notin {"stratify", "rejected"}
      BY <2>1 DEF IInv, Work
    <3>2. d[1] # d[2] /\ <<d[2], d[1]>> \notin Reaches
      BY <1>1, <2>3, <3>1, StrictIsAcyclic DEF IInv, AcceptedIsStratified
    <3>3. \A x, y \in comp : x = y \/ <<y, x>> \in Reaches
      BY DEF IInv, Components, Class, Mutual
    <3>. QED BY <2>1, <3>2, <3>3
  <2>. QED BY <1>2, <1>4, <2>2, <2>3 DEF Known
<1>. QED BY <1>3, <1>4

(* A rule of a relation reached so far, when tuples F join the tables and none
   of them belongs to a complete relation. *)
LEMMA Grows ==
  ASSUME IInv, FinalReads, NEW r \in rules, Text[r].head \in Known,
         NEW F, full \subseteq F, \A a \in F \ full : RelOf[a] \notin final
  PROVE  /\ Meets(r, Derived, base, full, full) \subseteq Meets(r, Derived, base, F, F)
         /\ Text[r].agg # "none" \/ Text[r].head \in final =>
              Meets(r, Derived, base, full, full) = Meets(r, Derived, base, F, F)
         /\ \A P : Meets(r, Derived, base, P, full) = Meets(r, Derived, base, P, F)
<1>1. r \in Rule
  BY DEF IInv, TypeOK
<1>2. ASSUME NEW i \in Text[r].insts, NEW k \in DOMAIN Text[r].body,
             Text[r].body[k].rel \in Derived,
             Text[r].body[k].neg \/ Text[r].agg # "none" \/ Text[r].head \in final
      PROVE  i.at[k] \in full <=> i.at[k] \in F
  <2>1. RelOf[i.at[k]] = Text[r].body[k].rel
    BY <1>1, InstanceShape
  <2>2. Text[r].body[k].rel \in final
    BY <1>2, ReadsKnown
  <2>. QED BY <2>1, <2>2
<1>3. ASSUME NEW i \in Meets(r, Derived, base, full, full)
      PROVE  i \in Meets(r, Derived, base, F, F)
  <2>1. i \in Text[r].insts
    BY DEF Meets
  <2>. QED BY <1>2, <2>1, MeetsMore
<1>4. ASSUME Text[r].agg # "none" \/ Text[r].head \in final
      PROVE  Meets(r, Derived, base, full, full) = Meets(r, Derived, base, F, F)
  <2>1. \A i \in Text[r].insts : \A k \in DOMAIN Text[r].body :
           Text[r].body[k].rel \in Derived => (i.at[k] \in full <=> i.at[k] \in F)
    BY <1>2, <1>4
  <2>. QED BY <2>1, MeetsSame
<1>5. ASSUME NEW P
      PROVE  Meets(r, Derived, base, P, full) = Meets(r, Derived, base, P, F)
  BY <1>2, MeetsSame
<1>. QED BY <1>3, <1>4, <1>5

(* More substitutions of a plain rule give no fewer heads. *)
LEMMA EmitsMore ==
  ASSUME NEW r, Text[r].agg = "none", NEW S, NEW T, S \subseteq T
  PROVE  Emits(r, S) \subseteq Emits(r, T)
BY DEF Emits

LEMMA EmitsPlain ==
  ASSUME NEW r, Text[r].agg = "none", NEW S
  PROVE  /\ \A i \in S : i.out[i.in] \in Emits(r, S)
         /\ \A a \in Emits(r, S) : \E i \in S : a = i.out[i.in]
BY DEF Emits

(* Tuples join the tables, and relations the ones reached so far: what a rule
   derives it still derives, and what is closed is closed for what was there. *)
GrowStep ==
  /\ rules' = rules /\ base' = base /\ final' = final /\ Known \subseteq Known'
  /\ full \subseteq full' /\ \A a \in full' \ full : RelOf[a] \notin final

LEMMA GrowKeeps ==
  ASSUME IInv, FinalReads, GrowStep
  PROVE  /\ \A r \in rules, a \in Atom : Gives(r, a) => Gives(r, a)'
         /\ \A r \in rules : Text[r].head \in Known =>
              /\ Derives(r) \subseteq Derives(r)'
              /\ Text[r].agg # "none" \/ Text[r].head \in final => Derives(r)' = Derives(r)
         /\ \A P : ClosedUnder(P)' => ClosedUnder(P)
<1>0. Derived' = Derived
  BY ProgramStays DEF GrowStep
<1>1. ASSUME NEW r \in rules, Text[r].head \in Known
      PROVE  /\ Meets(r, Derived, base, full, full) \subseteq Meets(r, Derived, base, full', full')
             /\ Text[r].agg # "none" \/ Text[r].head \in final =>
                  Meets(r, Derived, base, full, full) = Meets(r, Derived, base, full', full')
             /\ \A P : Meets(r, Derived, base, P, full) = Meets(r, Derived, base, P, full')
  BY <1>1, Grows DEF GrowStep
<1>2. ASSUME NEW r \in rules, Text[r].head \in Known
      PROVE  /\ Derives(r) \subseteq Derives(r)'
             /\ Text[r].agg # "none" \/ Text[r].head \in final => Derives(r)' = Derives(r)
  <2>1. Derives(r)' = Emits(r, Meets(r, Derived, base, full', full'))
    BY <1>0 DEF Derives, GrowStep
  <2>2. CASE Text[r].agg # "none" \/ Text[r].head \in final
    BY <1>1, <1>2, <2>1, <2>2 DEF Derives
  <2>3. CASE Text[r].agg = "none" /\ Text[r].head \notin final
    BY <1>1, <1>2, <2>1, <2>3, EmitsMore DEF Derives
  <2>. QED BY <2>2, <2>3
<1>3. \A r \in rules, a \in Atom : Gives(r, a) => Gives(r, a)'
  BY <1>2 DEF Gives, GrowStep
<1>4. ASSUME NEW P, ClosedUnder(P)'
      PROVE  ClosedUnder(P)
  <2>1. \A a \in base : RelOf[a] \in Known => a \in P
    BY <1>4 DEF ClosedUnder, GrowStep
  <2>2. ASSUME NEW r \in rules, Text[r].head \in Known
        PROVE  IF Text[r].agg = "none"
               THEN \A i \in Meets(r, Derived, base, P, full) : i.out[i.in] \in P
               ELSE Derives(r) \subseteq P
    <3>1. Text[r].head \in Known'
      BY <2>2 DEF GrowStep
    <3>2. r \in rules'
      BY DEF GrowStep
    <3>3. IF Text[r].agg = "none"
          THEN \A i \in Meets(r, Derived, base, P, full') : i.out[i.in] \in P
          ELSE Derives(r)' \subseteq P
      BY <1>0, <1>4, <3>1, <3>2 DEF ClosedUnder, GrowStep
    <3>4. CASE Text[r].agg = "none"
      BY <1>1, <2>2, <3>3, <3>4
    <3>5. CASE Text[r].agg # "none"
      BY <1>2, <2>2, <3>3, <3>5
    <3>. QED BY <3>4, <3>5
  <2>. QED BY <2>1, <2>2 DEF ClosedUnder
<1>. QED BY <1>2, <1>3, <1>4

-----------------------------------------------------------------------------
(* The tables step by step *)

LEMMA InitTable == Init => TableInv
<1>. SUFFICES ASSUME Init PROVE TableInv
  OBVIOUS
<1>1. /\ base = {} /\ full = {} /\ final = {} /\ comp = {} /\ todo = {} /\ ambiguous = {}
      /\ \A a \in Atom : fastRule[a] = None
  BY DEF Init
<1>2. FinalReads /\ TablesKnown /\ WorkPositions
  BY <1>1 DEF FinalReads, TablesKnown, WorkPositions
<1>3. Supported /\ RoundsDone /\ FinalDone
  BY <1>1 DEF Supported, RoundsDone, Producing, FinalDone
<1>4. NamesSound
  BY <1>1 DEF NamesSound
<1>. QED BY <1>2, <1>3, <1>4 DEF TableInv

(* Steps that leave the tables and the rounds alone. *)
LEMMA QuietStep ==
  ASSUME TableInv, rules' = rules,
         UNCHANGED <<base, full, final, comp, todo, marked, delta, fastRule, ambiguous>>,
         phase' \in {"stratify", "compiled"} => phase \in {"stratify", "compiled"}
  PROVE  TableInv'
<1>0. Derived' = Derived /\ Deps' = Deps
  BY ProgramStays
<1>1. Known' = Known /\ \A r : Derives(r)' = Derives(r) /\ RecPos(r)' = RecPos(r)
  BY <1>0 DEF Known, Derives, RecPos
<1>2. \A r, a : Noted(r, a)' = Noted(r, a) /\ Gives(r, a)' = Gives(r, a) /\ Pending(r, a)' = Pending(r, a)
  BY <1>1 DEF Noted, Gives, Pending
<1>3. \A P : ClosedUnder(P)' => ClosedUnder(P)
  BY <1>0, <1>1 DEF ClosedUnder
<1>4. FinalReads' /\ TablesKnown' /\ WorkPositions'
  BY <1>0, <1>1 DEF TableInv, FinalReads, TablesKnown, WorkPositions
<1>5. Supported'
  BY <1>3 DEF TableInv, Supported
<1>6. RoundsDone'
  BY <1>0, <1>1, <1>2 DEF TableInv, RoundsDone, Producing
<1>7. FinalDone' /\ NamesSound'
  BY <1>1, <1>2 DEF TableInv, FinalDone, NamesSound
<1>. QED BY <1>4, <1>5, <1>6, <1>7 DEF TableInv

(* Before the first query there is nothing in the tables. *)
LEMMA AssertStep ==
  ASSUME IInv, TableInv, NEW facts \in SUBSET Fact, Assert(facts)
  PROVE  TableInv'
<1>1. /\ phase = "compiled" /\ phase' \in {"failed", "ready"} /\ rules' = rules
      /\ UNCHANGED <<full, final, comp, todo, marked, delta, fastRule, ambiguous>>
  BY DEF Assert, loadVars, evalVars, ruleOfVars
<1>2. final = {} /\ comp = {} /\ todo = {} /\ Known = {}
  BY <1>1 DEF IInv, Work, TableInv, FinalReads, Known
<1>3. full = {}
  BY <1>2 DEF TableInv, TablesKnown
<1>4. \A a \in Atom : fastRule[a] = None /\ a \notin ambiguous
  BY <1>2 DEF TableInv, NamesSound, Gives
<1>5. FinalReads' /\ TablesKnown' /\ WorkPositions'
  BY <1>1, <1>2, <1>3 DEF FinalReads, TablesKnown, WorkPositions, Known
<1>6. Supported' /\ RoundsDone' /\ FinalDone'
  BY <1>1, <1>2, <1>3 DEF Supported, RoundsDone, Producing, FinalDone
<1>7. NamesSound'
  BY <1>1, <1>4 DEF NamesSound
<1>. QED BY <1>5, <1>6, <1>7 DEF TableInv

(* A fresh component brings the facts of its relations, and all its rules are
   still to be evaluated. *)
LEMMA StartStep ==
  ASSUME IInv, TableInv, NEW C \in cone, StartComponent(C), ~(C \subseteq final)
  PROVE  TableInv'
<1>1. /\ phase = "cone" /\ phase' = "rounds" /\ comp' = C /\ rules' = rules
      /\ full' = full \cup {a \in base : RelOf[a] \in C}
      /\ todo' = {<<r, 0>> : r \in {q \in rules : Text[q].head \in C}}
      /\ UNCHANGED <<base, final, fastRule, ambiguous>>
  BY DEF StartComponent, loadVars, ruleOfVars
<1>2. C \cap final = {} /\ comp = {}
  BY <1>1, FreshComponent DEF IInv, Work
<1>3. Known = final /\ Known' = final \cup C
  BY <1>1, <1>2 DEF Known
<1>4. GrowStep
  BY <1>1, <1>2, <1>3 DEF GrowStep
<1>5. Derived' = Derived /\ Deps' = Deps
  BY <1>1, ProgramStays
<1>6. /\ \A r \in rules, a \in Atom : Gives(r, a) => Gives(r, a)'
      /\ \A r \in rules : Text[r].head \in final => Derives(r)' = Derives(r)
      /\ \A P : ClosedUnder(P)' => ClosedUnder(P)
  BY <1>3, <1>4, GrowKeeps DEF TableInv
<1>7. FinalReads' /\ TablesKnown' /\ WorkPositions'
  BY <1>1, <1>3, <1>5 DEF TableInv, FinalReads, TablesKnown, WorkPositions
<1>8. Supported'
  <2>1. ASSUME NEW P \in SUBSET Atom, ClosedUnder(P)'
        PROVE  full' \subseteq P
    <3>1. full \subseteq P
      BY <1>6, <2>1 DEF TableInv, Supported
    <3>2. \A a \in base : RelOf[a] \in C => a \in P
      BY <1>1, <1>3, <2>1 DEF ClosedUnder
    <3>. QED BY <1>1, <3>1, <3>2
  <2>. QED BY <2>1 DEF Supported
<1>9. RoundsDone'
  <2>1. \A r \in Producing' : <<r, 0>> \in todo'
    BY <1>1 DEF Producing
  <2>2. \A r \in Producing' : \A i : Pending(r, i)'
    BY <2>1 DEF Pending
  <2>. QED BY <2>1, <2>2 DEF RoundsDone
<1>10. FinalDone'
  <2>1. \A r, a : Noted(r, a) => Noted(r, a)'
    BY <1>1 DEF Noted
  <2>. QED BY <1>1, <1>6, <2>1 DEF TableInv, FinalDone
<1>11. NamesSound'
  <2>1. ASSUME NEW a \in Atom
        PROVE  /\ fastRule[a] # None => \E r \in rules : Gives(r, a)' /\ Text[r].name = fastRule[a]
               /\ a \in ambiguous =>
                    /\ fastRule[a] = None
                    /\ \E r, q \in rules : Gives(r, a)' /\ Gives(q, a)' /\ Text[r].name # Text[q].name
    BY <1>6 DEF TableInv, NamesSound
  <2>. QED BY <1>1, <2>1 DEF NamesSound
<1>. QED BY <1>7, <1>8, <1>9, <1>10, <1>11 DEF TableInv

(* What a rule derives are atoms of its head. *)
LEMMA DerivesShape ==
  ASSUME NEW r \in Rule, NEW a \in Derives(r)
  PROVE  a \in Atom /\ RelOf[a] = Text[r].head
<1>1. Meets(r, Derived, base, full, full) \in SUBSET Text[r].insts
  BY DEF Meets
<1>. QED BY <1>1, EmitsShape DEF Derives

(* The substitutions an aggregate rule is evaluated for are all there are: it
   reads no relation of its own component. *)
LEMMA AggregateReads ==
  ASSUME IInv, FinalReads, NEW r \in rules, Text[r].head \in Known, Text[r].agg # "none"
  PROVE  RecPos(r) = {}
<1>. SUFFICES ASSUME NEW k \in RecPos(r) PROVE FALSE
  OBVIOUS
<1>1. k \in DOMAIN Text[r].body /\ Text[r].body[k].rel \in comp
  BY DEF RecPos
<1>2. Text[r].body[k].rel \in Derived
  BY <1>1 DEF IInv, TypeOK
<1>3. Text[r].body[k].rel \in final
  BY <1>1, <1>2, ReadsKnown
<1>. QED BY <1>1, <1>3 DEF IInv, Components

(* What evaluating a rule emits: tuples the rule derives, all of them for an
   aggregate rule and for round 0, and those of the delta otherwise. *)
LEMMA WorkEmits ==
  ASSUME IInv, TableInv, NEW w \in todo, NEW heads, heads = Emits(w[1], Sat(w[1], w[2]))
  PROVE  /\ w[1] \in rules /\ w[1] \in Rule /\ Text[w[1]].head \in comp
         /\ \A a \in heads : a \in Atom /\ RelOf[a] = Text[w[1]].head
         /\ Sat(w[1], w[2]) \subseteq Meets(w[1], Derived, base, full, full)
         /\ heads \subseteq Derives(w[1])
         /\ Text[w[1]].agg # "none" => heads = Derives(w[1])
         /\ w[2] = 0 => heads = Derives(w[1])
<1>. DEFINE r == w[1]
            S == Sat(r, w[2])
<1>1. r \in rules /\ r \in Rule /\ Text[r].head \in comp
  BY DEF IInv, TypeOK, Work
<1>2. w[2] = 0 \/ w[2] \in RecPos(r)
  BY DEF TableInv, WorkPositions
<1>3. S \subseteq Meets(r, Derived, base, full, full)
  BY <1>1, <1>2, SatWithin DEF IInv
<1>4. S \in SUBSET Text[r].insts
  BY DEF Sat
<1>5. \A a \in heads : a \in Atom /\ RelOf[a] = Text[r].head
  BY <1>1, <1>4, EmitsShape
<1>6. ASSUME w[2] = 0 PROVE heads = Derives(r)
  BY <1>1, <1>6, SatIsMeets DEF Derives
<1>7. ASSUME Text[r].agg # "none" PROVE heads = Derives(r)
  <2>1. RecPos(r) = {}
    BY <1>1, <1>7, AggregateReads DEF TableInv, Known
  <2>. QED BY <1>2, <1>6, <2>1
<1>8. heads \subseteq Derives(r)
  <2>1. CASE Text[r].agg # "none"
    BY <1>7, <2>1
  <2>2. CASE Text[r].agg = "none"
    BY <1>3, <2>2, EmitsMore DEF Derives
  <2>. QED BY <2>1, <2>2
<1>. QED BY <1>1, <1>3, <1>5, <1>6, <1>7, <1>8

(* record notes a name for every head, and forgets none. *)
LEMMA RecordNotes ==
  ASSUME NEW r \in Rule, NEW heads, Record(Text[r].name, heads), heads \subseteq Atom
  PROVE  /\ \A a \in heads : Noted(r, a)'
         /\ \A q \in Rule, a \in Atom : Noted(q, a) => Noted(q, a)'
<1>. DEFINE name == Text[r].name
<1>1. \A q \in Rule : Text[q].name # None
  BY DatalogAssumption DEF RuleShape
<1>2. /\ full' = full \cup heads
      /\ ambiguous' = ambiguous \cup {a \in heads : fastRule[a] \notin {None, name}}
      /\ fastRule' = [a \in Atom |->
           IF a \notin heads \/ a \in ambiguous THEN fastRule[a]
           ELSE IF fastRule[a] \in {None, name} THEN name ELSE None]
  BY DEF Record
<1>3. ASSUME NEW a \in heads PROVE Noted(r, a)'
  <2>1. CASE a \in ambiguous \/ fastRule[a] \notin {None, name}
    BY <1>2, <2>1 DEF Noted
  <2>2. CASE a \notin ambiguous /\ fastRule[a] \in {None, name}
    BY <1>2, <2>2 DEF Noted
  <2>. QED BY <2>1, <2>2
<1>4. ASSUME NEW q \in Rule, NEW a \in Atom, Noted(q, a) PROVE Noted(q, a)'
  <2>1. CASE a \in ambiguous
    BY <1>2, <1>4, <2>1 DEF Noted
  <2>2. CASE a \notin ambiguous
    <3>1. fastRule[a] = Text[q].name /\ fastRule[a] # None /\ a \in full
      BY <1>1, <1>4, <2>2 DEF Noted
    <3>2. CASE a \notin heads
      BY <1>2, <3>1, <3>2 DEF Noted
    <3>3. CASE a \in heads /\ fastRule[a] = name
      BY <1>2, <2>2, <3>1, <3>3 DEF Noted
    <3>4. CASE a \in heads /\ fastRule[a] # name
      BY <1>2, <3>1, <3>4 DEF Noted
    <3>. QED BY <3>2, <3>3, <3>4
  <2>. QED BY <2>1, <2>2
<1>. QED BY <1>3, <1>4

(* The names record keeps are names of rules that derive the tuple. *)
LEMMA RecordNames ==
  ASSUME NamesSound, NEW r \in rules, NEW heads, Record(Text[r].name, heads), rules' = rules,
         \A q \in rules, a \in Atom : Gives(q, a) => Gives(q, a)',
         \A a \in heads : a \in Atom /\ Gives(r, a)'
  PROVE  NamesSound'
<1>. DEFINE name == Text[r].name
<1>1. /\ ambiguous' = ambiguous \cup {a \in heads : fastRule[a] \notin {None, name}}
      /\ fastRule' = [a \in Atom |->
           IF a \notin heads \/ a \in ambiguous THEN fastRule[a]
           ELSE IF fastRule[a] \in {None, name} THEN name ELSE None]
  BY DEF Record
<1>2. ASSUME NEW a \in Atom
      PROVE  /\ fastRule'[a] # None => \E q \in rules : Gives(q, a)' /\ Text[q].name = fastRule'[a]
             /\ a \in ambiguous' =>
                  /\ fastRule'[a] = None
                  /\ \E p, q \in rules : Gives(p, a)' /\ Gives(q, a)' /\ Text[p].name # Text[q].name
  <2>1. fastRule[a] # None => \E q \in rules : Gives(q, a)' /\ Text[q].name = fastRule[a]
    BY DEF NamesSound
  <2>2. a \in ambiguous =>
          /\ fastRule[a] = None
          /\ \E p, q \in rules : Gives(p, a)' /\ Gives(q, a)' /\ Text[p].name # Text[q].name
    BY DEF NamesSound
  <2>3. CASE a \notin heads \/ a \in ambiguous
    <3>1. fastRule'[a] = fastRule[a] /\ (a \in ambiguous' <=> a \in ambiguous)
      <4>1. a \in ambiguous => fastRule[a] = None
        BY <2>2
      <4>. QED BY <1>1, <2>3, <4>1
    <3>. QED BY <2>1, <2>2, <3>1
  <2>4. CASE a \in heads /\ a \notin ambiguous /\ fastRule[a] \in {None, name}
    <3>1. fastRule'[a] = name /\ a \notin ambiguous' /\ Gives(r, a)'
      BY <1>1, <2>4
    <3>. QED BY <3>1
  <2>5. CASE a \in heads /\ a \notin ambiguous /\ fastRule[a] \notin {None, name}
    <3>1. fastRule'[a] = None /\ Gives(r, a)'
      BY <1>1, <2>5
    <3>2. PICK q \in rules : Gives(q, a)' /\ Text[q].name = fastRule[a]
      BY <2>1, <2>5
    <3>3. Text[r].name # Text[q].name
      BY <2>5, <3>2
    <3>. QED BY <3>1, <3>2, <3>3
  <2>. QED BY <2>3, <2>4, <2>5
<1>. QED BY <1>2 DEF NamesSound

(* An instance that holds once tuples joined the tables, and whose recursive
   literals were there at the mark, held before. *)
LEMMA HeldBefore ==
  ASSUME IInv, FinalReads, NEW r \in rules, Text[r].head \in Known,
         NEW F, full \subseteq F, \A a \in F \ full : RelOf[a] \notin final,
         NEW i \in Meets(r, Derived, base, F, F), \A k \in RecPos(r) : i.at[k] \in marked
  PROVE  i \in Meets(r, Derived, base, full, full)
<1>1. r \in Rule /\ i \in Text[r].insts /\ marked \subseteq full
  BY DEF IInv, TypeOK, Meets
<1>2. ASSUME NEW k \in DOMAIN Text[r].body, Text[r].body[k].rel \in Derived
      PROVE  /\ Text[r].body[k].neg => (i.at[k] \in F <=> i.at[k] \in full)
             /\ ~Text[r].body[k].neg => (i.at[k] \in F => i.at[k] \in full)
  <2>1. RelOf[i.at[k]] = Text[r].body[k].rel
    BY <1>1, InstanceShape
  <2>2. Text[r].body[k].rel \in Known
          /\ (Text[r].body[k].neg => Text[r].body[k].rel \in final)
    BY <1>2, ReadsKnown
  <2>3. CASE Text[r].body[k].rel \in final
    BY <2>1, <2>3
  <2>4. CASE Text[r].body[k].rel \notin final
    <3>1. ~Text[r].body[k].neg /\ Text[r].body[k].rel \in comp
      BY <2>2, <2>4 DEF Known
    <3>2. k \in RecPos(r)
      BY <3>1 DEF RecPos
    <3>. QED BY <1>1, <3>1, <3>2
  <2>. QED BY <2>3, <2>4
<1>. QED BY <1>2, MeetsMore

(* The delta position of a rule finds the instances the delta is part of. *)
LEMMA DeltaFinds ==
  ASSUME NEW r \in Rule, NEW k \in RecPos(r),
         NEW i \in Meets(r, Derived, base, full, full), i.at[k] \in delta
  PROVE  i \in Sat(r, k)
<1>1. i \in Sat(r, 0)
  BY SatIsMeets
<1>2. \A n \in DOMAIN Text[r].body : n # 0
  BY InstanceShape DEF Meets
<1>. QED BY <1>1, <1>2 DEF Sat, RecPos

(* Evaluating a rule derives what it was there for, and no more. *)
LEMMA EvalStep ==
  ASSUME IInv, TableInv, NEW w \in todo, EvalRule(w)
  PROVE  TableInv'
<1>. DEFINE r == w[1]
            heads == Emits(r, Sat(r, w[2]))
<1>1. /\ Record(Text[r].name, heads) /\ rules' = rules
      /\ todo' = todo \/ todo' = todo \ {w}
      /\ phase = "rounds" /\ phase' \in {"rounds", "failed"}
      /\ UNCHANGED <<base, final, comp, marked, delta>>
  BY DEF EvalRule, loadVars
<1>2. /\ r \in rules /\ r \in Rule /\ Text[r].head \in comp
      /\ \A a \in heads : a \in Atom /\ RelOf[a] = Text[r].head
      /\ Sat(r, w[2]) \subseteq Meets(r, Derived, base, full, full)
      /\ heads \subseteq Derives(r)
      /\ Text[r].agg # "none" => heads = Derives(r)
      /\ w[2] = 0 => heads = Derives(r)
  BY WorkEmits
<1>. HIDE DEF heads
<1>3. full' = full \cup heads
  BY <1>1 DEF Record
<1>4. rules \subseteq Rule /\ heads \subseteq Atom /\ comp \cap final = {}
  BY <1>2 DEF IInv, TypeOK, Components
<1>5. Known' = Known /\ Producing' = Producing /\ \A q : RecPos(q)' = RecPos(q)
  BY <1>1 DEF Known, Producing, RecPos
<1>6. \A a \in full' \ full : RelOf[a] \notin final
  BY <1>2, <1>3, <1>4
<1>7. GrowStep
  BY <1>1, <1>3, <1>5, <1>6 DEF GrowStep
<1>8. /\ \A q \in rules, a \in Atom : Gives(q, a) => Gives(q, a)'
      /\ \A q \in rules : Text[q].head \in Known =>
           /\ Derives(q) \subseteq Derives(q)'
           /\ Text[q].agg # "none" \/ Text[q].head \in final => Derives(q)' = Derives(q)
      /\ \A P : ClosedUnder(P)' => ClosedUnder(P)
  BY <1>7, GrowKeeps DEF TableInv
<1>9. /\ \A a \in heads : Noted(r, a)'
      /\ \A q \in Rule, a \in Atom : Noted(q, a) => Noted(q, a)'
  BY <1>1, <1>2, <1>4, RecordNotes
<1>10. Derived' = Derived /\ Deps' = Deps
  BY <1>1, ProgramStays
<1>11. FinalReads' /\ TablesKnown' /\ WorkPositions'
  <2>1. FinalReads'
    BY <1>1, <1>10 DEF TableInv, FinalReads
  <2>2. TablesKnown'
    BY <1>1, <1>2, <1>3, <1>5 DEF TableInv, TablesKnown, Known
  <2>3. WorkPositions'
    BY <1>1, <1>5 DEF TableInv, WorkPositions
  <2>. QED BY <2>1, <2>2, <2>3
<1>12. Supported'
  <2>1. ASSUME NEW P \in SUBSET Atom, ClosedUnder(P)'
        PROVE  full' \subseteq P
    <3>1. ClosedUnder(P) /\ full \subseteq P
      BY <1>8, <2>1 DEF TableInv, Supported
    <3>2. Text[r].head \in Known
      BY <1>2 DEF Known
    <3>3. CASE Text[r].agg # "none"
      BY <1>2, <1>3, <3>1, <3>2, <3>3 DEF ClosedUnder
    <3>4. CASE Text[r].agg = "none"
      <4>1. ASSUME NEW a \in heads PROVE a \in P
        <5>1. PICK i \in Sat(r, w[2]) : a = i.out[i.in]
          BY <3>4, EmitsPlain DEF heads
        <5>2. i \in Meets(r, Derived, base, full, full)
          BY <1>2
        <5>3. i \in Meets(r, Derived, base, P, full)
          BY <3>1, <5>2, MeetsMore
        <5>. QED BY <1>2, <3>1, <3>2, <3>4, <5>1, <5>3 DEF ClosedUnder
      <4>. QED BY <1>3, <3>1, <4>1
    <3>. QED BY <3>3, <3>4
  <2>. QED BY <2>1 DEF Supported
<1>13. RoundsDone'
  <2>1. ASSUME NEW q \in Producing, Text[q].agg = "none",
               NEW i \in Meets(q, Derived, base, full', full'),
               \A k \in RecPos(q) : i.at[k] \in marked
        PROVE  Noted(q, i.out[i.in])' \/ Pending(q, i)'
    <3>1. q \in rules /\ q \in Rule /\ Text[q].head \in Known
      BY <1>4 DEF Producing, Known
    <3>2. i \in Meets(q, Derived, base, full, full)
      BY <1>3, <1>6, <2>1, <3>1, HeldBefore DEF TableInv
    <3>3. i.out[i.in] \in Derives(q)
      BY <2>1, <3>2, EmitsPlain DEF Derives
    <3>4. i.out[i.in] \in Atom
      BY <3>1, <3>3, DerivesShape
    <3>5. CASE Noted(q, i.out[i.in])
      BY <1>9, <3>1, <3>4, <3>5
    <3>6. CASE <<q, 0>> \in todo
      <4>1. CASE w = <<q, 0>>
        <5>1. r = q /\ w[2] = 0
          BY <4>1
        <5>. QED BY <1>2, <1>9, <3>3, <5>1
      <4>2. CASE w # <<q, 0>>
        BY <1>1, <3>6, <4>2 DEF Pending
      <4>. QED BY <4>1, <4>2
    <3>7. ASSUME NEW k \in RecPos(q), <<q, k>> \in todo, i.at[k] \in delta
          PROVE  Noted(q, i.out[i.in])' \/ Pending(q, i)'
      <4>1. CASE w = <<q, k>>
        <5>1. r = q /\ w[2] = k
          BY <4>1
        <5>2. i \in Sat(r, w[2])
          BY <3>1, <3>2, <3>7, <5>1, DeltaFinds
        <5>3. i.out[i.in] \in heads
          BY <2>1, <5>1, <5>2, EmitsPlain DEF heads
        <5>. QED BY <1>9, <5>1, <5>3
      <4>2. CASE w # <<q, k>>
        BY <1>1, <1>5, <3>7, <4>2 DEF Pending
      <4>. QED BY <4>1, <4>2
    <3>. QED BY <2>1, <3>2, <3>5, <3>6, <3>7 DEF TableInv, RoundsDone, Pending
  <2>2. ASSUME NEW q \in Producing, Text[q].agg # "none", <<q, 0>> \notin todo'
        PROVE  \A a \in Derives(q)' : Noted(q, a)'
    <3>1. q \in rules /\ q \in Rule /\ Text[q].head \in Known
      BY <1>4 DEF Producing, Known
    <3>2. Derives(q)' = Derives(q)
      BY <1>8, <2>2, <3>1
    <3>3. CASE w = <<q, 0>>
      <4>1. r = q /\ w[2] = 0
        BY <3>3
      <4>. QED BY <1>2, <1>9, <3>2, <4>1
    <3>4. CASE w # <<q, 0>>
      <4>1. <<q, 0>> \notin todo
        BY <1>1, <2>2, <3>4
      <4>2. \A a \in Derives(q) : Noted(q, a)
        BY <2>2, <4>1 DEF TableInv, RoundsDone
      <4>3. Derives(q) \subseteq Atom
        BY <3>1, DerivesShape
      <4>. QED BY <1>9, <3>1, <3>2, <4>2, <4>3
    <3>. QED BY <3>3, <3>4
  <2>. QED BY <1>1, <1>5, <1>10, <2>1, <2>2 DEF RoundsDone
<1>14. FinalDone'
  <2>1. ASSUME NEW q \in rules, Text[q].head \in final, NEW a \in Derives(q)'
        PROVE  Noted(q, a)'
    <3>1. a \in Derives(q)
      BY <1>8, <2>1 DEF Known
    <3>2. a \in Atom
      BY <1>4, <3>1, DerivesShape
    <3>3. Noted(q, a)
      BY <2>1, <3>1 DEF TableInv, FinalDone
    <3>. QED BY <1>4, <1>9, <3>2, <3>3
  <2>. QED BY <1>1, <2>1 DEF FinalDone
<1>15. NamesSound'
  <2>1. \A a \in heads : a \in Atom /\ Gives(r, a)'
    BY <1>2, <1>5, <1>8 DEF Gives, Known
  <2>. QED BY <1>1, <1>2, <1>8, <2>1, RecordNames DEF TableInv
<1>. QED BY <1>11, <1>12, <1>13, <1>14, <1>15 DEF TableInv

(* The last round found nothing its rules have not derived: the component has
   every tuple its rules derive from the tables. *)
LEMMA CompleteStep ==
  ASSUME IInv, TableInv, rules' = rules, Complete, UNCHANGED <<base, full, fastRule, ambiguous>>,
         todo = {}, ~Recursive \/ Grown = {}
  PROVE  TableInv'
<1>1. final' = final \cup comp /\ comp' = {} /\ phase' = "cone" /\ todo' = {}
  BY DEF Complete
<1>2. Known' = Known /\ Derived' = Derived /\ Deps' = Deps
  BY <1>1, ProgramStays DEF Known
<1>3. \A r : Derives(r)' = Derives(r)
  BY <1>2 DEF Derives
<1>4. \A r, a : Noted(r, a)' = Noted(r, a) /\ Gives(r, a)' = Gives(r, a)
  BY <1>2, <1>3 DEF Noted, Gives
<1>5. \A P : ClosedUnder(P)' => ClosedUnder(P)
  BY <1>2, <1>3 DEF ClosedUnder
<1>6. FinalReads' /\ TablesKnown' /\ WorkPositions'
  BY <1>1, <1>2 DEF IInv, ConeReads, TableInv, FinalReads, TablesKnown, WorkPositions
<1>7. Supported' /\ RoundsDone' /\ NamesSound'
  <2>1. Supported'
    BY <1>5 DEF TableInv, Supported
  <2>2. RoundsDone'
    BY <1>1 DEF RoundsDone, Producing
  <2>3. NamesSound'
    BY <1>4 DEF TableInv, NamesSound
  <2>. QED BY <2>1, <2>2, <2>3
<1>8. ASSUME NEW r \in rules, Text[r].head \in comp, NEW a \in Derives(r)
      PROVE  Noted(r, a)
  <2>1. r \in Producing /\ \A i : ~Pending(r, i)
    BY <1>8 DEF Producing, Pending
  <2>2. CASE Text[r].agg # "none"
    BY <2>1, <2>2 DEF TableInv, RoundsDone
  <2>3. CASE Text[r].agg = "none"
    <3>1. PICK i \in Meets(r, Derived, base, full, full) : a = i.out[i.in]
      BY <2>3, EmitsPlain DEF Derives
    <3>2. ASSUME NEW k \in RecPos(r) PROVE i.at[k] \in marked
      <4>1. k \in DOMAIN Text[r].body /\ ~Text[r].body[k].neg /\ Text[r].body[k].rel \in comp
        BY DEF RecPos
      <4>2. Grown = {}
        BY <2>1 DEF Recursive
      <4>3. i \in Text[r].insts /\ i.at[k] \in full
        BY <4>1 DEF IInv, TypeOK, Meets
      <4>4. RelOf[i.at[k]] \in comp
        BY <4>1, <4>3, InstanceShape DEF IInv, TypeOK
      <4>. QED BY <4>2, <4>3, <4>4 DEF Grown
    <3>. QED BY <2>1, <2>3, <3>1, <3>2 DEF TableInv, RoundsDone
  <2>. QED BY <2>2, <2>3
<1>9. FinalDone'
  BY <1>1, <1>3, <1>4, <1>8 DEF TableInv, FinalDone
<1>. QED BY <1>6, <1>7, <1>9 DEF TableInv

(* Between two rounds: an instance that uses a tuple of the last round meets it
   in the next round's delta. *)
LEMMA RoundStep ==
  ASSUME IInv, TableInv, rules' = rules, NextRound,
         UNCHANGED <<base, full, fastRule, ambiguous>>, todo = {}
  PROVE  TableInv'
<1>1. /\ UNCHANGED <<final, comp, phase>> /\ delta' = Grown /\ marked' = full
      /\ todo' = UNION {{<<r, k>> : k \in RecPos(r)} : r \in Producing}
  BY DEF NextRound
<1>2. Known' = Known /\ Derived' = Derived /\ Deps' = Deps /\ Producing' = Producing
        /\ \A r : RecPos(r)' = RecPos(r)
  BY <1>1, ProgramStays DEF Known, Producing, RecPos
<1>3. \A r : Derives(r)' = Derives(r)
  BY <1>2 DEF Derives
<1>4. \A r, a : Noted(r, a)' = Noted(r, a) /\ Gives(r, a)' = Gives(r, a)
  BY <1>2, <1>3 DEF Noted, Gives
<1>5. \A P : ClosedUnder(P)' => ClosedUnder(P)
  BY <1>2, <1>3 DEF ClosedUnder
<1>6. FinalReads' /\ TablesKnown' /\ FinalDone'
  BY <1>1, <1>2, <1>3, <1>4 DEF TableInv, FinalReads, TablesKnown, FinalDone
<1>7. Supported' /\ NamesSound'
  <2>1. Supported'
    BY <1>5 DEF TableInv, Supported
  <2>2. NamesSound'
    BY <1>4 DEF TableInv, NamesSound
  <2>. QED BY <2>1, <2>2
<1>8. WorkPositions'
  BY <1>1, <1>2 DEF WorkPositions
<1>9. \A r, i : ~Pending(r, i)
  BY DEF Pending
<1>10. ASSUME NEW r \in Producing, Text[r].agg = "none",
              NEW i \in Meets(r, Derived, base, full, full)
       PROVE  Noted(r, i.out[i.in])' \/ Pending(r, i)'
  <2>1. CASE \A k \in RecPos(r) : i.at[k] \in marked
    BY <1>4, <1>9, <1>10, <2>1 DEF TableInv, RoundsDone
  <2>2. ASSUME NEW k \in RecPos(r), i.at[k] \notin marked
        PROVE  Pending(r, i)'
    <3>1. k \in DOMAIN Text[r].body /\ ~Text[r].body[k].neg /\ Text[r].body[k].rel \in comp
      BY DEF RecPos
    <3>2. i \in Text[r].insts /\ i.at[k] \in full
      BY <3>1 DEF IInv, TypeOK, Meets
    <3>3. RelOf[i.at[k]] \in comp
      BY <3>1, <3>2, InstanceShape DEF IInv, TypeOK, Producing
    <3>4. i.at[k] \in delta'
      BY <1>1, <2>2, <3>2, <3>3 DEF Grown
    <3>5. <<r, k>> \in todo'
      BY <1>1
    <3>. QED BY <1>2, <3>4, <3>5 DEF Pending
  <2>. QED BY <2>1, <2>2
<1>11. ASSUME NEW r \in Producing, Text[r].agg # "none"
       PROVE  \A a \in Derives(r)' : Noted(r, a)'
  BY <1>3, <1>4, <1>11 DEF TableInv, RoundsDone
<1>12. RoundsDone'
  BY <1>2, <1>10, <1>11 DEF RoundsDone
<1>. QED BY <1>6, <1>7, <1>8, <1>12 DEF TableInv

LEMMA StepTable ==
  ASSUME IInv, TableInv, [Next]_vars
  PROVE  TableInv'
<1>0. rules' = rules
  BY RulesStay
<1>1. ASSUME NEW d \in reads, Relax(d) PROVE TableInv'
  BY <1>0, <1>1, QuietStep DEF Relax, evalVars, ruleOfVars
<1>2. CASE EndStratifyRound
  BY <1>0, <1>2, QuietStep DEF EndStratifyRound, evalVars, ruleOfVars
<1>3. ASSUME NEW facts \in SUBSET Fact, Assert(facts) PROVE TableInv'
  BY <1>3, AssertStep
<1>4. ASSUME NEW g \in Rel, Query(g) PROVE TableInv'
  <2>1. phase' \notin {"stratify", "compiled"}
    BY <1>4 DEF Query
  <2>. QED BY <1>0, <1>4, <2>1, QuietStep DEF Query, evalVars, ruleOfVars
<1>5. ASSUME NEW C \in cone, StartComponent(C) PROVE TableInv'
  <2>1. CASE C \subseteq final
    BY <1>0, <1>5, <2>1, QuietStep DEF StartComponent, ruleOfVars
  <2>2. CASE ~(C \subseteq final)
    BY <1>5, <2>2, StartStep
  <2>. QED BY <2>1, <2>2
<1>6. ASSUME NEW w \in todo, EvalRule(w) PROVE TableInv'
  BY <1>6, EvalStep
<1>7. CASE EndRound
  <2>1. todo = {} /\ UNCHANGED <<base, full, fastRule, ambiguous>>
    BY <1>7 DEF EndRound, ruleOfVars
  <2>2. CASE ~Recursive \/ Grown = {}
    <3>1. Complete
      BY <1>7, <2>2 DEF EndRound
    <3>. QED BY <1>0, <2>1, <2>2, <3>1, CompleteStep
  <2>3. CASE ~(~Recursive \/ Grown = {})
    <3>1. \/ NextRound
          \/ phase' = "failed" /\ UNCHANGED <<round, final, comp, todo, marked, delta>>
      BY <1>7, <2>3 DEF EndRound
    <3>2. CASE NextRound
      BY <1>0, <2>1, <3>2, RoundStep
    <3>3. CASE phase' = "failed" /\ UNCHANGED <<round, final, comp, todo, marked, delta>>
      BY <1>0, <2>1, <3>3, QuietStep
    <3>. QED BY <3>1, <3>2, <3>3
  <2>. QED BY <2>2, <2>3
<1>8. CASE Answer
  BY <1>0, <1>8, QuietStep DEF Answer, evalVars, ruleOfVars
<1>9. CASE UNCHANGED vars
  BY <1>0, <1>9, QuietStep DEF vars, evalVars, ruleOfVars
<1>. QED BY <1>1, <1>2, <1>3, <1>4, <1>5, <1>6, <1>7, <1>8, <1>9 DEF Next

(* What the invariant says when a query has ended. *)
LEMMA TableGivesModel ==
  ASSUME IInv, TableInv
  PROVE  StableModel
<1>. SUFFICES ASSUME phase = "ready"
              PROVE  /\ ClosedIn(Final, Final)
                     /\ \A P \in SUBSET Final : ClosedIn(P, Final) => P = Final
  BY DEF StableModel
<1>1. comp = {} /\ Known = final
  BY DEF IInv, Work, Known
<1>2. Final = full
  BY <1>1 DEF Final, TableInv, TablesKnown
<1>3. full \subseteq Atom
  BY DEF IInv, TypeOK
<1>4. ClosedIn(full, full)
  <2>1. {a \in base : RelOf[a] \in final} \subseteq full
    BY <1>1 DEF TableInv, TablesKnown
  <2>2. ASSUME NEW r \in rules, Text[r].head \in final
        PROVE  Emits(r, SatIn(r, IF Text[r].agg = "none" THEN full ELSE full, full)) \subseteq full
    <3>1. Derives(r) \subseteq full
      BY <2>2 DEF TableInv, FinalDone, Noted
    <3>2. Derives(r) = Emits(r, SatIn(r, full, full))
      BY SatInMeets DEF Derives
    <3>3. (IF Text[r].agg = "none" THEN full ELSE full) = full
      OBVIOUS
    <3>. QED BY <3>1, <3>2, <3>3
  <2>. QED BY <2>1, <2>2 DEF ClosedIn
<1>5. ASSUME NEW P \in SUBSET full, ClosedIn(P, full)
      PROVE  P = full
  <2>1. \A a \in base : RelOf[a] \in Known => a \in P
    BY <1>1, <1>5 DEF ClosedIn
  <2>2. ASSUME NEW r \in rules, Text[r].head \in Known
        PROVE  IF Text[r].agg = "none"
               THEN \A i \in Meets(r, Derived, base, P, full) : i.out[i.in] \in P
               ELSE Derives(r) \subseteq P
    <3>1. Emits(r, SatIn(r, IF Text[r].agg = "none" THEN P ELSE full, full)) \subseteq P
      BY <1>1, <1>5, <2>2 DEF ClosedIn
    <3>2. CASE Text[r].agg = "none"
      <4>1. Emits(r, Meets(r, Derived, base, P, full)) \subseteq P
        BY <3>1, <3>2, SatInMeets
      <4>. QED BY <3>2, <4>1, EmitsPlain
    <3>3. CASE Text[r].agg # "none"
      BY <3>1, <3>3, SatInMeets DEF Derives
    <3>. QED BY <3>2, <3>3
  <2>3. ClosedUnder(P)
    BY <2>1, <2>2 DEF ClosedUnder
  <2>. QED BY <1>3, <2>3 DEF TableInv, Supported
<1>. QED BY <1>2, <1>4, <1>5

LEMMA TableGivesNames ==
  ASSUME IInv, TableInv, IsFiniteSet(rules)
  PROVE  RuleOfExact
<1>. SUFFICES ASSUME phase = "ready", NEW a \in Final
              PROVE  IF Cardinality(RuleNames(a)) = 1 THEN RuleNames(a) = {RuleOf(a)}
                     ELSE RuleOf(a) = None
  BY Zenon DEF RuleOfExact
<1>. DEFINE giving == {q \in rules : Gives(q, a)}
            names == RuleNames(a)
<1>1. a \in full /\ a \in Atom /\ RelOf[a] \in final /\ final \subseteq Known
  BY DEF Final, IInv, TypeOK, Known
<1>2. names = {Text[r].name : r \in giving}
  <2>1. \A q \in rules : Gives(q, a) <=> Text[q].head = RelOf[a] /\ a \in Emits(q, SatIn(q, full, full))
    BY <1>1, SatInMeets DEF Gives, Derives
  <2>. QED BY <2>1 DEF RuleNames
<1>3. IsFiniteSet(names)
  <2>1. IsFiniteSet(giving)
    BY FS_Subset
  <2>2. [r \in giving |-> Text[r].name] \in Surjection(giving, names)
    BY <1>2 DEF Surjection
  <2>. QED BY <2>1, <2>2, FS_Surjection
<1>. HIDE DEF names
<1>4. ASSUME NEW n \in names PROVE a \in ambiguous \/ fastRule[a] = n
  BY <1>1, <1>2 DEF Gives, TableInv, FinalDone, Noted
<1>5. fastRule[a] # None => fastRule[a] \in names
  BY <1>1, <1>2 DEF TableInv, NamesSound
<1>6. a \in ambiguous => \E m, n \in names : m # n
  <2>. HAVE a \in ambiguous
  <2>1. PICK r, q \in rules : Gives(r, a) /\ Gives(q, a) /\ Text[r].name # Text[q].name
    BY <1>1 DEF TableInv, NamesSound
  <2>2. Text[r].name \in names /\ Text[q].name \in names
    BY <1>2, <2>1
  <2>. QED BY <2>1, <2>2
<1>7. None \notin names
  BY <1>2, DatalogAssumption DEF IInv, TypeOK, RuleShape
<1>8. CASE Cardinality(names) = 1
  <2>1. PICK n : names = {n}
    BY <1>3, <1>8, FS_Singleton
  <2>2. a \notin ambiguous /\ fastRule[a] = n
    BY <1>4, <1>6, <2>1
  <2>. QED BY <1>8, <2>1, <2>2 DEF RuleOf, names
<1>9. CASE Cardinality(names) # 1
  <2>1. \A n : names # {n}
    BY <1>9, FS_Singleton
  <2>2. a \in ambiguous \/ fastRule[a] = None
    BY <1>4, <1>5, <2>1
  <2>. QED BY <1>9, <2>2 DEF RuleOf, names
<1>. QED BY <1>8, <1>9

(* The tables invariant holds in every run. *)
THEOREM TableInvariant == Spec => []TableInv
<1>1. Init => TableInv
  BY InitTable
<1>2. IInv /\ TableInv /\ [Next]_vars => TableInv'
  BY StepTable
<1>. QED BY <1>1, <1>2, DatalogInvariant, PTL DEF Spec

(* Whatever the rules, the facts and the order of the queries: when a query has
   ended, the complete tables are the stable model of the program. *)
THEOREM TablesAreTheModel == Spec => []StableModel
<1>1. IInv /\ TableInv => StableModel
  BY TableGivesModel
<1>. QED BY <1>1, DatalogInvariant, TableInvariant, PTL

(* A rule file holds finitely many rules. *)
LEMMA LoadedIsFinite == Spec => []IsFiniteSet(rules)
<1>1. Init => IsFiniteSet(rules)
  BY DatalogAssumption DEF Init
<1>2. IsFiniteSet(rules) /\ [Next]_vars => IsFiniteSet(rules)'
  BY RulesStay
<1>. QED BY <1>1, <1>2, PTL DEF Spec

(* RuleOf names a rule exactly when it is the only rule name that derives the
   tuple, for every program and batch. *)
THEOREM RuleOfIsExact == Spec => []RuleOfExact
<1>1. IInv /\ TableInv /\ IsFiniteSet(rules) => RuleOfExact
  BY TableGivesNames
<1>. QED BY <1>1, DatalogInvariant, TableInvariant, LoadedIsFinite, PTL

-----------------------------------------------------------------------------
(* What stratify rejects has a strict read on a cycle *)

NoStrictCycle == \A d \in Deps : d[3] => d[1] # d[2] /\ <<d[2], d[1]>> \notin Reaches

Weight(d) == IF d[3] THEN 1 ELSE 0

(* The strata that would satisfy every read. *)
Labelings == {L \in [Derived -> Nat] : \A d \in Deps : L[d[2]] + Weight(d) <= L[d[1]]}

(* The lowest stratum any of them gives a relation: as many numbers are below
   what every labeling gives it. *)
Under(h) == {k \in Nat : \A L \in Labelings : k < L[h]}

Lowest == [h \in Derived |-> Cardinality(Under(h))]

Settled == {h \in Derived : strata[h] = Lowest[h]}

(* A read that will settle its head once it is relaxed. *)
Settles(d) ==
  d[1] \notin Settled /\ d[2] \in Settled /\ Lowest[d[2]] + Weight(d) = Lowest[d[1]]

(* Without a strict cycle the strata stay at or below the lowest labeling, every
   round settles one more relation, and the last one has nothing to change. *)
RoundInv ==
  NoStrictCycle =>
    /\ phase # "rejected"
    /\ phase = "stratify" =>
         /\ reads \subseteq Deps
         /\ \A h \in Derived : strata[h] <= Lowest[h]
         /\ Cardinality(Settled) >= round
         /\ \/ Settled = Derived \/ Cardinality(Settled) >= round + 1
            \/ \E d \in reads : Settles(d)
         /\ Settled = Derived /\ round = Cardinality(Derived) => ~changed

LEMMA DerivedFinite ==
  ASSUME IsFiniteSet(rules)
  PROVE  IsFiniteSet(Derived)
<1>1. [r \in rules |-> Text[r].head] \in Surjection(rules, Derived)
  BY DEF Surjection, Derived
<1>. QED BY <1>1, FS_Surjection

(* Without a strict cycle there is a labeling: count what a relation reads and
   is not read by. *)
LEMMA LabelingExists ==
  ASSUME IsFiniteSet(rules), NoStrictCycle
  PROVE  Labelings # {}
<1>. DEFINE Low(h) == {x \in Derived : <<h, x>> \in Reaches /\ <<x, h>> \notin Reaches}
            L0 == [h \in Derived |-> Cardinality(Low(h))]
<1>1. \A h : IsFiniteSet(Low(h)) /\ Cardinality(Low(h)) \in Nat
  BY DerivedFinite, FS_Subset, FS_CardinalityType
<1>2. ASSUME NEW d \in Deps
      PROVE  L0[d[2]] + Weight(d) <= L0[d[1]]
  <2>1. d[1] \in Derived /\ d[2] \in Derived /\ d[3] \in BOOLEAN /\ <<d[1], d[2]>> \in Reaches
    BY DepShape, EdgesReach
  <2>2. Low(d[2]) \subseteq Low(d[1])
    BY <2>1, ReachesTransitive
  <2>3. Cardinality(Low(d[2])) <= Cardinality(Low(d[1]))
    BY <1>1, <2>2, FS_Subset
  <2>4. L0[d[1]] = Cardinality(Low(d[1])) /\ L0[d[2]] = Cardinality(Low(d[2]))
    BY <2>1
  <2>5. Cardinality(Low(d[1])) \in Nat /\ Cardinality(Low(d[2])) \in Nat
    BY <1>1
  <2>6. CASE ~d[3]
    <3>1. Weight(d) = 0
      BY <2>6 DEF Weight
    <3>. HIDE DEF Low, L0
    <3>. QED BY <2>3, <2>4, <2>5, <3>1
  <2>7. CASE d[3]
    <3>1. d[2] \in Low(d[1]) /\ d[2] \notin Low(d[2])
      BY <2>1, <2>7 DEF NoStrictCycle
    <3>2. Cardinality(Low(d[2])) # Cardinality(Low(d[1]))
      <4>. HIDE DEF Low
      <4>. QED BY <1>1, <2>2, <3>1, FS_Subset
    <3>3. Cardinality(Low(d[2])) + 1 <= Cardinality(Low(d[1]))
      <4>. HIDE DEF Low
      <4>. QED BY <1>1, <2>3, <3>2
    <3>4. Weight(d) = 1
      BY <2>7 DEF Weight
    <3>. HIDE DEF Low, L0
    <3>. QED BY <2>4, <2>5, <3>3, <3>4
  <2>. QED BY <2>1, <2>6, <2>7
<1>3. L0 \in [Derived -> Nat]
  BY <1>1
<1>4. L0 \in Labelings
  <2>. HIDE DEF L0
  <2>. QED BY <1>2, <1>3 DEF Labelings
<1>. QED BY <1>4

(* A set of numbers that holds all below each of its members holds the ones
   below its size. *)
LEMMA InitialSegment ==
  ASSUME NEW D \in SUBSET Nat, IsFiniteSet(D), \A k \in D : 0..k \subseteq D
  PROVE  Cardinality(D) \in Nat /\ \A k \in Nat : k \in D <=> k < Cardinality(D)
<1>. DEFINE c == Cardinality(D)
<1>1. c \in Nat
  BY FS_CardinalityType
<1>2. ASSUME NEW k \in D PROVE k < c
  <2>1. IsFiniteSet(0..k) /\ Cardinality(0..k) = k + 1
    BY FS_Interval
  <2>2. Cardinality(0..k) <= c
    BY <1>2, FS_Subset
  <2>. QED BY <1>1, <2>1, <2>2
<1>3. CASE c = 0
  BY <1>2, <1>3
<1>4. CASE c # 0
  <2>. HIDE DEF c
  <2>. DEFINE top == c - 1
  <2>1. IsFiniteSet(0..top) /\ Cardinality(0..top) = c
    <3>1. top \in Nat /\ c = top - 0 + 1
      BY <1>1, <1>4
    <3>. HIDE DEF top
    <3>2. IsFiniteSet(0..top) /\ Cardinality(0..top) = top - 0 + 1
      BY <3>1, FS_Interval
    <3>. QED BY <3>1, <3>2
  <2>2. D \subseteq 0..top
    BY <1>1, <1>2
  <2>3. D = 0..top
    BY <2>1, <2>2, FS_Subset DEF c
  <2>. QED BY <1>1, <2>3 DEF c
<1>. QED BY <1>3, <1>4

(* The lowest strata are a labeling, below every other. *)
LEMMA LowestIsLeast ==
  ASSUME IsFiniteSet(rules), NoStrictCycle
  PROVE  /\ Lowest \in Labelings
         /\ \A L \in Labelings : \A h \in Derived : Lowest[h] <= L[h]
<1>1. ASSUME NEW h \in Derived
      PROVE  Lowest[h] \in Nat /\ \A k \in Nat : k \in Under(h) <=> k < Lowest[h]
  <2>1. PICK L \in Labelings : TRUE
    BY LabelingExists
  <2>2. L[h] \in Nat
    BY DEF Labelings
  <2>3. Under(h) \subseteq 0..L[h] /\ IsFiniteSet(0..L[h])
    <3>1. ASSUME NEW k \in Under(h) PROVE k \in 0..L[h]
      <4>1. k \in Nat /\ k < L[h]
        BY DEF Under
      <4>. QED BY <2>2, <4>1
    <3>2. IsFiniteSet(0..L[h])
      BY <2>2, FS_Interval
    <3>. QED BY <3>1, <3>2
  <2>4. IsFiniteSet(Under(h)) /\ Under(h) \in SUBSET Nat
    BY <2>3, FS_Subset DEF Under
  <2>5. \A k \in Under(h) : 0..k \subseteq Under(h)
    <3>1. ASSUME NEW k \in Under(h), NEW m \in 0..k, NEW M \in Labelings
          PROVE  m \in Nat /\ m < M[h]
      <4>1. k \in Nat /\ k < M[h] /\ M[h] \in Nat
        BY DEF Under, Labelings
      <4>. QED BY <4>1
    <3>. QED BY <2>1, <3>1 DEF Under
  <2>6. Lowest[h] = Cardinality(Under(h))
    BY DEF Lowest
  <2>. QED BY <2>4, <2>5, <2>6, InitialSegment
<1>2. ASSUME NEW L \in Labelings, NEW h \in Derived
      PROVE  Lowest[h] <= L[h]
  <2>1. L[h] \in Nat /\ L[h] \notin Under(h)
    BY DEF Labelings, Under
  <2>. QED BY <1>1, <2>1
<1>3. ASSUME NEW d \in Deps
      PROVE  Lowest[d[2]] + Weight(d) <= Lowest[d[1]]
  <2>1. d[1] \in Derived /\ d[2] \in Derived
    BY DepShape
  <2>2. Lowest[d[1]] \in Nat /\ Lowest[d[2]] \in Nat /\ Weight(d) \in Nat
    BY <1>1, <2>1 DEF Weight
  <2>. DEFINE m == Lowest[d[2]] + Weight(d) - 1
  <2>3. CASE m < 0
    BY <2>2, <2>3
  <2>4. CASE m >= 0
    <3>1. m \in Nat
      BY <2>2, <2>4
    <3>2. ASSUME NEW L \in Labelings PROVE m < L[d[1]]
      <4>1. L[d[2]] + Weight(d) <= L[d[1]] /\ L[d[1]] \in Nat /\ L[d[2]] \in Nat
        BY <2>1 DEF Labelings
      <4>2. Lowest[d[2]] <= L[d[2]]
        BY <1>2, <2>1
      <4>. QED BY <2>2, <4>1, <4>2
    <3>3. m \in Under(d[1])
      <4>. HIDE DEF m
      <4>. QED BY <3>1, <3>2 DEF Under
    <3>4. m < Lowest[d[1]]
      BY <1>1, <2>1, <3>1, <3>3
    <3>. QED BY <2>2, <3>4
  <2>. QED BY <2>2, <2>3, <2>4
<1>4. Lowest \in [Derived -> Nat]
  BY <1>1 DEF Lowest
<1>. QED BY <1>2, <1>3, <1>4 DEF Labelings

(* Unless all is settled some read settles its head: otherwise every unsettled
   relation could do with one stratum less. *)
LEMMA SomeSettles ==
  ASSUME IsFiniteSet(rules), NoStrictCycle, TypeOK,
         \A h \in Derived : strata[h] <= Lowest[h], Settled # Derived
  PROVE  \E d \in Deps : Settles(d)
<1>. SUFFICES ASSUME \A d \in Deps : ~Settles(d) PROVE FALSE
  OBVIOUS
<1>1. /\ Lowest \in [Derived -> Nat]
      /\ \A d \in Deps : Lowest[d[2]] + Weight(d) <= Lowest[d[1]]
      /\ \A L \in Labelings : \A h \in Derived : Lowest[h] <= L[h]
  BY LowestIsLeast DEF Labelings
<1>. DEFINE L == [h \in Derived |-> IF h \in Settled THEN Lowest[h] ELSE Lowest[h] - 1]
<1>2. ASSUME NEW h \in Derived, h \notin Settled
      PROVE  Lowest[h] \in Nat /\ Lowest[h] > 0
  BY <1>1, <1>2 DEF Settled, TypeOK
<1>3. L \in [Derived -> Nat]
  BY <1>1, <1>2
<1>4. ASSUME NEW d \in Deps PROVE L[d[2]] + Weight(d) <= L[d[1]]
  <2>1. d[1] \in Derived /\ d[2] \in Derived /\ Weight(d) \in Nat
    BY DepShape DEF Weight
  <2>2. Lowest[d[1]] \in Nat /\ Lowest[d[2]] \in Nat
          /\ Lowest[d[2]] + Weight(d) <= Lowest[d[1]]
    BY <1>1, <2>1
  <2>3. CASE d[1] \in Settled
    BY <2>1, <2>2, <2>3
  <2>4. CASE d[1] \notin Settled /\ d[2] \in Settled
    <3>1. Lowest[d[2]] + Weight(d) # Lowest[d[1]]
      BY <2>4 DEF Settles
    <3>. QED BY <2>1, <2>2, <2>4, <3>1
  <2>5. CASE d[1] \notin Settled /\ d[2] \notin Settled
    BY <2>1, <2>2, <2>5
  <2>. QED BY <2>3, <2>4, <2>5
<1>5. L \in Labelings
  <2>. HIDE DEF L
  <2>. QED BY <1>3, <1>4 DEF Labelings
<1>6. PICK h \in Derived : h \notin Settled
  BY DEF Settled
<1>7. Lowest[h] <= L[h] /\ L[h] = Lowest[h] - 1
  BY <1>1, <1>5, <1>6
<1>. QED BY <1>2, <1>6, <1>7

LEMMA InitRounds ==
  ASSUME Init
  PROVE  RoundInv
<1>. SUFFICES ASSUME NoStrictCycle
              PROVE  /\ reads \subseteq Deps
                     /\ \A h \in Derived : strata[h] <= Lowest[h]
                     /\ Cardinality(Settled) >= 0
                     /\ \/ Settled = Derived \/ Cardinality(Settled) >= 1
                        \/ \E d \in reads : Settles(d)
  BY DEF Init, RoundInv
<1>1. IsFiniteSet(rules) /\ TypeOK
  BY DatalogAssumption, InitTypes DEF Init
<1>2. Lowest \in [Derived -> Nat]
  BY <1>1, LowestIsLeast DEF Labelings
<1>3. \A h \in Derived : strata[h] <= Lowest[h]
  BY <1>2 DEF Init
<1>4. Cardinality(Settled) \in Nat
  BY <1>1, DerivedFinite, FS_Subset, FS_CardinalityType DEF Settled
<1>5. Settled = Derived \/ \E d \in Deps : Settles(d)
  BY <1>1, <1>3, SomeSettles
<1>. QED BY <1>3, <1>4, <1>5 DEF Init

(* Relaxing a read raises no stratum above the lowest labeling, so what is
   settled stays settled. *)
LEMMA RelaxStep ==
  ASSUME IsFiniteSet(rules), TypeOK, RoundInv, NEW d \in reads, Relax(d), rules' = rules,
         NoStrictCycle
  PROVE  /\ reads' \subseteq Deps
         /\ \A h \in Derived : strata'[h] <= Lowest[h]
         /\ Cardinality(Settled') >= round
         /\ \/ Settled' = Derived \/ Cardinality(Settled') >= round + 1
            \/ \E e \in reads' : Settles(e)'
         /\ Settled' = Derived /\ round = Cardinality(Derived) => ~changed'
<1>0. Derived' = Derived /\ Deps' = Deps /\ Lowest' = Lowest
  <2>1. Derived' = Derived /\ Deps' = Deps
    BY ProgramStays
  <2>2. Labelings' = Labelings
    BY <2>1 DEF Labelings, Weight
  <2>. QED BY <2>1, <2>2 DEF Lowest, Under
<1>1. /\ phase = "stratify" /\ reads \subseteq Deps
      /\ \A h \in Derived : strata[h] <= Lowest[h]
      /\ Cardinality(Settled) >= round
      /\ \/ Settled = Derived \/ Cardinality(Settled) >= round + 1
         \/ \E e \in reads : Settles(e)
      /\ Settled = Derived /\ round = Cardinality(Derived) => ~changed
  BY DEF Relax, RoundInv
<1>2. d[1] \in Derived /\ d[2] \in Derived /\ Weight(d) \in Nat /\ Want(d) = strata[d[2]] + Weight(d)
  BY <1>1, DepShape DEF Weight, Want
<1>3. \A h \in Derived : strata[h] \in Nat
  BY DEF TypeOK
<1>4. Lowest \in [Derived -> Nat] /\ Lowest[d[2]] + Weight(d) <= Lowest[d[1]]
  BY <1>1, LowestIsLeast DEF Labelings
<1>5. Want(d) \in Nat /\ Want(d) <= Lowest[d[1]]
  BY <1>1, <1>2, <1>3, <1>4
<1>6. /\ reads' = reads \ {d} /\ round' = round
      /\ IF Want(d) > strata[d[1]]
         THEN strata' = [strata EXCEPT ![d[1]] = Want(d)]
         ELSE strata' = strata /\ changed' = changed
  BY DEF Relax
<1>7. DOMAIN strata = Derived
  BY DEF TypeOK
<1>8. ASSUME NEW h \in Derived
      PROVE  strata'[h] \in Nat /\ strata[h] <= strata'[h] /\ strata'[h] <= Lowest[h]
  <2>1. CASE Want(d) > strata[d[1]] /\ h = d[1]
    <3>1. strata'[h] = Want(d)
      BY <1>6, <1>7, <2>1
    <3>. QED BY <1>2, <1>3, <1>5, <2>1, <3>1
  <2>2. CASE ~(Want(d) > strata[d[1]]) \/ h # d[1]
    <3>1. strata'[h] = strata[h]
      BY <1>6, <1>7, <2>2
    <3>. QED BY <1>1, <1>3, <3>1
  <2>. QED BY <2>1, <2>2
<1>9. Settled \subseteq Settled' /\ Settled' \subseteq Derived
  <2>1. ASSUME NEW h \in Settled PROVE h \in Settled'
    <3>1. h \in Derived /\ strata[h] = Lowest[h] /\ Lowest[h] \in Nat
      BY <1>4 DEF Settled
    <3>2. strata'[h] = Lowest[h]
      BY <1>8, <3>1
    <3>. QED BY <1>0, <3>1, <3>2 DEF Settled
  <2>. QED BY <1>0, <2>1 DEF Settled
<1>10. /\ IsFiniteSet(Settled) /\ IsFiniteSet(Settled')
       /\ Cardinality(Settled) \in Nat /\ Cardinality(Settled') \in Nat
       /\ Cardinality(Settled) <= Cardinality(Settled')
       /\ Settled # Settled' => Cardinality(Settled) # Cardinality(Settled')
  <2>1. IsFiniteSet(Derived)
    BY DerivedFinite
  <2>2. IsFiniteSet(Settled) /\ IsFiniteSet(Settled')
    BY <1>9, <2>1, FS_Subset
  <2>. QED BY <1>9, <2>2, FS_Subset, FS_CardinalityType
<1>11. round \in Nat
  BY DEF TypeOK
<1>12. Cardinality(Settled') >= round
  BY <1>1, <1>10, <1>11
<1>13. \/ Settled' = Derived \/ Cardinality(Settled') >= round + 1
       \/ \E e \in reads' : Settles(e)'
  <2>1. CASE Settled = Derived
    BY <1>9, <2>1
  <2>2. CASE Cardinality(Settled) >= round + 1
    BY <1>10, <1>11, <2>2
  <2>3. CASE Settled' # Settled
    BY <1>1, <1>10, <1>11, <2>3
  <2>4. ASSUME NEW e \in reads, Settles(e), Settled' = Settled
        PROVE  \E f \in reads' : Settles(f)'
    <3>1. Settles(e)'
      BY <1>0, <2>4 DEF Settles, Weight
    <3>2. e # d
      <4>1. ASSUME e = d PROVE FALSE
        <5>1. d[1] \notin Settled /\ strata[d[2]] = Lowest[d[2]]
                /\ Lowest[d[2]] + Weight(d) = Lowest[d[1]]
          BY <2>4, <4>1 DEF Settles, Settled
        <5>2. Want(d) = Lowest[d[1]] /\ strata[d[1]] # Lowest[d[1]]
          BY <1>2, <5>1 DEF Settled
        <5>3. Want(d) > strata[d[1]]
          BY <1>1, <1>2, <1>3, <1>4, <5>2
        <5>4. strata'[d[1]] = Lowest[d[1]]
          BY <1>2, <1>6, <1>7, <5>2, <5>3
        <5>5. d[1] \in Settled'
          BY <1>0, <1>2, <5>4 DEF Settled
        <5>. QED BY <2>4, <5>1, <5>5
      <4>. QED BY <4>1
    <3>. QED BY <1>6, <3>1, <3>2
  <2>. QED BY <1>1, <2>1, <2>2, <2>3, <2>4
<1>14. ASSUME Settled' = Derived, round = Cardinality(Derived) PROVE ~changed'
  <2>1. Settled = Derived
    <3>1. IsFiniteSet(Derived) /\ Cardinality(Derived) <= Cardinality(Settled)
      BY <1>1, <1>14, DerivedFinite
    <3>. QED BY <1>10, <1>14, <3>1
  <2>2. strata[d[1]] = Lowest[d[1]]
    BY <1>2, <2>1 DEF Settled
  <2>3. ~(Want(d) > strata[d[1]])
    BY <1>2, <1>3, <1>5, <2>2
  <2>. QED BY <1>1, <1>6, <1>14, <2>1, <2>3
<1>. QED BY <1>1, <1>6, <1>8, <1>12, <1>13, <1>14

(* A round without the last number that changed something has settled one more
   relation than the one before it. *)
LEMMA EndStep ==
  ASSUME IsFiniteSet(rules), TypeOK, RoundInv, EndStratifyRound, rules' = rules, NoStrictCycle
  PROVE  /\ phase' # "rejected"
         /\ phase' = "stratify" =>
              /\ reads' = Deps /\ strata' = strata /\ ~changed'
              /\ Cardinality(Settled) >= round'
<1>1. /\ phase = "stratify" /\ reads = {} /\ strata' = strata
      /\ Cardinality(Settled) >= round
      /\ Settled = Derived \/ Cardinality(Settled) >= round + 1
      /\ Settled = Derived /\ round = Cardinality(Derived) => ~changed
  BY DEF EndStratifyRound, RoundInv
<1>2. IsFiniteSet(Derived) /\ Cardinality(Derived) \in Nat /\ Settled \subseteq Derived /\ round \in Nat
  BY DerivedFinite, FS_CardinalityType DEF Settled, TypeOK
<1>3. IsFiniteSet(Settled) /\ Cardinality(Settled) \in Nat /\ Cardinality(Settled) <= Cardinality(Derived)
  BY <1>2, FS_Subset, FS_CardinalityType
<1>4. CASE ~changed
  <2>1. phase' = "compiled"
    BY <1>1, <1>4 DEF EndStratifyRound
  <2>. QED BY <2>1
<1>5. CASE changed /\ round = Cardinality(Derived)
  <2>1. Settled # Derived
    BY <1>1, <1>5
  <2>2. Cardinality(Settled) >= round + 1
    BY <1>1, <2>1
  <2>. QED BY <1>2, <1>3, <1>5, <2>2
<1>6. CASE changed /\ round # Cardinality(Derived)
  <2>1. phase' = phase /\ reads' = Deps /\ changed' = FALSE /\ round' = round + 1
    BY <1>1, <1>6, Zenon DEF EndStratifyRound
  <2>2. Cardinality(Settled) >= round + 1
    BY <1>1, <1>2, <1>3, <1>6
  <2>. QED BY <1>1, <2>1, <2>2
<1>. QED BY <1>4, <1>5, <1>6

LEMMA StepRounds ==
  ASSUME IsFiniteSet(rules), TypeOK, RoundInv, [Next]_vars
  PROVE  RoundInv'
<1>0. rules' = rules /\ Derived' = Derived /\ Deps' = Deps /\ Reaches' = Reaches
  BY RulesStay, ProgramStays
<1>1. Lowest' = Lowest
  <2>1. Labelings' = Labelings
    BY <1>0 DEF Labelings, Weight
  <2>. QED BY <1>0, <2>1 DEF Lowest, Under
<1>2. NoStrictCycle' = NoStrictCycle
  BY <1>0 DEF NoStrictCycle
<1>. SUFFICES ASSUME NoStrictCycle PROVE RoundInv'
  BY <1>2 DEF RoundInv
<1>3. ASSUME NEW d \in reads, Relax(d) PROVE RoundInv'
  <2>1. phase' = "stratify" /\ round' = round
    BY <1>3 DEF Relax
  <2>2. /\ reads' \subseteq Deps
        /\ \A h \in Derived : strata'[h] <= Lowest[h]
        /\ Cardinality(Settled') >= round
        /\ \/ Settled' = Derived \/ Cardinality(Settled') >= round + 1
           \/ \E e \in reads' : Settles(e)'
        /\ Settled' = Derived /\ round = Cardinality(Derived) => ~changed'
    BY <1>0, <1>3, RelaxStep
  <2>. QED BY <1>0, <1>1, <2>1, <2>2 DEF RoundInv
<1>4. CASE EndStratifyRound
  <2>1. /\ phase' # "rejected"
        /\ phase' = "stratify" =>
             /\ reads' = Deps /\ strata' = strata /\ ~changed'
             /\ Cardinality(Settled) >= round'
    BY <1>0, <1>4, EndStep
  <2>2. CASE phase' # "stratify"
    BY <2>1, <2>2 DEF RoundInv
  <2>3. CASE phase' = "stratify"
    <3>1. \A h \in Derived : strata[h] <= Lowest[h]
      BY <1>4 DEF EndStratifyRound, RoundInv
    <3>2. Settled' = Settled /\ \A d : Settles(d)' = Settles(d)
      <4>1. Settled' = Settled
        BY <1>0, <1>1, <2>1, <2>3 DEF Settled
      <4>. QED BY <1>1, <4>1 DEF Settles, Weight
    <3>3. Settled = Derived \/ \E d \in Deps : Settles(d)
      BY <3>1, SomeSettles
    <3>. QED BY <1>0, <1>1, <2>1, <2>3, <3>1, <3>2, <3>3 DEF RoundInv
  <2>. QED BY <2>2, <2>3
<1>5. CASE /\ phase' \notin {"stratify", "rejected"}
  BY <1>5 DEF RoundInv
<1>6. CASE UNCHANGED vars
  <2>1. UNCHANGED <<phase, reads, strata, round, changed>>
    BY <1>6 DEF vars, loadVars
  <2>2. Settled' = Settled /\ \A d : Settles(d)' = Settles(d)
    <3>1. Settled' = Settled
      BY <1>0, <1>1, <2>1 DEF Settled
    <3>. QED BY <1>1, <3>1 DEF Settles, Weight
  <2>. QED BY <1>0, <1>1, <2>1, <2>2 DEF RoundInv
<1>7. \/ \E d \in reads : Relax(d)
      \/ EndStratifyRound
      \/ phase' \notin {"stratify", "rejected"}
      \/ UNCHANGED vars
  BY DEF Next, Assert, Query, StartComponent, EvalRule, EndRound, Complete, NextRound, Answer
<1>. QED BY <1>3, <1>4, <1>5, <1>6, <1>7

(* stratify accepts exactly the programs without a strict read on a cycle, for
   every rule file: len(heads) + 1 rounds are enough for any it should accept. *)
THEOREM StratifyIsExact == Spec => []AcceptsStratified
<1>1. Init => RoundInv
  BY InitRounds
<1>2. IsFiniteSet(rules) /\ TypeOK /\ RoundInv /\ [Next]_vars => RoundInv'
  BY StepRounds
<1>3. Spec => []RoundInv
  BY <1>1, <1>2, LoadedIsFinite, DatalogTypes, PTL DEF Spec
<1>4. RoundInv /\ AcceptedIsStratified => AcceptsStratified
  <2>. SUFFICES ASSUME RoundInv, AcceptedIsStratified PROVE AcceptsStratified
    OBVIOUS
  <2>1. ASSUME phase = "rejected"
        PROVE  \E d \in Deps : d[3] /\ (d[1] = d[2] \/ <<d[2], d[1]>> \in Reaches)
    BY <2>1 DEF RoundInv, NoStrictCycle
  <2>2. ASSUME phase = "compiled"
        PROVE  ~\E d \in Deps : d[3] /\ (d[1] = d[2] \/ <<d[2], d[1]>> \in Reaches)
    BY <2>2 DEF AcceptedIsStratified
  <2>. QED BY <2>1, <2>2 DEF AcceptsStratified
<1>. QED BY <1>3, <1>4, AcceptanceIsSound, PTL

-----------------------------------------------------------------------------
(* The value engine: induction and recursion up to a bound *)

(* Induction up to N, for a set of numbers. *)
LEMMA BoundedInduction ==
  ASSUME NEW N \in Nat, NEW S, 0 \in S,
         \A k \in 0..N : k \in S /\ k < N => k + 1 \in S
  PROVE  0..N \subseteq S
<1>. DEFINE D == {k \in 0..N : 0..k \subseteq S}
            c == Cardinality(D)
<1>1. D \in SUBSET Nat /\ \A k \in D : 0..k \subseteq D
  BY SMT
<1>2. IsFiniteSet(D)
  <2>1. D \subseteq 0..N
    OBVIOUS
  <2>2. IsFiniteSet(0..N)
    BY FS_Interval
  <2>. QED BY <2>1, <2>2, FS_Subset
<1>3. c \in Nat /\ \A k \in Nat : k \in D <=> k < c
  BY <1>1, <1>2, InitialSegment
<1>4. 0 \in D
  BY SMT
<1>5. ASSUME NEW k \in D, k < N PROVE k + 1 \in D
  BY <1>5
<1>. HIDE DEF D, c
<1>6. c # 0 /\ (c - 1) \in Nat /\ (c - 1) \in D
  BY <1>3, <1>4
<1>7. ~ (c - 1 < N)
  BY <1>3, <1>5, <1>6
<1>8. N \in D
  BY <1>3, <1>7
<1>. QED BY <1>8 DEF D

StepsIn(n, X, step) == \A k \in 1..n : \A x \in X : step[k][x] \in X

Iterates(n, a, step, g) == g[0] = a /\ \A k \in 1..n : g[k] = step[k][g[k - 1]]

(* Steps that stay in X can be taken n times, from any a in X. *)
LEMMA RecursionExists ==
  ASSUME NEW n \in Nat, NEW X, NEW a \in X, NEW step, StepsIn(n, X, step)
  PROVE  \E g \in [0..n -> X] : Iterates(n, a, step, g)
<1>. USE DEF StepsIn, Iterates
<1>. DEFINE Good(m, g) == g[0] = a /\ \A k \in 1..m : g[k] = step[k][g[k - 1]]
            S == {m \in 0..n : \E g \in [0..m -> X] : Good(m, g)}
<1>1. 0 \in S
  <2>. DEFINE g == [k \in 0..0 |-> a]
  <2>1. g \in [0..0 -> X]
    BY SMT
  <2>2. Good(0, g)
    BY SMT
  <2>3. 0 \in 0..n
    OBVIOUS
  <2>. HIDE DEF g, Good
  <2>. QED BY <2>1, <2>2, <2>3
<1>2. ASSUME NEW m \in 0..n, m \in S, m < n PROVE m + 1 \in S
  <2>1. PICK g \in [0..m -> X] : Good(m, g)
    BY <1>2
  <2>. DEFINE h == [k \in 0..(m + 1) |-> IF k <= m THEN g[k] ELSE step[m + 1][g[m]]]
  <2>2. g[m] \in X /\ m + 1 \in 1..n
    BY <1>2
  <2>3. step[m + 1][g[m]] \in X
    BY <2>2
  <2>4. h \in [0..(m + 1) -> X]
    BY <2>3
  <2>5. h[0] = a
    BY <2>1
  <2>6. ASSUME NEW k \in 1..(m + 1) PROVE h[k] = step[k][h[k - 1]]
    <3>1. CASE k <= m
      BY <2>1, <3>1
    <3>2. CASE k = m + 1
      BY <2>1, <3>2
    <3>. QED BY <3>1, <3>2
  <2>7. Good(m + 1, h)
    BY <2>5, <2>6
  <2>8. m + 1 \in 0..n
    BY <1>2
  <2>. QED BY <2>4, <2>7, <2>8
<1>3. 0..n \subseteq S
  <2>. HIDE DEF S
  <2>. QED BY <1>1, <1>2, BoundedInduction
<1>4. n \in S
  BY <1>3
<1>. QED BY <1>4

-----------------------------------------------------------------------------
(* The text *)

ExprOf(f) == {Expr(f, i) : i \in 1..Len(f)}

LEMMA TextShape ==
  ASSUME NEW f \in Functions
  PROVE  f \in Seq(Statement) /\ Len(f) \in Nat /\ DOMAIN f = 1..Len(f)
         /\ \A i \in 1..Len(f) : f[i] \in Statement
<1>1. f \in Seq(Statement)
  BY TextAssumption
<1>. QED BY <1>1

(* What a sequence gains from Append. *)
LEMMA SeqSetAppend ==
  ASSUME NEW X, NEW s \in Seq(X), NEW x \in X
  PROVE  Append(s, x) \in Seq(X) /\ SeqSet(Append(s, x)) = SeqSet(s) \cup {x}
BY DEF SeqSet

(* Exprs reads the statements of S, and no others. *)
LEMMA ExprsRead ==
  ASSUME NEW f \in Functions, NEW S
  PROVE  /\ Exprs(f, S) \in Seq(ExprOf(f))
         /\ SeqSet(Exprs(f, S)) = {Expr(f, i) : i \in S \cap (1..Len(f))}
<1>. DEFINE n == Len(f)
            X == Seq(ExprOf(f))
            step == [k \in 1..n |-> [s \in X |->
                       IF k \in S THEN Append(s, Expr(f, k)) ELSE s]]
            F[k \in 0..n] ==
              IF k = 0 THEN <<>>
              ELSE IF k \in S THEN Append(F[k - 1], Expr(f, k)) ELSE F[k - 1]
<1>1. n \in Nat /\ <<>> \in X
  BY TextShape
<1>2. StepsIn(n, X, step)
  <2>1. ASSUME NEW k \in 1..n, NEW s \in X PROVE Append(s, Expr(f, k)) \in X
    <3>1. Expr(f, k) \in ExprOf(f)
      BY DEF ExprOf
    <3>. HIDE DEF n
    <3>. QED BY <3>1
  <2>. HIDE DEF n, X
  <2>. QED BY <2>1 DEF StepsIn
<1>3. PICK g \in [0..n -> X] : Iterates(n, <<>>, step, g)
  <2>. HIDE DEF n, X, step, F
  <2>. QED BY <1>1, <1>2, RecursionExists
<1>4. g = [k \in 0..n |->
             IF k = 0 THEN <<>>
             ELSE IF k \in S THEN Append(g[k - 1], Expr(f, k)) ELSE g[k - 1]]
  <2>1. ASSUME NEW k \in 0..n
        PROVE  g[k] = IF k = 0 THEN <<>>
                      ELSE IF k \in S THEN Append(g[k - 1], Expr(f, k)) ELSE g[k - 1]
    <3>1. CASE k = 0
      BY <1>3, <3>1 DEF Iterates
    <3>2. CASE k # 0
      <4>1. k \in 1..n /\ k - 1 \in 0..n
        BY <1>1, <3>2
      <4>2. g[k - 1] \in X
        BY <4>1
      <4>. HIDE DEF n, X
      <4>. QED BY <1>3, <3>2, <4>1, <4>2 DEF Iterates
    <3>. QED BY <3>1, <3>2
  <2>. HIDE DEF n, X, step, F
  <2>. QED BY <2>1, Zenon
<1>5. F = [k \in 0..n |->
             IF k = 0 THEN <<>>
             ELSE IF k \in S THEN Append(F[k - 1], Expr(f, k)) ELSE F[k - 1]]
  <2>. HIDE DEF n, X
  <2>. QED BY <1>4
<1>6. Exprs(f, S) = F[n]
  BY DEF Exprs
<1>. DEFINE T == {k \in 0..n : /\ F[k] \in X
                               /\ SeqSet(F[k]) = {Expr(f, i) : i \in S \cap (1..k)}}
<1>. HIDE DEF F, n, X
<1>7. 0 \in T
  BY <1>1, <1>5 DEF SeqSet
<1>8. ASSUME NEW k \in 0..n, k \in T, k < n PROVE k + 1 \in T
  <2>1. k + 1 \in 0..n /\ k + 1 # 0 /\ (k + 1) - 1 = k /\ 1..(k + 1) = (1..k) \cup {k + 1}
    BY <1>1, <1>8
  <2>2. F[k + 1] = IF k + 1 \in S THEN Append(F[k], Expr(f, k + 1)) ELSE F[k]
    BY <1>5, <2>1
  <2>3. CASE k + 1 \in S
    <3>1. Expr(f, k + 1) \in ExprOf(f)
      BY <1>1, <2>1 DEF ExprOf, n
    <3>2. /\ Append(F[k], Expr(f, k + 1)) \in X
          /\ SeqSet(Append(F[k], Expr(f, k + 1))) = SeqSet(F[k]) \cup {Expr(f, k + 1)}
      BY <1>8, <3>1, SeqSetAppend DEF X
    <3>. QED BY <1>8, <2>1, <2>2, <2>3, <3>2
  <2>4. CASE k + 1 \notin S
    BY <1>8, <2>1, <2>2, <2>4
  <2>. QED BY <2>3, <2>4
<1>9. n \in T
  <2>1. 0..n \subseteq T
    <3>. HIDE DEF T
    <3>. QED BY <1>1, <1>7, <1>8, BoundedInduction
  <2>. HIDE DEF T
  <2>. QED BY <1>1, <2>1
<1>. QED BY <1>6, <1>9 DEF n, X

(* What a sequence gains from another. *)
LEMMA SeqSetConcat ==
  ASSUME NEW X, NEW s \in Seq(X), NEW t \in Seq(X)
  PROVE  s \o t \in Seq(X) /\ SeqSet(s \o t) = SeqSet(s) \cup SeqSet(t)
<1>1. /\ s \o t \in Seq(X) /\ Len(s \o t) = Len(s) + Len(t)
      /\ \A i \in 1..(Len(s) + Len(t)) :
           (s \o t)[i] = IF i <= Len(s) THEN s[i] ELSE t[i - Len(s)]
  OBVIOUS
<1>2. SeqSet(s \o t) \subseteq SeqSet(s) \cup SeqSet(t)
  BY <1>1 DEF SeqSet
<1>3. SeqSet(s) \subseteq SeqSet(s \o t)
  BY <1>1 DEF SeqSet
<1>4. ASSUME NEW k \in 1..Len(t) PROVE t[k] \in SeqSet(s \o t)
  <2>1. Len(s) \in Nat /\ Len(t) \in Nat
    OBVIOUS
  <2>2. Len(s) + k \in 1..(Len(s) + Len(t)) /\ ~ (Len(s) + k <= Len(s)) /\ (Len(s) + k) - Len(s) = k
    BY <2>1
  <2>3. (s \o t)[Len(s) + k] = t[k]
    BY <1>1, <2>2
  <2>. QED BY <1>1, <2>2, <2>3 DEF SeqSet
<1>. QED BY <1>1, <1>2, <1>3, <1>4 DEF SeqSet

(* Flatten loses and adds nothing. *)
LEMMA FlattenReads ==
  ASSUME NEW Z, NEW ss \in Seq(Seq(Z))
  PROVE  /\ Flatten(ss) \in Seq(Z)
         /\ SeqSet(Flatten(ss)) = UNION {SeqSet(ss[k]) : k \in 1..Len(ss)}
<1>. DEFINE n == Len(ss)
            X == Seq(Z)
            step == [k \in 1..n |-> [s \in X |-> s \o ss[k]]]
            F[k \in 0..n] == IF k = 0 THEN <<>> ELSE F[k - 1] \o ss[k]
<1>1. n \in Nat /\ <<>> \in X /\ \A k \in 1..n : ss[k] \in X
  OBVIOUS
<1>2. StepsIn(n, X, step)
  <2>1. ASSUME NEW k \in 1..n, NEW s \in X PROVE s \o ss[k] \in X
    BY <1>1
  <2>. HIDE DEF n, X
  <2>. QED BY <2>1 DEF StepsIn
<1>3. PICK g \in [0..n -> X] : Iterates(n, <<>>, step, g)
  <2>. HIDE DEF n, X, step, F
  <2>. QED BY <1>1, <1>2, RecursionExists
<1>4. g = [k \in 0..n |-> IF k = 0 THEN <<>> ELSE g[k - 1] \o ss[k]]
  <2>1. ASSUME NEW k \in 0..n
        PROVE  g[k] = IF k = 0 THEN <<>> ELSE g[k - 1] \o ss[k]
    <3>1. CASE k = 0
      BY <1>3, <3>1 DEF Iterates
    <3>2. CASE k # 0
      <4>1. k \in 1..n /\ k - 1 \in 0..n
        BY <1>1, <3>2
      <4>2. g[k - 1] \in X
        BY <4>1
      <4>. HIDE DEF n, X
      <4>. QED BY <1>3, <3>2, <4>1, <4>2 DEF Iterates
    <3>. QED BY <3>1, <3>2
  <2>. HIDE DEF n, X, step, F
  <2>. QED BY <2>1, Zenon
<1>5. F = [k \in 0..n |-> IF k = 0 THEN <<>> ELSE F[k - 1] \o ss[k]]
  <2>. HIDE DEF n, X
  <2>. QED BY <1>4
<1>6. Flatten(ss) = F[n]
  BY DEF Flatten
<1>. DEFINE T == {k \in 0..n : /\ F[k] \in X
                               /\ SeqSet(F[k]) = UNION {SeqSet(ss[i]) : i \in 1..k}}
<1>. HIDE DEF F, n, X
<1>7. 0 \in T
  BY <1>1, <1>5 DEF SeqSet
<1>8. ASSUME NEW k \in 0..n, k \in T, k < n PROVE k + 1 \in T
  <2>1. k + 1 \in 0..n /\ k + 1 # 0 /\ (k + 1) - 1 = k /\ 1..(k + 1) = (1..k) \cup {k + 1}
    BY <1>1, <1>8
  <2>2. F[k + 1] = F[k] \o ss[k + 1]
    BY <1>5, <2>1
  <2>3. ss[k + 1] \in X
    BY <1>1, <2>1
  <2>4. F[k + 1] \in X /\ SeqSet(F[k + 1]) = SeqSet(F[k]) \cup SeqSet(ss[k + 1])
    BY <1>8, <2>2, <2>3, SeqSetConcat DEF X
  <2>5. UNION {SeqSet(ss[i]) : i \in 1..(k + 1)}
          = (UNION {SeqSet(ss[i]) : i \in 1..k}) \cup SeqSet(ss[k + 1])
    BY <2>1
  <2>. QED BY <1>8, <2>1, <2>4, <2>5
<1>9. n \in T
  <2>1. 0..n \subseteq T
    <3>. HIDE DEF T
    <3>. QED BY <1>1, <1>7, <1>8, BoundedInduction
  <2>. HIDE DEF T
  <2>. QED BY <1>1, <2>1
<1>. QED BY <1>6, <1>9 DEF n, X

(* The shape of an expression. *)
Expression == [stmt : Nat, start : Nat, op : {"choice", "template"},
               items : Seq(Items) \ {<<>>}, at : Nat]

LEMMA ExprShape ==
  ASSUME NEW f \in Functions, NEW i \in 1..Len(f)
  PROVE  /\ Expr(f, i) \in Expression
         /\ Expr(f, i).stmt = i /\ Expr(f, i).start = 2 * i
         /\ Expr(f, i).items = f[i].items /\ Expr(f, i).op = f[i].op
         /\ Expr(f, i).at < End(f) /\ Expr(f, i).start < End(f)
<1>1. Len(f) \in Nat /\ f[i] \in Statement /\ i \in Nat
  BY TextShape
<1>2. f[i].op \in {"choice", "template"} /\ f[i].items \in Seq(Items) \ {<<>>}
  BY <1>1 DEF Statement
<1>. DEFINE at == IF Bare(f[i]) THEN Start(i) ELSE Start(i) + 1
<1>3. at \in Nat /\ at < End(f) /\ Start(i) \in Nat /\ Start(i) < End(f) /\ Start(i) = 2 * i
  BY <1>1 DEF Start, End
<1>4. Expr(f, i) = [stmt |-> i, start |-> Start(i), op |-> f[i].op, items |-> f[i].items, at |-> at]
  BY DEF Expr
<1>. HIDE DEF at
<1>. QED BY <1>1, <1>2, <1>3, <1>4 DEF Expression

LEMMA ExprOfShape ==
  ASSUME NEW f \in Functions
  PROVE  /\ ExprOf(f) \subseteq Expression
         /\ \A e \in ExprOf(f) : e.at < End(f) /\ e.start < End(f)
BY ExprShape DEF ExprOf

(* The bindings of a name before a use, the calls, and what a lookup reads. *)
LEMMA BindingsRead ==
  ASSUME NEW f \in Functions, NEW name, NEW use
  PROVE  /\ BindingsIn(f, name, use) \in Seq(ExprOf(f))
         /\ SeqSet(BindingsIn(f, name, use)) =
              {Expr(f, i) : i \in {j \in 1..Len(f) : /\ f[j].kind = "bind" /\ f[j].name = name
                                                     /\ Start(j) < use}}
<1>. DEFINE S == {j \in DOMAIN f : f[j].kind = "bind" /\ f[j].name = name /\ Start(j) < use}
<1>1. DOMAIN f = 1..Len(f)
  BY TextShape
<1>2. BindingsIn(f, name, use) = Exprs(f, S)
  BY DEF BindingsIn
<1>3. S \cap (1..Len(f)) = {j \in 1..Len(f) : /\ f[j].kind = "bind" /\ f[j].name = name
                                              /\ Start(j) < use}
  BY <1>1
<1>. HIDE DEF S
<1>. QED BY <1>2, <1>3, ExprsRead

LEMMA CallsRead ==
  ASSUME NEW f \in Functions
  PROVE  /\ CallsTo(f) \in Seq(ExprOf(f))
         /\ SeqSet(CallsTo(f)) = {Expr(f, i) : i \in {j \in 1..Len(f) : f[j].kind = "call"}}
<1>. DEFINE S == {j \in DOMAIN f : f[j].kind = "call"}
<1>1. DOMAIN f = 1..Len(f)
  BY TextShape
<1>2. CallsTo(f) = Exprs(f, S)
  BY DEF CallsTo
<1>3. S \cap (1..Len(f)) = {j \in 1..Len(f) : f[j].kind = "call"}
  BY <1>1
<1>. HIDE DEF S
<1>. QED BY <1>2, <1>3, ExprsRead

LEMMA EmptySeqSet ==
  ASSUME NEW X, NEW s \in Seq(X)
  PROVE  s = <<>> <=> SeqSet(s) = {}
<1>1. Len(s) \in Nat /\ (s = <<>> <=> Len(s) = 0)
  BY EmptySeq, LenProperties
<1>2. CASE Len(s) = 0
  BY <1>1, <1>2 DEF SeqSet
<1>3. CASE Len(s) # 0
  <2>1. 1 \in 1..Len(s)
    BY <1>1, <1>3
  <2>. QED BY <1>1, <1>3, <2>1 DEF SeqSet
<1>. QED BY <1>2, <1>3

LEMMA HeadTailSet ==
  ASSUME NEW X, NEW s \in Seq(X), s # <<>>
  PROVE  /\ Head(s) \in X /\ Tail(s) \in Seq(X)
         /\ Head(s) \in SeqSet(s)
         /\ SeqSet(s) = {Head(s)} \cup SeqSet(Tail(s))
<1>1. /\ Head(s) = s[1] /\ Head(s) \in X /\ Tail(s) \in Seq(X) /\ Len(Tail(s)) = Len(s) - 1
      /\ Len(s) \in Nat /\ Len(s) # 0
      /\ \A i \in 1..(Len(s) - 1) : Tail(s)[i] = s[i + 1]
  BY HeadTailProperties, EmptySeq, LenProperties
<1>2. SeqSet(Tail(s)) \subseteq SeqSet(s)
  BY <1>1 DEF SeqSet
<1>3. ASSUME NEW k \in 1..Len(s), k # 1 PROVE s[k] \in SeqSet(Tail(s))
  <2>1. k - 1 \in 1..(Len(s) - 1) /\ (k - 1) + 1 = k
    BY <1>1, <1>3
  <2>2. Tail(s)[k - 1] = s[k]
    BY <1>1, <2>1
  <2>. QED BY <1>1, <2>1, <2>2 DEF SeqSet
<1>4. 1 \in 1..Len(s)
  BY <1>1
<1>5. Head(s) \in SeqSet(s)
  BY <1>1, <1>4 DEF SeqSet
<1>. QED BY <1>1, <1>2, <1>3, <1>5 DEF SeqSet

LEMMA CandidatesRead ==
  ASSUME NEW f \in Functions, NEW name, NEW use
  PROVE  /\ Candidates(f, name, use) \in Seq(ExprOf(f))
         /\ IsBound(f, name, use) => Candidates(f, name, use) = BindingsIn(f, name, use)
         /\ ~ IsBound(f, name, use) =>
              Candidates(f, name, use) = IF name = Param THEN CallsTo(f) ELSE <<>>
BY BindingsRead, CallsRead DEF Candidates, IsBound

(* An arm is one item of a choice, or the whole template. *)
LEMMA ArmShape ==
  ASSUME NEW e \in Expression
  PROVE  /\ Arms(e) \in Seq(Expression)
         /\ \A a \in SeqSet(Arms(e)) :
              /\ a.stmt = e.stmt /\ a.start = e.start /\ a.at = e.at /\ a.op = e.op
              /\ SeqSet(a.items) \subseteq SeqSet(e.items)
         /\ \A it \in SeqSet(e.items) : \E a \in SeqSet(Arms(e)) : it \in SeqSet(a.items)
         /\ \E a \in SeqSet(Arms(e)) : TRUE
<1>1. e.items \in Seq(Items) \ {<<>>} /\ e.op \in {"choice", "template"}
  BY DEF Expression
<1>2. CASE e.op = "choice"
  <2>. DEFINE arm(j) == [e EXCEPT !.items = <<e.items[j]>>]
              n == Len(e.items)
  <2>1. n \in Nat /\ n # 0
    BY <1>1
  <2>2. Arms(e) = [j \in 1..n |-> arm(j)]
    BY <1>2 DEF Arms
  <2>3. ASSUME NEW j \in 1..n
        PROVE  /\ arm(j) \in Expression /\ arm(j).items = <<e.items[j]>>
               /\ arm(j).stmt = e.stmt /\ arm(j).start = e.start /\ arm(j).at = e.at
               /\ arm(j).op = e.op
               /\ SeqSet(arm(j).items) = {e.items[j]}
               /\ e.items[j] \in SeqSet(e.items)
    <3>1. e.items[j] \in Items
      BY <1>1, <2>1
    <3>2. <<e.items[j]>> \in Seq(Items) \ {<<>>} /\ SeqSet(<<e.items[j]>>) = {e.items[j]}
      BY <3>1 DEF SeqSet
    <3>3. e.items[j] \in SeqSet(e.items)
      BY DEF SeqSet
    <3>. QED BY <3>2, <3>3 DEF Expression
  <2>. HIDE DEF arm
  <2>4. Arms(e) \in Seq(Expression) /\ Len(Arms(e)) = n
    <3>. HIDE DEF n
    <3>. QED BY <2>1, <2>2, <2>3
  <2>5. SeqSet(Arms(e)) = {arm(j) : j \in 1..n}
    <3>. HIDE DEF n
    <3>. QED BY <2>2, <2>4 DEF SeqSet
  <2>6. SeqSet(e.items) = {e.items[j] : j \in 1..n}
    BY DEF SeqSet
  <2>7. 1 \in 1..n
    BY <2>1
  <2>. HIDE DEF n
  <2>8. ASSUME NEW it \in SeqSet(e.items)
        PROVE  \E a \in SeqSet(Arms(e)) : it \in SeqSet(a.items)
    <3>1. PICK j \in 1..n : it = e.items[j]
      BY <2>6
    <3>. QED BY <2>3, <2>5, <3>1
  <2>9. ASSUME NEW a \in SeqSet(Arms(e))
        PROVE  /\ a.stmt = e.stmt /\ a.start = e.start /\ a.at = e.at /\ a.op = e.op
               /\ SeqSet(a.items) \subseteq SeqSet(e.items)
    <3>1. PICK j \in 1..n : a = arm(j)
      BY <2>5
    <3>. QED BY <2>3, <3>1
  <2>10. arm(1) \in SeqSet(Arms(e))
    BY <2>5, <2>7
  <2>. QED BY <2>4, <2>8, <2>9, <2>10
<1>3. CASE e.op # "choice"
  <2>1. Arms(e) = <<e>>
    BY <1>3 DEF Arms
  <2>2. <<e>> \in Seq(Expression) /\ SeqSet(<<e>>) = {e}
    BY DEF SeqSet
  <2>. QED BY <2>1, <2>2
<1>. QED BY <1>2, <1>3

TargetArms(f) == UNION {SeqSet(Arms(e)) : e \in SeqSet(BindingsIn(f, Target, End(f)))}

(* The alternatives are the arms of the target's bindings. *)
LEMMA AlternativesRead ==
  ASSUME NEW f \in Functions
  PROVE  LocalAssignments(f) \in Seq(Expression) /\ SeqSet(LocalAssignments(f)) = TargetArms(f)
<1>. DEFINE es == BindingsIn(f, Target, End(f))
            n == Len(es)
            ss == [j \in 1..n |-> Arms(es[j])]
<1>1. es \in Seq(Expression)
  BY BindingsRead, ExprOfShape
<1>2. n \in Nat /\ \A j \in 1..n : es[j] \in Expression
  BY <1>1
<1>3. ss \in Seq(Seq(Expression)) /\ Len(ss) = n
  <2>1. \A j \in 1..n : Arms(es[j]) \in Seq(Expression)
    BY <1>2, ArmShape
  <2>. HIDE DEF n, es
  <2>. QED BY <1>2, <2>1
<1>4. LocalAssignments(f) = Flatten(ss)
  BY DEF LocalAssignments
<1>5. UNION {SeqSet(ss[k]) : k \in 1..n} = TargetArms(f)
  <2>1. SeqSet(es) = {es[k] : k \in 1..n}
    BY DEF SeqSet
  <2>2. TargetArms(f) = UNION {SeqSet(Arms(e)) : e \in SeqSet(es)}
    BY DEF TargetArms
  <2>. HIDE DEF n, es
  <2>. QED BY <2>1, <2>2
<1>. HIDE DEF ss, n, es
<1>. QED BY <1>3, <1>4, <1>5, FlattenReads

-----------------------------------------------------------------------------
(* The value engine's inductive invariant *)

Reason == STRING \cup {"cycle", "depth", "no_binding", "param", "width"}

Leaf == ({"lit"} \X Nat) \cup ({"opaque"} \X Reason \X (Name \cup {"choice"}))

Value == SUBSET (SUBSET Leaf)

FrameType ==
  [name : Name, use : Nat, depth : Nat, todo : Seq(Expression), k : Nat \ {0},
   got : Value, acc : Value, inherits : BOOLEAN, self : Name \X Nat]

SiteType ==
  /\ fn \in Functions
  /\ alts \in Seq(Expression)
  /\ stack \in Seq(FrameType)
  /\ DOMAIN memo \subseteq Name \X Nat
  /\ \A q \in DOMAIN memo : memo[q] \in Value
  /\ paths \in Value
  /\ verdict \in {"open", "ok", "unresolved"}

SelfOf(fr) == IF fr.inherits THEN fr.self ELSE <<fr.name, Head(fr.todo).start>>

UseIn(fr, n) == IF SelfOf(fr)[1] = n THEN SelfOf(fr)[2] ELSE Head(fr.todo).at

Question(fr) == <<fr.name, fr.use>>

(* No argument reads n. *)
Unread(f, n) == \A e \in SeqSet(CallsTo(f)) : <<"name", n>> \notin SeqSet(e.items)

(* A lookup reads candidates of its question; call arguments are read under a
   self that none of them names. *)
LookupFrame(f, fr) ==
  /\ SeqSet(fr.todo) \subseteq SeqSet(Candidates(f, fr.name, fr.use))
  /\ fr.inherits <=> ~ IsBound(f, fr.name, fr.use)
  /\ fr.inherits => Unread(f, fr.self[1])
  /\ fr.use < End(f)

(* The query reads one arm of the target's bindings. *)
QueryFrame(f, fr) ==
  /\ fr.name = Target /\ fr.use = End(f) /\ fr.inherits
  /\ SeqSet(fr.todo) \subseteq TargetArms(f)
  /\ \A e \in SeqSet(fr.todo) : fr.self = <<Target, e.start>>

(* fr is reading the name n. *)
ReadsName(fr, n) ==
  /\ fr.todo # <<>>
  /\ fr.k \in 1..Len(Head(fr.todo).items)
  /\ Head(fr.todo).items[fr.k] = <<"name", n>>

(* Every lookup answers the name its reader has come to. *)
Framed ==
  /\ \A i \in 1..Len(stack) :
       IF i = Len(stack) THEN QueryFrame(fn, stack[i]) ELSE LookupFrame(fn, stack[i])
  /\ \A i \in 1..(Len(stack) - 1) :
       /\ ReadsName(stack[i + 1], stack[i].name)
       /\ stack[i].use = UseIn(stack[i + 1], stack[i].name)
  /\ verdict # "open" => stack = <<>>

LookupInv == SiteType /\ Apart(fn) /\ Framed /\ SelfNarrows

-----------------------------------------------------------------------------
(* The stack *)

LEMMA StackReplace ==
  ASSUME NEW X, NEW s \in Seq(X), s # <<>>, NEW x \in X
  PROVE  /\ <<x>> \o Tail(s) \in Seq(X)
         /\ Len(<<x>> \o Tail(s)) = Len(s)
         /\ (<<x>> \o Tail(s))[1] = x
         /\ \A i \in 2..Len(s) : (<<x>> \o Tail(s))[i] = s[i]
<1>1. /\ Tail(s) \in Seq(X) /\ Len(Tail(s)) = Len(s) - 1 /\ Len(s) \in Nat /\ Len(s) # 0
      /\ \A i \in 1..(Len(s) - 1) : Tail(s)[i] = s[i + 1]
  BY HeadTailProperties, EmptySeq, LenProperties
<1>2. <<x>> \in Seq(X) /\ Len(<<x>>) = 1 /\ <<x>>[1] = x
  OBVIOUS
<1>. DEFINE t == Tail(s)
            u == <<x>>
<1>. HIDE DEF t, u
<1>3. /\ u \o t \in Seq(X) /\ Len(u \o t) = 1 + Len(t)
      /\ \A i \in 1..(1 + Len(t)) : (u \o t)[i] = IF i <= 1 THEN u[i] ELSE t[i - 1]
  BY <1>1, <1>2, ConcatProperties DEF t, u
<1>4. ASSUME NEW i \in 2..Len(s) PROVE (u \o t)[i] = s[i]
  <2>1. i \in 1..(1 + Len(t)) /\ ~ (i <= 1) /\ i - 1 \in 1..(Len(s) - 1) /\ (i - 1) + 1 = i
    BY <1>1 DEF t
  <2>2. (u \o t)[i] = t[i - 1]
    BY <1>3, <2>1
  <2>3. t[i - 1] = s[i]
    BY <1>1, <2>1 DEF t
  <2>. QED BY <2>2, <2>3
<1>5. (u \o t)[1] = x
  BY <1>1, <1>2, <1>3 DEF t, u
<1>6. Len(u \o t) = Len(s)
  BY <1>1, <1>3 DEF t
<1>. QED BY <1>3, <1>4, <1>5, <1>6 DEF t, u

LEMMA StackPush ==
  ASSUME NEW X, NEW s \in Seq(X), NEW x \in X
  PROVE  /\ <<x>> \o s \in Seq(X)
         /\ Len(<<x>> \o s) = Len(s) + 1
         /\ (<<x>> \o s)[1] = x
         /\ \A i \in 1..Len(s) : (<<x>> \o s)[i + 1] = s[i]
<1>1. <<x>> \in Seq(X) /\ Len(<<x>>) = 1 /\ <<x>>[1] = x /\ Len(s) \in Nat
  OBVIOUS
<1>. DEFINE u == <<x>>
<1>. HIDE DEF u
<1>2. /\ u \o s \in Seq(X) /\ Len(u \o s) = 1 + Len(s)
      /\ \A i \in 1..(1 + Len(s)) : (u \o s)[i] = IF i <= 1 THEN u[i] ELSE s[i - 1]
  BY <1>1, ConcatProperties DEF u
<1>3. ASSUME NEW i \in 1..Len(s) PROVE (u \o s)[i + 1] = s[i]
  <2>1. i + 1 \in 1..(1 + Len(s)) /\ ~ (i + 1 <= 1) /\ (i + 1) - 1 = i
    BY <1>1
  <2>. QED BY <1>2, <2>1
<1>4. (u \o s)[1] = x
  BY <1>1, <1>2 DEF u
<1>. QED BY <1>1, <1>2, <1>3, <1>4 DEF u

LEMMA StackPop ==
  ASSUME NEW X, NEW s \in Seq(X), Len(s) > 1, NEW x \in X
  PROVE  /\ <<x>> \o Tail(Tail(s)) \in Seq(X)
         /\ Len(<<x>> \o Tail(Tail(s))) = Len(s) - 1
         /\ (<<x>> \o Tail(Tail(s)))[1] = x
         /\ \A i \in 2..(Len(s) - 1) : (<<x>> \o Tail(Tail(s)))[i] = s[i + 1]
<1>. DEFINE t == Tail(s)
<1>1. /\ t \in Seq(X) /\ Len(t) = Len(s) - 1 /\ Len(s) \in Nat
      /\ \A i \in 1..(Len(s) - 1) : t[i] = s[i + 1]
  BY HeadTailProperties, EmptySeq, LenProperties
<1>. HIDE DEF t
<1>2. t # <<>>
  BY <1>1
<1>3. /\ <<x>> \o Tail(t) \in Seq(X)
      /\ Len(<<x>> \o Tail(t)) = Len(t)
      /\ (<<x>> \o Tail(t))[1] = x
      /\ \A i \in 2..Len(t) : (<<x>> \o Tail(t))[i] = t[i]
  BY <1>1, <1>2, StackReplace
<1>. QED BY <1>1, <1>3 DEF t

-----------------------------------------------------------------------------
(* Readers *)

(* The expression a reader is at, and where it comes from. *)
LEMMA CurrentExpr ==
  ASSUME NEW fr \in FrameType, fr.todo # <<>>
  PROVE  /\ Head(fr.todo) \in Expression /\ Head(fr.todo) \in SeqSet(fr.todo)
         /\ Head(fr.todo).items \in Seq(Items) /\ Len(Head(fr.todo).items) \in Nat \ {0}
         /\ Head(fr.todo).at \in Nat /\ Head(fr.todo).start \in Nat
         /\ Head(fr.todo).stmt \in Nat
         /\ Head(fr.todo).op \in {"choice", "template"}
<1>1. fr.todo \in Seq(Expression)
  BY DEF FrameType
<1>2. Head(fr.todo) \in Expression /\ Head(fr.todo) \in SeqSet(fr.todo)
  BY <1>1, HeadTailSet
<1>3. /\ Head(fr.todo).items \in Seq(Items) \ {<<>>}
      /\ Head(fr.todo).at \in Nat /\ Head(fr.todo).start \in Nat /\ Head(fr.todo).stmt \in Nat
      /\ Head(fr.todo).op \in {"choice", "template"}
  BY <1>2 DEF Expression
<1>4. Len(Head(fr.todo).items) \in Nat \ {0}
  BY <1>3
<1>. QED BY <1>2, <1>3, <1>4

LEMMA NamedItem ==
  ASSUME NEW fr \in FrameType, NEW n, ReadsName(fr, n)
  PROVE  n \in Name /\ <<"name", n>> \in SeqSet(Head(fr.todo).items)
<1>1. Head(fr.todo).items \in Seq(Items)
  BY CurrentExpr DEF ReadsName
<1>2. Head(fr.todo).items[fr.k] \in Items
  BY <1>1 DEF ReadsName
<1>3. <<"name", n>> \in Items
  BY <1>2 DEF ReadsName
<1>4. n \in Name
  BY <1>3 DEF Items
<1>. QED BY <1>4 DEF ReadsName, SeqSet

(* A binding that is read is a statement that binds the name before the use. *)
LEMMA BindingOf ==
  ASSUME NEW f \in Functions, NEW n, NEW use, NEW e \in SeqSet(BindingsIn(f, n, use))
  PROVE  /\ e \in Expression /\ e.at < End(f) /\ e.start < End(f) /\ e.start < use
         /\ \E i \in 1..Len(f) : /\ f[i].kind = "bind" /\ f[i].name = n
                                 /\ e = Expr(f, i) /\ e.items = f[i].items
<1>1. PICK i \in 1..Len(f) : f[i].kind = "bind" /\ f[i].name = n /\ Start(i) < use /\ e = Expr(f, i)
  BY BindingsRead
<1>2. e.start = Start(i)
  BY <1>1, ExprShape DEF Start
<1>. QED BY <1>1, <1>2, ExprShape

LEMMA CallOf ==
  ASSUME NEW f \in Functions, NEW e \in SeqSet(CallsTo(f))
  PROVE  /\ e \in Expression /\ e.at < End(f) /\ e.start < End(f)
         /\ \E j \in 1..Len(f) : f[j].kind = "call" /\ e = Expr(f, j) /\ e.items = f[j].items
<1>1. PICK j \in 1..Len(f) : f[j].kind = "call" /\ e = Expr(f, j)
  BY CallsRead
<1>. QED BY <1>1, ExprShape

(* An arm of the target belongs to one of its bindings. *)
LEMMA ArmOf ==
  ASSUME NEW f \in Functions, NEW a \in TargetArms(f)
  PROVE  \E e \in SeqSet(BindingsIn(f, Target, End(f))) :
           /\ e \in Expression /\ a \in SeqSet(Arms(e))
           /\ a.stmt = e.stmt /\ a.start = e.start /\ a.at = e.at /\ a.op = e.op
           /\ SeqSet(a.items) \subseteq SeqSet(e.items)
<1>1. PICK e \in SeqSet(BindingsIn(f, Target, End(f))) : a \in SeqSet(Arms(e))
  BY DEF TargetArms
<1>2. e \in Expression
  BY BindingOf
<1>. QED BY <1>1, <1>2, ArmShape

(* A name that a binding assigns from the parameter is read by no argument. *)
LEMMA ApartUnread ==
  ASSUME NEW f \in Functions, Apart(f), NEW n, NEW use, NEW e \in SeqSet(BindingsIn(f, n, use)),
         <<"name", Param>> \in SeqSet(e.items)
  PROVE  Unread(f, n)
<1>1. PICK i \in 1..Len(f) : f[i].kind = "bind" /\ f[i].name = n /\ e.items = f[i].items
  BY BindingOf
<1>2. Reads(f[i], Param)
  BY <1>1 DEF Reads, SeqSet
<1>3. ASSUME NEW c \in SeqSet(CallsTo(f)) PROVE <<"name", n>> \notin SeqSet(c.items)
  <2>1. PICK j \in 1..Len(f) : f[j].kind = "call" /\ c.items = f[j].items
    BY CallOf
  <2>2. i \in DOMAIN f /\ j \in DOMAIN f
    BY TextShape
  <2>3. ~ Reads(f[j], n)
    BY <1>1, <1>2, <2>1, <2>2 DEF Apart
  <2>. QED BY <2>1, <2>3 DEF Reads, SeqSet
<1>. QED BY <1>3 DEF Unread

LEMMA SelfUnread ==
  ASSUME NEW f \in Functions, Apart(f), NEW fr \in FrameType, ReadsName(fr, Param),
         LookupFrame(f, fr) \/ QueryFrame(f, fr)
  PROVE  Unread(f, SelfOf(fr)[1])
<1>. DEFINE e == Head(fr.todo)
<1>1. e \in SeqSet(fr.todo) /\ <<"name", Param>> \in SeqSet(e.items)
  BY CurrentExpr, NamedItem DEF ReadsName
<1>. HIDE DEF e
<1>2. CASE LookupFrame(f, fr) /\ fr.inherits
  BY <1>2 DEF LookupFrame, SelfOf
<1>3. CASE LookupFrame(f, fr) /\ ~ fr.inherits
  <2>1. e \in SeqSet(BindingsIn(f, fr.name, fr.use))
    BY <1>1, <1>3, CandidatesRead DEF LookupFrame
  <2>2. SelfOf(fr)[1] = fr.name
    BY <1>3 DEF SelfOf
  <2>. QED BY <1>1, <2>1, <2>2, ApartUnread
<1>4. CASE QueryFrame(f, fr)
  <2>1. e \in TargetArms(f) /\ SelfOf(fr)[1] = Target
    BY <1>1, <1>4 DEF QueryFrame, SelfOf
  <2>2. PICK b \in SeqSet(BindingsIn(f, Target, End(f))) : SeqSet(e.items) \subseteq SeqSet(b.items)
    BY <2>1, ArmOf
  <2>. QED BY <1>1, <2>1, <2>2, ApartUnread
<1>. QED BY <1>2, <1>3, <1>4

(* A reader asks what its question asks. *)
LEMMA ReaderAsks ==
  ASSUME NEW f \in Functions, NEW fr \in FrameType, NEW n, ReadsName(fr, n),
         LookupFrame(f, fr) \/ QueryFrame(f, fr)
  PROVE  /\ n \in Name
         /\ UseIn(fr, n) \in Nat /\ UseIn(fr, n) < End(f)
         /\ <<n, UseIn(fr, n)>> \in AskedBy(f, Question(fr))
<1>. DEFINE e == Head(fr.todo)
            q == Question(fr)
<1>1. /\ e \in SeqSet(fr.todo) /\ <<"name", n>> \in SeqSet(e.items) /\ n \in Name
      /\ e.at \in Nat /\ e.start \in Nat
  BY CurrentExpr, NamedItem DEF ReadsName
<1>2. n # ""
  BY <1>1, TextAssumption
<1>3. q[1] = fr.name /\ q[2] = fr.use
  BY DEF Question
<1>4. UseIn(fr, n) = IF SelfOf(fr)[1] = n THEN SelfOf(fr)[2] ELSE e.at
  BY DEF UseIn
<1>5. SelfOf(fr) = IF fr.inherits THEN fr.self ELSE <<fr.name, e.start>>
  BY DEF SelfOf
<1>6. ASSUME NEW d, NEW m, <<"name", n>> \in SeqSet(d.items)
      PROVE  <<n, IF n = m THEN d.start ELSE d.at>> \in Asks(d, m)
  BY <1>1, <1>6 DEF Asks, SeqSet
<1>. HIDE DEF e, q
<1>7. CASE LookupFrame(f, fr) /\ fr.inherits
  <2>1. ~ IsBound(f, fr.name, fr.use) /\ Unread(f, fr.self[1])
    BY <1>7 DEF LookupFrame
  <2>2. e \in SeqSet(Candidates(f, fr.name, fr.use))
    BY <1>1, <1>7 DEF LookupFrame
  <2>3. e \in SeqSet(CallsTo(f))
    <3>1. Candidates(f, fr.name, fr.use) = IF fr.name = Param THEN CallsTo(f) ELSE <<>>
      BY <2>1, CandidatesRead
    <3>2. SeqSet(<<>>) = {}
      BY DEF SeqSet
    <3>. QED BY <2>2, <3>1, <3>2
  <2>4. n # fr.self[1]
    BY <1>1, <2>1, <2>3 DEF Unread
  <2>5. UseIn(fr, n) = e.at
    BY <1>4, <1>5, <1>7, <2>4
  <2>6. <<n, e.at>> \in Asks(e, "")
    BY <1>1, <1>2, <1>6
  <2>7. <<n, e.at>> \in AskedBy(f, q)
    BY <1>3, <2>1, <2>2, <2>6 DEF AskedBy
  <2>. QED BY <1>1, <2>3, <2>5, <2>7, CallOf DEF q
<1>8. CASE LookupFrame(f, fr) /\ ~ fr.inherits
  <2>1. IsBound(f, fr.name, fr.use)
    BY <1>8 DEF LookupFrame
  <2>2. e \in SeqSet(Candidates(f, fr.name, fr.use))
    BY <1>1, <1>8 DEF LookupFrame
  <2>3. e \in SeqSet(BindingsIn(f, fr.name, fr.use))
    BY <2>1, <2>2, CandidatesRead
  <2>4. UseIn(fr, n) = IF n = fr.name THEN e.start ELSE e.at
    BY <1>4, <1>5, <1>8
  <2>5. <<n, UseIn(fr, n)>> \in Asks(e, fr.name)
    BY <1>1, <1>6, <2>4
  <2>6. <<n, UseIn(fr, n)>> \in AskedBy(f, q)
    BY <1>3, <2>1, <2>2, <2>5 DEF AskedBy
  <2>. QED BY <1>1, <2>3, <2>4, <2>6, BindingOf DEF q
<1>9. CASE QueryFrame(f, fr)
  <2>1. e \in TargetArms(f) /\ fr.self = <<Target, e.start>> /\ fr.name = Target /\ fr.use = End(f)
    BY <1>1, <1>9 DEF QueryFrame
  <2>2. PICK b \in SeqSet(BindingsIn(f, Target, End(f))) :
          /\ e.start = b.start /\ e.at = b.at /\ SeqSet(e.items) \subseteq SeqSet(b.items)
    BY <2>1, ArmOf
  <2>3. IsBound(f, Target, End(f))
    <3>1. BindingsIn(f, Target, End(f)) \in Seq(ExprOf(f))
      BY BindingsRead
    <3>. QED BY <2>2, <3>1, EmptySeqSet DEF IsBound
  <2>4. b \in SeqSet(Candidates(f, Target, End(f)))
    BY <2>2, <2>3, CandidatesRead
  <2>5. UseIn(fr, n) = IF n = Target THEN b.start ELSE b.at
    BY <1>4, <1>5, <1>9, <2>1, <2>2 DEF QueryFrame
  <2>6. <<n, UseIn(fr, n)>> \in Asks(b, Target)
    BY <1>1, <1>6, <2>2, <2>5
  <2>7. <<n, UseIn(fr, n)>> \in AskedBy(f, q)
    BY <1>3, <2>1, <2>3, <2>4, <2>6 DEF AskedBy
  <2>8. b.at < End(f) /\ b.start < End(f)
    BY <2>2, BindingOf
  <2>. QED BY <1>1, <2>2, <2>5, <2>7, <2>8 DEF q
<1>. QED BY <1>7, <1>8, <1>9

LEMMA TopFacts ==
  ASSUME SiteType, Framed, stack # <<>>
  PROVE  /\ Top = stack[1] /\ Top \in FrameType /\ Len(stack) \in Nat \ {0} /\ 1 \in 1..Len(stack)
         /\ \A i \in 1..Len(stack) : stack[i] \in FrameType
         /\ Len(stack) = 1 => QueryFrame(fn, Top)
         /\ Len(stack) # 1 => LookupFrame(fn, Top)
         /\ verdict = "open" /\ fn \in Functions
<1>1. stack \in Seq(FrameType) /\ fn \in Functions
  BY DEF SiteType
<1>2. /\ Top = stack[1] /\ Top \in FrameType /\ Len(stack) \in Nat \ {0} /\ 1 \in 1..Len(stack)
      /\ \A i \in 1..Len(stack) : stack[i] \in FrameType
  BY <1>1 DEF Top
<1>3. IF 1 = Len(stack) THEN QueryFrame(fn, stack[1]) ELSE LookupFrame(fn, stack[1])
  BY <1>2 DEF Framed
<1>4. verdict = "open"
  BY DEF Framed
<1>. QED BY <1>1, <1>2, <1>3, <1>4

(* The name under the reader, and the question it asks. *)
LEMMA Asked ==
  ASSUME SiteType, Framed, Reading, NEW n, Item = <<"name", n>>
  PROVE  /\ ReadsName(Top, n) /\ n \in Name
         /\ Self = SelfOf(Top) /\ UseOf(n) = UseIn(Top, n)
         /\ UseOf(n) \in Nat /\ UseOf(n) < End(fn)
         /\ <<n, UseOf(n)>> \in AskedBy(fn, Question(Top))
<1>1. stack # <<>> /\ Top.todo # <<>> /\ Top.k <= Len(E.items)
  BY DEF Reading
<1>2. Top \in FrameType /\ fn \in Functions /\ (LookupFrame(fn, Top) \/ QueryFrame(fn, Top))
  BY <1>1, TopFacts
<1>3. Top.k \in Nat \ {0} /\ Len(Head(Top.todo).items) \in Nat
  BY <1>1, <1>2, CurrentExpr DEF FrameType
<1>4. ReadsName(Top, n)
  BY <1>1, <1>3 DEF ReadsName, E, Item
<1>5. Self = SelfOf(Top) /\ UseOf(n) = UseIn(Top, n)
  BY DEF Self, SelfOf, UseOf, UseIn, E
<1>. QED BY <1>2, <1>4, <1>5, ReaderAsks

(* A lookup that is entered asks an earlier position than every lookup of the
   same name in progress. *)
LEMMA EntersEarlier ==
  ASSUME LookupInv, Reading, NEW n, Item = <<"name", n>>, Enterable(n)
  PROVE  \A j \in 1..Len(stack) : stack[j].name = n => UseOf(n) < stack[j].use
<1>. SUFFICES ASSUME NEW j \in 1..Len(stack), stack[j].name = n PROVE UseOf(n) < stack[j].use
  OBVIOUS
<1>1. stack # <<>> /\ Top.todo # <<>>
  BY DEF Reading
<1>2. /\ Top = stack[1] /\ Top \in FrameType /\ Len(stack) \in Nat \ {0} /\ fn \in Functions
      /\ Len(stack) # 1 => LookupFrame(fn, Top)
      /\ \A i \in 1..Len(stack) : stack[i] \in FrameType
  BY <1>1, TopFacts DEF LookupInv
<1>3. /\ ReadsName(Top, n) /\ n \in Name /\ UseOf(n) \in Nat /\ UseOf(n) < End(fn)
      /\ UseOf(n) = UseIn(Top, n) /\ Self = SelfOf(Top)
  BY Asked DEF LookupInv
<1>4. CASE j = Len(stack)
  BY <1>3, <1>4 DEF LookupInv, Framed, QueryFrame
<1>5. CASE j # Len(stack)
  <2>1. j \in 1..(Len(stack) - 1) /\ Len(stack) # 1
    BY <1>2, <1>5
  <2>2. n \in Visiting
    BY <2>1 DEF Visiting
  <2>3. SelfOf(Top)[1] = n
    BY <1>3, <2>2 DEF Enterable
  <2>4. LookupFrame(fn, Top)
    BY <1>2, <2>1
  <2>. DEFINE e == Head(Top.todo)
  <2>5. e \in SeqSet(Top.todo) /\ <<"name", n>> \in SeqSet(e.items) /\ e.start \in Nat
    BY <1>1, <1>2, <1>3, CurrentExpr, NamedItem
  <2>6. e \in SeqSet(Candidates(fn, Top.name, Top.use))
    BY <2>4, <2>5 DEF LookupFrame
  <2>7. CASE Top.inherits
    <3>1. ~ IsBound(fn, Top.name, Top.use) /\ Unread(fn, Top.self[1])
      BY <2>4, <2>7 DEF LookupFrame
    <3>2. Candidates(fn, Top.name, Top.use) = IF Top.name = Param THEN CallsTo(fn) ELSE <<>>
      BY <1>2, <3>1, CandidatesRead
    <3>3. SeqSet(<<>>) = {}
      BY DEF SeqSet
    <3>4. e \in SeqSet(CallsTo(fn))
      BY <2>6, <3>2, <3>3
    <3>5. Top.self[1] = n
      BY <2>3, <2>7 DEF SelfOf
    <3>. QED BY <2>5, <3>1, <3>4, <3>5 DEF Unread
  <2>8. CASE ~ Top.inherits
    <3>1. IsBound(fn, Top.name, Top.use)
      BY <2>4, <2>8 DEF LookupFrame
    <3>2. e \in SeqSet(BindingsIn(fn, Top.name, Top.use))
      BY <1>2, <2>6, <3>1, CandidatesRead
    <3>3. e.start < Top.use
      BY <1>2, <3>2, BindingOf
    <3>4. Top.name = n /\ UseOf(n) = e.start
      BY <1>3, <2>3, <2>8 DEF SelfOf, UseIn
    <3>5. Top.use <= stack[j].use
      <4>1. CASE j = 1
        BY <1>2, <4>1 DEF FrameType
      <4>2. CASE j # 1
        <5>1. 1 \in 1..Len(stack) /\ 1 < j
          BY <1>2, <4>2
        <5>2. Top.use < stack[j].use
          BY <1>2, <3>4, <5>1 DEF LookupInv, SelfNarrows
        <5>. QED BY <1>2, <5>2 DEF FrameType
      <4>. QED BY <4>1, <4>2
    <3>6. Top.use \in Nat /\ stack[j].use \in Nat
      BY <1>2 DEF FrameType
    <3>. HIDE DEF e
    <3>. QED BY <2>5, <3>3, <3>4, <3>5, <3>6
  <2>. QED BY <2>7, <2>8
<1>. QED BY <1>4, <1>5

-----------------------------------------------------------------------------
(* Steps of the stack *)

(* x continues the frame fr: it answers the same question. *)
Continues(x, fr) ==
  /\ x.name = fr.name /\ x.use = fr.use /\ x.self = fr.self /\ (x.inherits <=> fr.inherits)
  /\ SeqSet(x.todo) \subseteq SeqSet(fr.todo)

LEMMA ContinuesFrame ==
  ASSUME NEW f, NEW x, NEW fr, Continues(x, fr)
  PROVE  /\ LookupFrame(f, fr) => LookupFrame(f, x)
         /\ QueryFrame(f, fr) => QueryFrame(f, x)
<1>1. LookupFrame(f, fr) => LookupFrame(f, x)
  BY DEF Continues, LookupFrame
<1>2. QueryFrame(f, fr) => QueryFrame(f, x)
  BY DEF Continues, QueryFrame
<1>. QED BY <1>1, <1>2

LEMMA TopStep ==
  ASSUME LookupInv, stack # <<>>, NEW x \in FrameType, Continues(x, Top),
         stack' = <<x>> \o Below, fn' = fn, verdict' = verdict
  PROVE  stack' \in Seq(FrameType) /\ Framed' /\ SelfNarrows'
<1>1. /\ Top = stack[1] /\ Len(stack) \in Nat \ {0} /\ stack \in Seq(FrameType)
      /\ Len(stack) = 1 => QueryFrame(fn, Top)
      /\ Len(stack) # 1 => LookupFrame(fn, Top)
      /\ verdict = "open"
  BY TopFacts DEF LookupInv, SiteType
<1>2. /\ stack' \in Seq(FrameType) /\ Len(stack') = Len(stack) /\ stack'[1] = x
      /\ \A i \in 2..Len(stack) : stack'[i] = stack[i]
  BY StackReplace DEF Below, LookupInv, SiteType
<1>3. \A i \in 1..Len(stack) : stack'[i].name = stack[i].name /\ stack'[i].use = stack[i].use
  BY <1>1, <1>2 DEF Continues
<1>4. SelfNarrows'
  BY <1>2, <1>3 DEF SelfNarrows, LookupInv
<1>5. ASSUME NEW i \in 1..Len(stack)
      PROVE  IF i = Len(stack) THEN QueryFrame(fn, stack'[i]) ELSE LookupFrame(fn, stack'[i])
  <2>1. CASE i = 1
    BY <1>1, <1>2, <2>1, ContinuesFrame
  <2>2. CASE i # 1
    BY <1>1, <1>2, <2>2 DEF LookupInv, Framed
  <2>. QED BY <2>1, <2>2
<1>6. ASSUME NEW i \in 1..(Len(stack) - 1)
      PROVE  /\ ReadsName(stack'[i + 1], stack'[i].name)
             /\ stack'[i].use = UseIn(stack'[i + 1], stack'[i].name)
  <2>1. i + 1 \in 2..Len(stack) /\ i \in 1..Len(stack)
    BY <1>1
  <2>2. stack'[i + 1] = stack[i + 1] /\ stack'[i].name = stack[i].name /\ stack'[i].use = stack[i].use
    BY <1>2, <1>3, <2>1
  <2>. QED BY <2>2 DEF LookupInv, Framed
<1>7. Framed'
  BY <1>1, <1>2, <1>5, <1>6 DEF Framed
<1>. QED BY <1>2, <1>4, <1>7

LEMMA PopStep ==
  ASSUME LookupInv, Len(stack) > 1, NEW x \in FrameType, Continues(x, stack[2]),
         stack' = <<x>> \o Tail(Below), fn' = fn, verdict' = verdict
  PROVE  stack' \in Seq(FrameType) /\ Framed' /\ SelfNarrows'
<1>1. stack \in Seq(FrameType) /\ Len(stack) \in Nat /\ stack # <<>>
  BY DEF LookupInv, SiteType
<1>2. verdict = "open"
  BY <1>1, TopFacts DEF LookupInv
<1>. DEFINE n == Len(stack)
<1>3. /\ stack' \in Seq(FrameType) /\ Len(stack') = n - 1 /\ stack'[1] = x
      /\ \A i \in 2..(n - 1) : stack'[i] = stack[i + 1]
  BY <1>1, StackPop DEF Below
<1>. HIDE DEF n
<1>4. n \in Nat /\ n > 1 /\ Len(stack) = n
  BY <1>1 DEF n
<1>5. \A i \in 1..(n - 1) : stack'[i].name = stack[i + 1].name /\ stack'[i].use = stack[i + 1].use
  BY <1>3, <1>4 DEF Continues
<1>6. SelfNarrows'
  <2>. SUFFICES ASSUME NEW i \in 1..(n - 1), NEW j \in 1..(n - 1), i < j,
                       stack'[i].name = stack'[j].name
                PROVE  stack'[i].use < stack'[j].use
    BY <1>3 DEF SelfNarrows
  <2>1. i + 1 \in 1..n /\ j + 1 \in 1..n /\ i + 1 < j + 1
    BY <1>4
  <2>. QED BY <1>4, <1>5, <2>1 DEF LookupInv, SelfNarrows
<1>7. ASSUME NEW i \in 1..(n - 1)
      PROVE  IF i = n - 1 THEN QueryFrame(fn, stack'[i]) ELSE LookupFrame(fn, stack'[i])
  <2>1. i + 1 \in 1..n /\ (i = n - 1 <=> i + 1 = n)
    BY <1>4
  <2>2. IF i + 1 = n THEN QueryFrame(fn, stack[i + 1]) ELSE LookupFrame(fn, stack[i + 1])
    BY <1>4, <2>1 DEF LookupInv, Framed
  <2>3. CASE i = 1
    BY <1>3, <2>1, <2>2, <2>3, ContinuesFrame
  <2>4. CASE i # 1
    BY <1>3, <1>4, <2>1, <2>2, <2>4
  <2>. QED BY <2>3, <2>4
<1>8. ASSUME NEW i \in 1..((n - 1) - 1)
      PROVE  /\ ReadsName(stack'[i + 1], stack'[i].name)
             /\ stack'[i].use = UseIn(stack'[i + 1], stack'[i].name)
  <2>1. i + 1 \in 2..(n - 1) /\ i \in 1..(n - 1) /\ i + 1 \in 1..(n - 1)
    BY <1>4
  <2>2. stack'[i + 1] = stack[(i + 1) + 1]
    BY <1>3, <2>1
  <2>3. /\ ReadsName(stack[(i + 1) + 1], stack[i + 1].name)
        /\ stack[i + 1].use = UseIn(stack[(i + 1) + 1], stack[i + 1].name)
    BY <1>4, <2>1 DEF LookupInv, Framed
  <2>4. stack'[i].name = stack[i + 1].name /\ stack'[i].use = stack[i + 1].use
    BY <1>5, <2>1
  <2>. QED BY <2>2, <2>3, <2>4
<1>9. Framed'
  BY <1>2, <1>3, <1>7, <1>8 DEF Framed
<1>. QED BY <1>3, <1>6, <1>9

LEMMA PushStep ==
  ASSUME LookupInv, stack # <<>>, NEW x \in FrameType, LookupFrame(fn, x),
         ReadsName(Top, x.name), x.use = UseIn(Top, x.name),
         \A j \in 1..Len(stack) : stack[j].name = x.name => x.use < stack[j].use,
         stack' = <<x>> \o stack, fn' = fn, verdict' = verdict
  PROVE  stack' \in Seq(FrameType) /\ Framed' /\ SelfNarrows'
<1>1. stack \in Seq(FrameType) /\ Len(stack) \in Nat /\ verdict = "open" /\ Top = stack[1]
  BY TopFacts DEF LookupInv, SiteType
<1>. DEFINE n == Len(stack)
<1>2. /\ stack' \in Seq(FrameType) /\ Len(stack') = n + 1 /\ stack'[1] = x
      /\ \A i \in 1..n : stack'[i + 1] = stack[i]
  BY <1>1, StackPush
<1>3. n \in Nat \ {0}
  BY <1>1
<1>. HIDE DEF n
<1>4. \A i \in 2..(n + 1) : i - 1 \in 1..n /\ stack'[i] = stack[i - 1]
  <2>. SUFFICES ASSUME NEW i \in 2..(n + 1) PROVE i - 1 \in 1..n /\ stack'[i] = stack[i - 1]
    OBVIOUS
  <2>1. i - 1 \in 1..n /\ (i - 1) + 1 = i
    BY <1>3
  <2>. QED BY <1>2, <2>1
<1>5. SelfNarrows'
  <2>. SUFFICES ASSUME NEW i \in 1..(n + 1), NEW j \in 1..(n + 1), i < j,
                       stack'[i].name = stack'[j].name
                PROVE  stack'[i].use < stack'[j].use
    BY <1>2 DEF SelfNarrows
  <2>1. j \in 2..(n + 1) /\ j - 1 \in 1..n
    BY <1>3
  <2>2. stack'[j] = stack[j - 1]
    BY <1>4, <2>1
  <2>3. CASE i = 1
    BY <1>2, <2>1, <2>2, <2>3 DEF n
  <2>4. CASE i # 1
    <3>1. i \in 2..(n + 1) /\ i - 1 \in 1..n /\ i - 1 < j - 1
      BY <1>3, <2>4
    <3>2. stack'[i] = stack[i - 1]
      BY <1>4, <3>1
    <3>. QED BY <2>1, <2>2, <3>1, <3>2 DEF LookupInv, SelfNarrows, n
  <2>. QED BY <2>3, <2>4
<1>6. ASSUME NEW i \in 1..(n + 1)
      PROVE  IF i = n + 1 THEN QueryFrame(fn, stack'[i]) ELSE LookupFrame(fn, stack'[i])
  <2>1. CASE i = 1
    BY <1>2, <1>3, <2>1
  <2>2. CASE i # 1
    <3>1. i \in 2..(n + 1) /\ i - 1 \in 1..n /\ (i = n + 1 <=> i - 1 = n)
      BY <1>3, <2>2
    <3>. QED BY <1>4, <3>1 DEF LookupInv, Framed, n
  <2>. QED BY <2>1, <2>2
<1>7. ASSUME NEW i \in 1..((n + 1) - 1)
      PROVE  /\ ReadsName(stack'[i + 1], stack'[i].name)
             /\ stack'[i].use = UseIn(stack'[i + 1], stack'[i].name)
  <2>1. i \in 1..n /\ stack'[i + 1] = stack[i]
    BY <1>2, <1>3
  <2>2. CASE i = 1
    BY <1>1, <1>2, <2>1, <2>2
  <2>3. CASE i # 1
    <3>1. i \in 2..(n + 1) /\ i - 1 \in 1..(n - 1) /\ (i - 1) + 1 = i
      BY <1>3, <2>1, <2>3
    <3>2. stack'[i] = stack[i - 1]
      BY <1>4, <3>1
    <3>3. ReadsName(stack[i], stack[i - 1].name) /\ stack[i - 1].use = UseIn(stack[i], stack[i - 1].name)
      BY <3>1 DEF LookupInv, Framed, n
    <3>. QED BY <2>1, <3>2, <3>3
  <2>. QED BY <2>2, <2>3
<1>8. Framed'
  BY <1>1, <1>2, <1>6, <1>7 DEF Framed
<1>. QED BY <1>2, <1>5, <1>8

-----------------------------------------------------------------------------
(* Values *)

LEMMA OpaqueValue ==
  ASSUME NEW reason \in Reason, NEW n \in Name \cup {"choice"}
  PROVE  /\ Opaque(reason, n) \in Value /\ Opaque(reason, n) # {}
         /\ Lits(Opaque(reason, n)) = {} /\ Holes(Opaque(reason, n)) # {}
<1>1. <<"opaque", reason, n>> \in Leaf
  BY DEF Leaf
<1>. DEFINE o == <<"opaque", reason, n>>
<1>2. IsHole(o)
  BY DEF IsHole
<1>. HIDE DEF o
<1>3. Opaque(reason, n) = {{o}}
  BY DEF Opaque, o
<1>4. Leaves(Opaque(reason, n)) = {o}
  BY <1>3 DEF Leaves
<1>5. {{o}} \in Value
  BY <1>1 DEF Value, o
<1>. QED BY <1>2, <1>3, <1>4, <1>5 DEF Lits, Holes

LEMMA CapValue ==
  ASSUME NEW v \in Value, NEW n \in Name \cup {"choice"}
  PROVE  /\ CapUnion(v, n) \in Value
         /\ v # {} => CapUnion(v, n) # {}
         /\ Lits(CapUnion(v, n)) \subseteq Lits(v)
         /\ Holes(CapUnion(v, n)) # {} \/ CapUnion(v, n) = v
<1>1. CapUnion(v, n) = Opaque("width", n) \/ CapUnion(v, n) = v
  BY DEF CapUnion
<1>2. /\ Opaque("width", n) \in Value /\ Opaque("width", n) # {}
      /\ Lits(Opaque("width", n)) = {} /\ Holes(Opaque("width", n)) # {}
  <2>1. "width" \in Reason
    BY DEF Reason
  <2>. QED BY <2>1, OpaqueValue
<1>. QED BY <1>1, <1>2

LEMMA JoinLits ==
  ASSUME NEW v, NEW w
  PROVE  /\ Lits(v \cup w) = Lits(v) \cup Lits(w)
         /\ Holes(v \cup w) = Holes(v) \cup Holes(w)
<1>1. Leaves(v \cup w) = Leaves(v) \cup Leaves(w)
  BY DEF Leaves
<1>. QED BY <1>1 DEF Lits, Holes

LEMMA CombineValue ==
  ASSUME NEW e \in Expression, NEW v \in Value
  PROVE  /\ Combine(e, v) \in Value
         /\ v # {} => Combine(e, v) # {}
         /\ Lits(Combine(e, v)) \subseteq Lits(v) \cup (IF e.op = "template" THEN {LitLeaf(e.stmt)} ELSE {})
         /\ \/ Holes(Combine(e, v)) # {}
            \/ /\ Holes(v) = {} /\ Lits(v) \subseteq Lits(Combine(e, v))
               /\ e.op = "template" => LitLeaf(e.stmt) \in Lits(Combine(e, v))
<1>1. e.stmt \in Nat
  BY DEF Expression
<1>2. LitLeaf(e.stmt) \in Leaf /\ ~ IsHole(LitLeaf(e.stmt))
  BY <1>1 DEF Leaf, LitLeaf, IsHole
<1>3. CASE e.op = "template"
  <2>. DEFINE l == LitLeaf(e.stmt)
  <2>. HIDE DEF l
  <2>1. Combine(e, v) = {Leaves(v) \cup {l}}
    BY <1>3 DEF Combine, l
  <2>2. Leaves(v) \subseteq Leaf
    BY DEF Leaves, Value
  <2>3. Leaves(Combine(e, v)) = Leaves(v) \cup {l}
    BY <2>1 DEF Leaves
  <2>4. Combine(e, v) \in Value
    BY <1>2, <2>1, <2>2 DEF Value, l
  <2>5. Lits(Combine(e, v)) = Lits(v) \cup {l} /\ Holes(Combine(e, v)) = Holes(v)
    BY <1>2, <2>3 DEF Lits, Holes, l
  <2>. QED BY <1>3, <2>1, <2>4, <2>5 DEF l
<1>4. CASE e.op # "template"
  <2>1. Combine(e, v) = CapUnion(v, "choice")
    BY <1>4 DEF Combine
  <2>2. Holes(CapUnion(v, "choice")) # {} \/ (CapUnion(v, "choice") = v /\ Holes(v) = {})
    BY CapValue
  <2>. QED BY <1>4, <2>1, <2>2, CapValue
<1>. QED BY <1>3, <1>4

LEMMA LitValue ==
  ASSUME NEW i \in Nat
  PROVE  /\ {{LitLeaf(i)}} \in Value /\ Lits({{LitLeaf(i)}}) = {LitLeaf(i)}
         /\ Holes({{LitLeaf(i)}}) = {}
<1>1. LitLeaf(i) \in Leaf /\ ~ IsHole(LitLeaf(i))
  BY DEF Leaf, LitLeaf, IsHole
<1>. DEFINE l == LitLeaf(i)
<1>. HIDE DEF l
<1>2. Leaves({{l}}) = {l}
  BY DEF Leaves
<1>. QED BY <1>1, <1>2 DEF Value, Lits, Holes, l

(* The value is handed to the reader. *)
Taken(fr, v) == [fr EXCEPT !.got = @ \cup v, !.k = @ + 1]

LEMMA Given ==
  ASSUME NEW fr \in FrameType, NEW v \in Value
  PROVE  /\ Taken(fr, v) \in FrameType /\ Continues(Taken(fr, v), fr)
         /\ Taken(fr, v).got = fr.got \cup v /\ Taken(fr, v).k = fr.k + 1
         /\ Taken(fr, v).acc = fr.acc /\ Taken(fr, v).todo = fr.todo
<1>. DEFINE x == Taken(fr, v)
<1>0. x = [fr EXCEPT !.got = @ \cup v, !.k = @ + 1]
  BY DEF Taken
<1>. HIDE DEF x
<1>1. /\ x.got = fr.got \cup v /\ x.k = fr.k + 1 /\ x.acc = fr.acc /\ x.todo = fr.todo
      /\ x.name = fr.name /\ x.use = fr.use /\ x.self = fr.self /\ x.inherits = fr.inherits
  BY <1>0 DEF FrameType
<1>2. fr.got \cup v \in Value /\ fr.k + 1 \in Nat \ {0}
  BY DEF FrameType, Value
<1>3. x \in FrameType
  BY <1>0, <1>2 DEF FrameType
<1>. QED BY <1>1, <1>3 DEF Continues, x

(* The reader goes to its next expression. *)
Moved(fr, v) == [fr EXCEPT !.todo = Tail(@), !.k = 1, !.got = {}, !.acc = @ \cup v]

LEMMA Advanced ==
  ASSUME NEW fr \in FrameType, fr.todo # <<>>, NEW v \in Value
  PROVE  /\ Moved(fr, v) \in FrameType /\ Continues(Moved(fr, v), fr)
         /\ Moved(fr, v).got = {} /\ Moved(fr, v).k = 1
         /\ Moved(fr, v).acc = fr.acc \cup v /\ Moved(fr, v).todo = Tail(fr.todo)
<1>. DEFINE x == Moved(fr, v)
<1>0. x = [fr EXCEPT !.todo = Tail(@), !.k = 1, !.got = {}, !.acc = @ \cup v]
  BY DEF Moved
<1>. HIDE DEF x
<1>1. /\ x.got = {} /\ x.k = 1 /\ x.acc = fr.acc \cup v /\ x.todo = Tail(fr.todo)
      /\ x.name = fr.name /\ x.use = fr.use /\ x.self = fr.self /\ x.inherits = fr.inherits
  BY <1>0 DEF FrameType
<1>2. fr.todo \in Seq(Expression)
  BY DEF FrameType
<1>3. Tail(fr.todo) \in Seq(Expression) /\ SeqSet(Tail(fr.todo)) \subseteq SeqSet(fr.todo)
  BY <1>2, HeadTailSet
<1>4. fr.acc \cup v \in Value /\ {} \in Value /\ 1 \in Nat \ {0}
  BY DEF FrameType, Value
<1>5. x \in FrameType
  BY <1>0, <1>3, <1>4 DEF FrameType
<1>. QED BY <1>1, <1>3, <1>5 DEF Continues, x

LEMMA Remembered ==
  ASSUME NEW key, NEW v, Remember(key, v)
  PROVE  /\ DOMAIN memo' = DOMAIN memo \cup {key} /\ memo'[key] = v
         /\ \A q \in DOMAIN memo : q # key => memo'[q] = memo[q]
BY DEF Remember

LEMMA RememberedType ==
  ASSUME DOMAIN memo \subseteq Name \X Nat, \A q \in DOMAIN memo : memo[q] \in Value,
         NEW key \in Name \X Nat, NEW v \in Value, Remember(key, v)
  PROVE  DOMAIN memo' \subseteq Name \X Nat /\ \A q \in DOMAIN memo' : memo'[q] \in Value
<1>1. /\ DOMAIN memo' = DOMAIN memo \cup {key} /\ memo'[key] = v
      /\ \A q \in DOMAIN memo : q # key => memo'[q] = memo[q]
  BY Remembered
<1>. DEFINE QS == Name \X Nat
<1>. HIDE DEF QS
<1>2. DOMAIN memo' \subseteq QS
  BY <1>1 DEF QS
<1>3. ASSUME NEW q \in DOMAIN memo' PROVE memo'[q] \in Value
  <2>1. CASE q = key
    BY <1>1, <2>1
  <2>2. CASE q # key
    BY <1>1, <1>3, <2>2
  <2>. QED BY <2>1, <2>2
<1>. QED BY <1>2, <1>3 DEF QS

(* What a value holds as the answer of one step. *)
LEMMA ReadTextStep ==
  ASSUME SiteType, Framed, ReadText
  PROVE  /\ {{LitLeaf(E.stmt)}} \in Value
         /\ Item = <<"text">>
<1>1. Top \in FrameType /\ Top.todo # <<>> /\ Top.k <= Len(E.items)
  BY TopFacts DEF ReadText, Reading
<1>2. E.stmt \in Nat /\ E.items \in Seq(Items) /\ Top.k \in Nat \ {0}
  BY <1>1, CurrentExpr DEF E, FrameType
<1>3. Item \in Items
  BY <1>1, <1>2 DEF Item
<1>4. Item = <<"text">>
  BY <1>3 DEF Items, ReadText
<1>. QED BY <1>2, <1>4, LitValue

LEMMA ReadStopStep ==
  ASSUME SiteType, Framed, ReadStop
  PROVE  /\ Opaque(Item[2], Target) \in Value /\ Opaque(Item[2], Target) # {}
         /\ Lits(Opaque(Item[2], Target)) = {} /\ Holes(Opaque(Item[2], Target)) # {}
<1>1. Top \in FrameType /\ Top.todo # <<>> /\ Top.k <= Len(E.items)
  BY TopFacts DEF ReadStop, Reading
<1>2. E.items \in Seq(Items) /\ Top.k \in Nat \ {0}
  BY <1>1, CurrentExpr DEF E, FrameType
<1>3. Item \in Items
  BY <1>1, <1>2 DEF Item
<1>4. Item[2] \in Reason
  BY <1>3 DEF Items, ReadStop, Reason
<1>5. Target \in Name
  BY DEF Name
<1>. QED BY <1>4, <1>5, OpaqueValue

StoppedValue(name) ==
  IF Candidates(fn, name, UseOf(name)) # <<>> THEN Opaque("width", name)
  ELSE Opaque(IF name = Param THEN "param" ELSE "no_binding", name)

LEMMA StoppedStep ==
  ASSUME NEW n \in Name, Stopped(n)
  PROVE  /\ Reading /\ Item = <<"name", n>> /\ Enterable(n)
         /\ <<n, UseOf(n)>> \notin DOMAIN memo
         /\ Remember(<<n, UseOf(n)>>, StoppedValue(n))
         /\ stack' = <<Give(StoppedValue(n))>> \o Below
         /\ fn' = fn /\ alts' = alts /\ paths' = paths /\ verdict' = verdict
         /\ StoppedValue(n) \in Value /\ StoppedValue(n) # {}
         /\ Lits(StoppedValue(n)) = {} /\ Holes(StoppedValue(n)) # {}
<1>1. /\ Reading /\ Item = <<"name", n>> /\ Enterable(n)
      /\ <<n, UseOf(n)>> \notin DOMAIN memo
      /\ Remember(<<n, UseOf(n)>>, StoppedValue(n))
      /\ stack' = <<Give(StoppedValue(n))>> \o Below
      /\ fn' = fn /\ alts' = alts /\ paths' = paths /\ verdict' = verdict
  BY DEF Stopped, Asking, MemoKey, StoppedValue
<1>2. StoppedValue(n) \in {Opaque("width", n), Opaque("param", n), Opaque("no_binding", n)}
  BY DEF StoppedValue
<1>3. \A r \in {"width", "param", "no_binding"} : r \in Reason
  BY DEF Reason
<1>4. \A r \in {"width", "param", "no_binding"} :
        /\ Opaque(r, n) \in Value /\ Opaque(r, n) # {}
        /\ Lits(Opaque(r, n)) = {} /\ Holes(Opaque(r, n)) # {}
  BY <1>3, OpaqueValue
<1>. QED BY <1>1, <1>2, <1>4

(* A lookup that is entered is a lookup frame. *)
LEMMA LookUpStep ==
  ASSUME LookupInv, NEW n \in Name, LookUp(n)
  PROVE  \E x \in FrameType :
           /\ LookupFrame(fn, x) /\ x.name = n /\ x.use = UseOf(n)
           /\ x.todo = Candidates(fn, n, UseOf(n)) /\ x.todo # <<>>
           /\ x.got = {} /\ x.acc = {} /\ x.k = 1
           /\ stack' = <<x>> \o stack
<1>. DEFINE u == UseOf(n)
            cs == Candidates(fn, n, u)
            x == Frame(n, u, Hop, cs, ~ IsBound(fn, n, u), Self)
<1>1. /\ Reading /\ Item = <<"name", n>> /\ cs # <<>> /\ stack' = <<x>> \o stack
      /\ stack # <<>>
  BY DEF LookUp, Asking, Reading
<1>2. /\ ReadsName(Top, n) /\ Self = SelfOf(Top) /\ u \in Nat /\ u < End(fn)
  BY <1>1, Asked DEF LookupInv
<1>3. fn \in Functions /\ Top \in FrameType /\ (LookupFrame(fn, Top) \/ QueryFrame(fn, Top))
  BY <1>1, TopFacts DEF LookupInv
<1>4. cs \in Seq(Expression)
  BY <1>3, CandidatesRead, ExprOfShape
<1>5. Hop \in Nat
  BY <1>3 DEF Hop, FrameType
<1>6. Self \in Name \X Nat
  <2>1. Top.todo # <<>>
    BY <1>1 DEF Reading
  <2>2. Head(Top.todo).start \in Nat
    BY <1>3, <2>1, CurrentExpr
  <2>3. Top.self \in Name \X Nat /\ Top.name \in Name
    BY <1>3 DEF FrameType
  <2>. QED BY <1>2, <2>2, <2>3 DEF SelfOf
<1>7. {} \in Value
  BY DEF Value
<1>. DEFINE b == ~ IsBound(fn, n, u)
            s == Self
<1>. HIDE DEF u, cs
<1>8. x = [name |-> n, use |-> u, depth |-> Hop, todo |-> cs, k |-> 1, got |-> {}, acc |-> {},
           inherits |-> b, self |-> s]
      /\ b \in BOOLEAN /\ s \in Name \X Nat
  BY <1>6 DEF Frame, IsBound
<1>. HIDE DEF x, b, s
<1>9. x \in FrameType
  BY <1>2, <1>4, <1>5, <1>6, <1>7, <1>8 DEF FrameType
<1>10. /\ x.name = n /\ x.use = u /\ x.todo = cs /\ x.got = {} /\ x.acc = {} /\ x.k = 1
       /\ x.self = Self /\ (x.inherits <=> ~ IsBound(fn, n, u))
  <2>1. /\ x.name = n /\ x.use = u /\ x.todo = cs /\ x.got = {} /\ x.acc = {} /\ x.k = 1
        /\ x.self = s /\ x.inherits = b
    BY <1>8
  <2>. QED BY <2>1 DEF b, s
<1>11. ASSUME x.inherits PROVE Unread(fn, x.self[1])
  <2>1. n = Param
    BY <1>1, <1>3, <1>10, <1>11, CandidatesRead DEF cs
  <2>2. Unread(fn, SelfOf(Top)[1])
    BY <1>2, <1>3, <2>1, SelfUnread DEF LookupInv
  <2>. QED BY <1>2, <1>10, <2>2
<1>12. LookupFrame(fn, x)
  BY <1>2, <1>10, <1>11 DEF LookupFrame, cs
<1>. QED BY <1>1, <1>9, <1>10, <1>12 DEF u, cs

(* A query starts with one frame. *)
LEMMA ResolveStep ==
  ASSUME LookupInv, SeqSet(alts) \subseteq TargetArms(fn), Resolve
  PROVE  \E x \in FrameType :
           /\ QueryFrame(fn, x) /\ stack' = <<x>> /\ x.todo = <<Head(alts)>>
           /\ x.got = {} /\ x.acc = {} /\ x.k = 1
           /\ Head(alts) \in Expression /\ Head(alts) \in TargetArms(fn)
<1>. DEFINE a == Head(alts)
            x == Frame(Target, End(fn), 0, <<a>>, TRUE, <<Target, a.start>>)
<1>1. alts \in Seq(Expression) /\ alts # <<>> /\ fn \in Functions /\ stack' = <<x>>
  BY DEF LookupInv, SiteType, Resolve
<1>2. a \in Expression /\ a \in TargetArms(fn)
  BY <1>1, HeadTailSet
<1>3. a.start \in Nat /\ Target \in Name /\ {} \in Value
  BY <1>2 DEF Expression, Name, Value
<1>4. End(fn) \in Nat
  BY <1>1, TextShape DEF End, Start
<1>. HIDE DEF a
<1>5. <<a>> \in Seq(Expression) /\ SeqSet(<<a>>) = {a}
  BY <1>2 DEF SeqSet
<1>6. x = [name |-> Target, use |-> End(fn), depth |-> 0, todo |-> <<a>>, k |-> 1, got |-> {},
           acc |-> {}, inherits |-> TRUE, self |-> <<Target, a.start>>]
  BY DEF Frame
<1>. HIDE DEF x
<1>7. x \in FrameType
  BY <1>3, <1>4, <1>5, <1>6 DEF FrameType
<1>8. QueryFrame(fn, x)
  BY <1>2, <1>5, <1>6 DEF QueryFrame
<1>9. x.todo = <<a>> /\ x.got = {} /\ x.acc = {} /\ x.k = 1
  BY <1>6
<1>. QED BY <1>1, <1>2, <1>7, <1>8, <1>9 DEF a

(* Only arms of the target are left to resolve. *)
ArmsLeft == SeqSet(alts) \subseteq TargetArms(fn)

LEMMA LookupInvInit == SiteInit /\ Apart(fn) => LookupInv /\ ArmsLeft
<1>. SUFFICES ASSUME SiteInit, Apart(fn) PROVE LookupInv /\ ArmsLeft
  OBVIOUS
<1>1. fn \in Functions /\ alts = LocalAssignments(fn) /\ stack = <<>> /\ memo = <<>> /\ paths = {}
      /\ verdict = "open"
  BY DEF SiteInit
<1>2. alts \in Seq(Expression) /\ ArmsLeft
  BY <1>1, AlternativesRead DEF ArmsLeft
<1>3. DOMAIN memo = {} /\ stack \in Seq(FrameType) /\ Len(stack) = 0 /\ paths \in Value
  BY <1>1 DEF Value
<1>4. SiteType
  BY <1>1, <1>2, <1>3 DEF SiteType
<1>5. Framed /\ SelfNarrows
  BY <1>1, <1>3 DEF Framed, SelfNarrows
<1>. QED BY <1>2, <1>4, <1>5 DEF LookupInv

(* A step that gives the reader a value. *)
LEMMA GiveStep ==
  ASSUME LookupInv, Reading, NEW v \in Value, stack' = <<Give(v)>> \o Below,
         fn' = fn, verdict' = verdict
  PROVE  stack' \in Seq(FrameType) /\ Framed' /\ SelfNarrows'
<1>1. stack # <<>> /\ Top \in FrameType
  BY TopFacts DEF Reading, LookupInv
<1>2. Give(v) \in FrameType /\ Continues(Give(v), Top)
  <2>1. Give(v) = Taken(Top, v)
    BY DEF Give, Taken
  <2>. QED BY <1>1, <2>1, Given
<1>. QED BY <1>1, <1>2, TopStep

(* A step to the reader's next expression. *)
LEMMA AdvanceStep ==
  ASSUME LookupInv, stack # <<>>, Top.todo # <<>>, NEW v \in Value,
         stack' = <<NextExpr(v)>> \o Below, fn' = fn, verdict' = verdict
  PROVE  stack' \in Seq(FrameType) /\ Framed' /\ SelfNarrows'
<1>1. Top \in FrameType
  BY TopFacts DEF LookupInv
<1>2. NextExpr(v) \in FrameType /\ Continues(NextExpr(v), Top)
  <2>1. NextExpr(v) = Moved(Top, v)
    BY DEF NextExpr, Moved
  <2>. QED BY <1>1, <2>1, Advanced
<1>. QED BY <1>2, TopStep

(* What a lookup hands to its reader when it returns. *)
LEMMA ReturnStep ==
  ASSUME LookupInv, Return
  PROVE  /\ Len(stack) > 1 /\ stack # <<>> /\ Top.todo = <<>> /\ Top \in FrameType /\ Top = stack[1]
         /\ stack[2] \in FrameType /\ LookupFrame(fn, Top)
         /\ CapUnion(Top.acc, Top.name) \in Value /\ Top.acc \in Value /\ Top.name \in Name
         /\ Remember(<<Top.name, Top.use>>, CapUnion(Top.acc, Top.name))
         /\ \E x \in FrameType :
              /\ x = [stack[2] EXCEPT !.got = @ \cup CapUnion(Top.acc, Top.name), !.k = @ + 1]
              /\ Continues(x, stack[2]) /\ stack' = <<x>> \o Tail(Below)
              /\ x.got = stack[2].got \cup CapUnion(Top.acc, Top.name)
              /\ x.k = stack[2].k + 1 /\ x.acc = stack[2].acc /\ x.todo = stack[2].todo
         /\ fn' = fn /\ alts' = alts /\ paths' = paths /\ verdict' = verdict
<1>. DEFINE v == CapUnion(Top.acc, Top.name)
            x == [stack[2] EXCEPT !.got = @ \cup v, !.k = @ + 1]
<1>1. /\ Len(stack) > 1 /\ Top.todo = <<>> /\ Remember(<<Top.name, Top.use>>, v)
      /\ stack' = <<x>> \o Tail(Below)
      /\ fn' = fn /\ alts' = alts /\ paths' = paths /\ verdict' = verdict
  BY DEF Return, MemoKey
<1>. HIDE DEF v, x
<1>2. stack \in Seq(FrameType) /\ stack # <<>> /\ Len(stack) \in Nat
  BY <1>1 DEF LookupInv, SiteType
<1>3. Top \in FrameType /\ Top = stack[1] /\ stack[2] \in FrameType /\ LookupFrame(fn, Top)
  <2>. DEFINE n == Len(stack)
  <2>0. n > 1 /\ n \in Nat
    BY <1>1, <1>2
  <2>. HIDE DEF n
  <2>1. n # 1 /\ 2 \in 1..n
    BY <2>0
  <2>. QED BY <1>2, <2>1, TopFacts DEF LookupInv, n
<1>4. Top.acc \in Value /\ Top.name \in Name
  BY <1>3 DEF FrameType
<1>5. v \in Value
  BY <1>4, CapValue DEF v
<1>6. /\ x \in FrameType /\ Continues(x, stack[2]) /\ x.got = stack[2].got \cup v
      /\ x.k = stack[2].k + 1 /\ x.acc = stack[2].acc /\ x.todo = stack[2].todo
  <2>. DEFINE fr == stack[2]
  <2>1. fr \in FrameType /\ x = Taken(fr, v)
    BY <1>3 DEF x, Taken
  <2>. HIDE DEF fr
  <2>2. /\ x \in FrameType /\ Continues(x, fr) /\ x.got = fr.got \cup v
        /\ x.k = fr.k + 1 /\ x.acc = fr.acc /\ x.todo = fr.todo
    BY <1>5, <2>1, Given
  <2>. QED BY <2>2 DEF fr
<1>7. x = [stack[2] EXCEPT !.got = @ \cup CapUnion(Top.acc, Top.name), !.k = @ + 1]
  BY DEF x, v
<1>. QED BY <1>1, <1>2, <1>3, <1>4, <1>5, <1>6, <1>7 DEF v

(* What an expression hands to its frame. *)
LEMMA FinishExprStep ==
  ASSUME LookupInv, FinishExpr
  PROVE  /\ stack # <<>> /\ Top.todo # <<>> /\ Top.k > Len(E.items) /\ E \in Expression
         /\ Top \in FrameType /\ Top.got \in Value /\ Combine(E, Top.got) \in Value
         /\ stack' = <<NextExpr(Combine(E, Top.got))>> \o Below
         /\ fn' = fn /\ alts' = alts /\ memo' = memo /\ paths' = paths /\ verdict' = verdict
<1>1. /\ stack # <<>> /\ Top.todo # <<>> /\ Top.k > Len(E.items)
      /\ stack' = <<NextExpr(Combine(E, Top.got))>> \o Below
      /\ fn' = fn /\ alts' = alts /\ memo' = memo /\ paths' = paths /\ verdict' = verdict
  BY DEF FinishExpr
<1>2. Top \in FrameType
  BY <1>1, TopFacts DEF LookupInv
<1>3. Top.got \in Value /\ E \in Expression
  BY <1>1, <1>2, CurrentExpr DEF FrameType, E
<1>. QED BY <1>1, <1>2, <1>3, CombineValue

LEMMA TooDeepStep ==
  ASSUME LookupInv, TooDeep
  PROVE  /\ stack # <<>> /\ Top.todo # <<>> /\ Top \in FrameType
         /\ Opaque("depth", Top.name) \in Value /\ Opaque("depth", Top.name) # {}
         /\ Lits(Opaque("depth", Top.name)) = {} /\ Holes(Opaque("depth", Top.name)) # {}
         /\ stack' = <<NextExpr(Opaque("depth", Top.name))>> \o Below
         /\ fn' = fn /\ alts' = alts /\ memo' = memo /\ paths' = paths /\ verdict' = verdict
<1>1. /\ stack # <<>> /\ Top.todo # <<>>
      /\ stack' = <<NextExpr(Opaque("depth", Top.name))>> \o Below
      /\ fn' = fn /\ alts' = alts /\ memo' = memo /\ paths' = paths /\ verdict' = verdict
  BY DEF TooDeep
<1>2. Top \in FrameType
  BY <1>1, TopFacts DEF LookupInv
<1>3. Top.name \in Name /\ "depth" \in Reason
  BY <1>2 DEF FrameType, Reason
<1>. QED BY <1>1, <1>2, <1>3, OpaqueValue

LEMMA CycleStep ==
  ASSUME NEW n \in Name
  PROVE  /\ Opaque("cycle", n) \in Value /\ Opaque("cycle", n) # {}
         /\ Lits(Opaque("cycle", n)) = {} /\ Holes(Opaque("cycle", n)) # {}
<1>1. "cycle" \in Reason
  BY DEF Reason
<1>. QED BY <1>1, OpaqueValue

(* Every step keeps the lookups framed and narrowing. *)
LEMMA LookupInvStep ==
  ASSUME LookupInv, ArmsLeft, [SiteNext]_siteVars
  PROVE  LookupInv' /\ ArmsLeft'
<1>. USE DEF LookupInv
<1>0. /\ fn \in Functions /\ alts \in Seq(Expression) /\ stack \in Seq(FrameType)
      /\ DOMAIN memo \subseteq Name \X Nat /\ (\A q \in DOMAIN memo : memo[q] \in Value)
      /\ paths \in Value /\ verdict \in {"open", "ok", "unresolved"}
  BY DEF SiteType
<1>1. CASE ReadText
  <2>1. {{LitLeaf(E.stmt)}} \in Value
    BY <1>1, ReadTextStep
  <2>2. /\ Reading /\ stack' = <<Give({{LitLeaf(E.stmt)}})>> \o Below
        /\ UNCHANGED <<fn, alts, memo, paths, verdict>>
    BY <1>1 DEF ReadText
  <2>3. stack' \in Seq(FrameType) /\ Framed' /\ SelfNarrows'
    BY <2>1, <2>2, GiveStep
  <2>. QED BY <1>0, <2>2, <2>3 DEF SiteType, ArmsLeft
<1>2. CASE ReadStop
  <2>1. Opaque(Item[2], Target) \in Value
    BY <1>2, ReadStopStep
  <2>2. /\ Reading /\ stack' = <<Give(Opaque(Item[2], Target))>> \o Below
        /\ UNCHANGED <<fn, alts, memo, paths, verdict>>
    BY <1>2 DEF ReadStop
  <2>3. stack' \in Seq(FrameType) /\ Framed' /\ SelfNarrows'
    BY <2>1, <2>2, GiveStep
  <2>. QED BY <1>0, <2>2, <2>3 DEF SiteType, ArmsLeft
<1>3. ASSUME NEW n \in Name, Recall(n) PROVE LookupInv' /\ ArmsLeft'
  <2>. DEFINE v == memo[<<n, UseOf(n)>>]
  <2>1. /\ Reading /\ stack' = <<Give(v)>> \o Below /\ <<n, UseOf(n)>> \in DOMAIN memo
        /\ UNCHANGED <<fn, alts, memo, paths, verdict>>
    BY <1>3 DEF Recall, MemoKey
  <2>2. v \in Value
    BY <1>0, <2>1
  <2>3. stack' \in Seq(FrameType) /\ Framed' /\ SelfNarrows'
    <3>. HIDE DEF v
    <3>. QED BY <2>1, <2>2, GiveStep
  <2>. QED BY <1>0, <2>1, <2>3 DEF SiteType, ArmsLeft
<1>4. ASSUME NEW n \in Name, Cycle(n) PROVE LookupInv' /\ ArmsLeft'
  <2>1. /\ Reading /\ stack' = <<Give(Opaque("cycle", n))>> \o Below
        /\ UNCHANGED <<fn, alts, memo, paths, verdict>>
    BY <1>4 DEF Cycle, Asking
  <2>2. stack' \in Seq(FrameType) /\ Framed' /\ SelfNarrows'
    BY <2>1, CycleStep, GiveStep
  <2>. QED BY <1>0, <2>1, <2>2 DEF SiteType, ArmsLeft
<1>5. ASSUME NEW n \in Name, Stopped(n) PROVE LookupInv' /\ ArmsLeft'
  <2>1. stack' \in Seq(FrameType) /\ Framed' /\ SelfNarrows'
    BY <1>5, StoppedStep, GiveStep
  <2>2. UseOf(n) \in Nat
    BY <1>5, StoppedStep, Asked
  <2>3. DOMAIN memo' \subseteq Name \X Nat /\ \A q \in DOMAIN memo' : memo'[q] \in Value
    <3>1. <<n, UseOf(n)>> \in Name \X Nat
      BY <2>2
    <3>2. StoppedValue(n) \in Value /\ Remember(<<n, UseOf(n)>>, StoppedValue(n))
      BY <1>5, StoppedStep
    <3>. DEFINE key == <<n, UseOf(n)>>
    <3>. HIDE DEF key
    <3>. QED BY <1>0, <3>1, <3>2, RememberedType DEF key
  <2>. QED BY <1>0, <1>5, <2>1, <2>3, StoppedStep DEF SiteType, ArmsLeft
<1>6. ASSUME NEW n \in Name, LookUp(n) PROVE LookupInv' /\ ArmsLeft'
  <2>1. PICK x \in FrameType :
          /\ LookupFrame(fn, x) /\ x.name = n /\ x.use = UseOf(n) /\ stack' = <<x>> \o stack
    BY <1>6, LookUpStep
  <2>2. /\ Reading /\ Item = <<"name", n>> /\ Enterable(n) /\ stack # <<>>
        /\ UNCHANGED <<fn, alts, memo, paths, verdict>>
    BY <1>6 DEF LookUp, Asking, Reading
  <2>3. ReadsName(Top, n) /\ UseOf(n) = UseIn(Top, n)
    BY <2>2, Asked
  <2>4. \A j \in 1..Len(stack) : stack[j].name = n => UseOf(n) < stack[j].use
    BY <2>2, EntersEarlier
  <2>5. stack' \in Seq(FrameType) /\ Framed' /\ SelfNarrows'
    BY <2>1, <2>2, <2>3, <2>4, PushStep
  <2>. QED BY <1>0, <2>2, <2>5 DEF SiteType, ArmsLeft
<1>7. CASE TooDeep
  <2>1. stack' \in Seq(FrameType) /\ Framed' /\ SelfNarrows'
    BY <1>7, TooDeepStep, AdvanceStep
  <2>. QED BY <1>0, <1>7, <2>1, TooDeepStep DEF SiteType, ArmsLeft
<1>8. CASE FinishExpr
  <2>1. stack' \in Seq(FrameType) /\ Framed' /\ SelfNarrows'
    BY <1>8, FinishExprStep, AdvanceStep
  <2>. QED BY <1>0, <1>8, <2>1, FinishExprStep DEF SiteType, ArmsLeft
<1>9. CASE Return
  <2>. DEFINE v == CapUnion(Top.acc, Top.name)
              key == <<Top.name, Top.use>>
  <2>1. /\ Len(stack) > 1 /\ v \in Value /\ Remember(key, v) /\ Top \in FrameType
        /\ fn' = fn /\ alts' = alts /\ paths' = paths /\ verdict' = verdict
    BY <1>9, ReturnStep
  <2>2. PICK x \in FrameType : Continues(x, stack[2]) /\ stack' = <<x>> \o Tail(Below)
    BY <1>9, ReturnStep
  <2>3. stack' \in Seq(FrameType) /\ Framed' /\ SelfNarrows'
    BY <2>1, <2>2, PopStep
  <2>4. key \in Name \X Nat
    BY <2>1 DEF FrameType
  <2>5. DOMAIN memo' \subseteq Name \X Nat /\ \A q \in DOMAIN memo' : memo'[q] \in Value
    <3>. HIDE DEF v, key
    <3>. QED BY <1>0, <2>1, <2>4, RememberedType
  <2>. QED BY <1>0, <2>1, <2>3, <2>5 DEF SiteType, ArmsLeft
<1>10. CASE Resolve
  <2>1. PICK x \in FrameType : QueryFrame(fn, x) /\ stack' = <<x>>
    BY <1>10, ResolveStep DEF ArmsLeft
  <2>2. /\ alts' = Tail(alts) /\ alts # <<>> /\ verdict = "open"
        /\ UNCHANGED <<fn, memo, paths, verdict>>
    BY <1>10 DEF Resolve
  <2>3. alts' \in Seq(Expression) /\ SeqSet(alts') \subseteq SeqSet(alts)
    BY <1>0, <2>2, HeadTailSet
  <2>4. stack' \in Seq(FrameType) /\ Len(stack') = 1 /\ stack'[1] = x
    BY <2>1
  <2>5. Framed' /\ SelfNarrows'
    BY <2>1, <2>2, <2>4 DEF Framed, SelfNarrows
  <2>. QED BY <1>0, <2>2, <2>3, <2>4, <2>5 DEF SiteType, ArmsLeft
<1>11. CASE EndResolve
  <2>1. /\ stack' = <<>> /\ verdict' \in {verdict, "unresolved"} /\ UNCHANGED <<fn, alts, memo>>
        /\ paths' \in {paths \cup Top.acc, {}} /\ stack # <<>>
    BY <1>11 DEF EndResolve
  <2>2. Top.acc \in Value
    BY <2>1, TopFacts DEF FrameType
  <2>3. paths' \in Value
    BY <1>0, <2>1, <2>2 DEF Value
  <2>4. stack' \in Seq(FrameType) /\ Len(stack') = 0
    BY <2>1
  <2>5. Framed' /\ SelfNarrows'
    BY <2>1, <2>4 DEF Framed, SelfNarrows
  <2>. QED BY <1>0, <2>1, <2>3, <2>4, <2>5 DEF SiteType, ArmsLeft
<1>12. CASE Finish
  <2>1. stack = <<>> /\ verdict' \in {"ok", "unresolved"} /\ UNCHANGED <<fn, alts, stack, memo, paths>>
    BY <1>12 DEF Finish
  <2>2. Framed' /\ SelfNarrows'
    BY <1>0, <2>1 DEF Framed, SelfNarrows
  <2>. QED BY <1>0, <2>1, <2>2 DEF SiteType, ArmsLeft
<1>13. CASE UNCHANGED siteVars
  BY <1>13 DEF siteVars, SiteType, Framed, SelfNarrows, ArmsLeft
<1>. QED BY <1>1, <1>2, <1>3, <1>4, <1>5, <1>6, <1>7, <1>8, <1>9, <1>10, <1>11, <1>12, <1>13
     DEF SiteNext

(* The lookups in progress never ask one question twice: with a function in
   which no statement assigns from the parameter a name that an argument
   reads, of two lookups of the same name the inner one asks about an earlier
   position (resolveSymbol's self-reference rule). *)
THEOREM NeverAskedTwice == SiteSpec /\ Apart(fn) => []SelfNarrows
<1>1. SiteInit /\ Apart(fn) => LookupInv /\ ArmsLeft
  BY LookupInvInit
<1>2. (LookupInv /\ ArmsLeft) /\ [SiteNext]_siteVars => (LookupInv /\ ArmsLeft)'
  BY LookupInvStep
<1>3. LookupInv => SelfNarrows
  BY DEF LookupInv
<1>. QED BY <1>1, <1>2, <1>3, PTL DEF SiteSpec

-----------------------------------------------------------------------------
(* What the text means *)

LitSet == {LitLeaf(i) : i \in Nat}

(* The literals a question's candidates hold. *)
OwnOf(f) ==
  [q \in Questions(f) |-> UNION {OwnLits(e) : e \in SeqSet(Candidates(f, q[1], q[2]))}]

(* Each question takes over what it asks for. *)
Spread(f, r) ==
  [q \in Questions(f) |-> r[q] \cup UNION {r[s] : s \in AskedBy(f, q)}]

Rounds(f) == Cardinality(Name) * Len(f) + 1

Closed(f, m) ==
  \A q \in Questions(f) :
    OwnOf(f)[q] \subseteq m[q] /\ \A r \in AskedBy(f, q) : m[r] \subseteq m[q]

(* Where statement i reads the name n. *)
UseAt(f, i, n) ==
  IF f[i].kind = "bind" /\ f[i].name = n THEN Expr(f, i).start ELSE Expr(f, i).at

LEMMA AskedShape ==
  ASSUME NEW f \in Functions, NEW q, NEW r \in AskedBy(f, q)
  PROVE  \E n \in Name, i \in 1..Len(f) : r = <<n, UseAt(f, i, n)>>
<1>. DEFINE m == IF IsBound(f, q[1], q[2]) THEN q[1] ELSE ""
<1>1. PICK e \in SeqSet(Candidates(f, q[1], q[2])) : r \in Asks(e, m)
  BY DEF AskedBy
<1>2. PICK n \in Name : r = <<n, IF n = m THEN e.start ELSE e.at>>
  BY <1>1 DEF Asks
<1>3. CASE IsBound(f, q[1], q[2])
  <2>1. e \in SeqSet(BindingsIn(f, q[1], q[2]))
    BY <1>3, CandidatesRead
  <2>2. PICK i \in 1..Len(f) : f[i].kind = "bind" /\ f[i].name = q[1] /\ e = Expr(f, i)
    BY <2>1, BindingOf
  <2>3. r = <<n, UseAt(f, i, n)>>
    BY <1>2, <1>3, <2>2 DEF UseAt
  <2>. QED BY <2>3
<1>4. CASE ~ IsBound(f, q[1], q[2])
  <2>1. SeqSet(<<>>) = {}
    BY DEF SeqSet
  <2>2. e \in SeqSet(CallsTo(f))
    BY <1>4, <2>1, CandidatesRead
  <2>3. PICK i \in 1..Len(f) : f[i].kind = "call" /\ e = Expr(f, i)
    BY <2>2, CallOf
  <2>4. n # ""
    BY TextAssumption
  <2>5. r = <<n, UseAt(f, i, n)>>
    BY <1>2, <1>4, <2>3, <2>4 DEF UseAt
  <2>. QED BY <2>5
<1>. QED BY <1>3, <1>4

LEMMA AskedIsQuestion ==
  ASSUME NEW f \in Functions, NEW q
  PROVE  AskedBy(f, q) \subseteq Questions(f)
<1>. SUFFICES ASSUME NEW r \in AskedBy(f, q) PROVE r \in Questions(f)
  OBVIOUS
<1>1. PICK n \in Name, i \in 1..Len(f) : r = <<n, UseAt(f, i, n)>>
  BY AskedShape
<1>2. /\ Expr(f, i).start \in Nat /\ Expr(f, i).at \in Nat
      /\ Expr(f, i).start < End(f) /\ Expr(f, i).at < End(f)
  BY ExprShape DEF Expression
<1>3. End(f) \in Nat
  BY TextShape DEF End, Start
<1>4. UseAt(f, i, n) \in Uses(f)
  BY <1>2, <1>3 DEF UseAt, Uses
<1>. QED BY <1>1, <1>4 DEF Questions

(* No more questions are asked than there are names and statements. *)
LEMMA AskedBound ==
  ASSUME NEW f \in Functions
  PROVE  \E A : /\ IsFiniteSet(A) /\ Cardinality(A) \in Nat
                /\ Cardinality(A) < Rounds(f) /\ Rounds(f) \in Nat
                /\ \A q : AskedBy(f, q) \subseteq A
<1>. DEFINE P == Name \X (1..Len(f))
            h == [p \in P |-> <<p[1], UseAt(f, p[2], p[1])>>]
            A == {h[p] : p \in P}
<1>1. Len(f) \in Nat /\ IsFiniteSet(Name) /\ Cardinality(Name) \in Nat
  BY TextShape, TextAssumption, FS_CardinalityType
<1>2. IsFiniteSet(1..Len(f)) /\ Cardinality(1..Len(f)) = Len(f)
  <2>. DEFINE n == Len(f)
  <2>1. n \in Nat /\ n \in Int /\ 1 \in Int
    BY <1>1
  <2>. HIDE DEF n
  <2>2. IsFiniteSet(1..n) /\ Cardinality(1..n) = IF 1 > n THEN 0 ELSE n - 1 + 1
    BY <2>1, FS_Interval
  <2>. QED BY <2>1, <2>2 DEF n
<1>3. IsFiniteSet(P) /\ Cardinality(P) = Cardinality(Name) * Len(f)
  BY <1>1, <1>2, FS_Product
<1>4. \A q : AskedBy(f, q) \subseteq A
  <2>. SUFFICES ASSUME NEW q, NEW r \in AskedBy(f, q) PROVE r \in A
    OBVIOUS
  <2>1. PICK n \in Name, i \in 1..Len(f) : r = <<n, UseAt(f, i, n)>>
    BY AskedShape
  <2>2. <<n, i>> \in P /\ h[<<n, i>>] = r
    BY <2>1
  <2>. QED BY <2>2
<1>. HIDE DEF P
<1>5. h \in Surjection(P, A)
  BY DEF Surjection
<1>6. IsFiniteSet(A) /\ Cardinality(A) <= Cardinality(P)
  <2>. HIDE DEF h, A
  <2>. QED BY <1>3, <1>5, FS_Surjection
<1>. HIDE DEF A
<1>7. Cardinality(A) \in Nat
  BY <1>6, FS_CardinalityType
<1>8. Cardinality(Name) * Len(f) \in Nat
  BY <1>1
<1>9. Rounds(f) = Cardinality(Name) * Len(f) + 1
  BY DEF Rounds
<1>. DEFINE z == Cardinality(Name) * Len(f)
<1>. HIDE DEF z
<1>10. z \in Nat /\ Rounds(f) = z + 1 /\ Cardinality(A) <= z
  BY <1>3, <1>6, <1>8, <1>9 DEF z
<1>. QED BY <1>4, <1>6, <1>7, <1>10

(* The literals of an expression, and of a question. *)
LEMMA OwnShape ==
  ASSUME NEW f \in Functions
  PROVE  OwnOf(f) \in [Questions(f) -> SUBSET LitSet]
<1>1. ASSUME NEW q \in Questions(f), NEW e \in SeqSet(Candidates(f, q[1], q[2]))
      PROVE  OwnLits(e) \subseteq LitSet
  <2>1. e \in ExprOf(f)
    BY <1>1, CandidatesRead DEF SeqSet
  <2>2. e.stmt \in Nat
    BY <2>1, ExprOfShape DEF Expression
  <2>. QED BY <2>2 DEF OwnLits, LitSet
<1>. QED BY <1>1 DEF OwnOf

LEMMA SpreadShape ==
  ASSUME NEW f \in Functions, NEW r \in [Questions(f) -> SUBSET LitSet]
  PROVE  Spread(f, r) \in [Questions(f) -> SUBSET LitSet]
<1>1. ASSUME NEW q \in Questions(f)
      PROVE  r[q] \cup UNION {r[s] : s \in AskedBy(f, q)} \subseteq LitSet
  BY AskedIsQuestion
<1>. QED BY <1>1 DEF Spread

(* The rounds in which the literals spread. *)
RoundsOf(f, g) ==
  /\ g[0] = OwnOf(f)
  /\ \A k \in 1..Rounds(f) : g[k] = Spread(f, g[k - 1])

LEMMA MeaningRounds ==
  ASSUME NEW f \in Functions
  PROVE  \E g \in [0..Rounds(f) -> [Questions(f) -> SUBSET LitSet]] :
           RoundsOf(f, g) /\ Meaning(f) = g[Rounds(f)]
<1>. DEFINE n == Cardinality(Name) * Len(f) + 1
            X == [Questions(f) -> SUBSET LitSet]
            step == [k \in 1..n |-> [r \in X |-> Spread(f, r)]]
            lits == [q \in Questions(f) |->
                      UNION {OwnLits(e) : e \in SeqSet(Candidates(f, q[1], q[2]))}]
            asked == [q \in Questions(f) |-> AskedBy(f, q)]
            R[k \in 0..n] ==
              IF k = 0 THEN lits
              ELSE [q \in Questions(f) |->
                      R[k - 1][q] \cup UNION {R[k - 1][r] : r \in asked[q]}]
<1>1. n \in Nat /\ n = Rounds(f)
  BY AskedBound DEF Rounds
<1>2. lits = OwnOf(f) /\ lits \in X
  BY OwnShape DEF OwnOf
<1>3. \A r : Spread(f, r) = [q \in Questions(f) |-> r[q] \cup UNION {r[s] : s \in asked[q]}]
  BY DEF Spread
<1>4. StepsIn(n, X, step)
  <2>1. \A r \in X : Spread(f, r) \in X
    BY SpreadShape
  <2>. HIDE DEF n, X
  <2>. QED BY <2>1 DEF StepsIn
<1>5. PICK g \in [0..n -> X] : Iterates(n, lits, step, g)
  <2>. HIDE DEF n, X, step, lits, R
  <2>. QED BY <1>1, <1>2, <1>4, RecursionExists
<1>6. ASSUME NEW k \in 1..n PROVE k - 1 \in 0..n /\ g[k - 1] \in X /\ g[k] = Spread(f, g[k - 1])
  <2>1. k - 1 \in 0..n
    BY <1>1
  <2>2. g[k - 1] \in X
    BY <2>1
  <2>. HIDE DEF n, X, lits, R
  <2>. QED BY <1>5, <2>1, <2>2 DEF Iterates
<1>7. g[0] = lits
  BY <1>5 DEF Iterates
<1>8. g = [k \in 0..n |->
             IF k = 0 THEN lits
             ELSE [q \in Questions(f) |->
                     g[k - 1][q] \cup UNION {g[k - 1][r] : r \in asked[q]}]]
  <2>. HIDE DEF n, X, step, lits, asked, R
  <2>1. ASSUME NEW k \in 0..n
        PROVE  g[k] = IF k = 0 THEN lits
                      ELSE [q \in Questions(f) |->
                              g[k - 1][q] \cup UNION {g[k - 1][r] : r \in asked[q]}]
    <3>1. CASE k = 0
      BY <1>7, <3>1
    <3>2. CASE k # 0
      <4>1. k \in 1..n
        BY <1>1, <3>2
      <4>. QED BY <1>3, <1>6, <3>2, <4>1
    <3>. QED BY <3>1, <3>2
  <2>. QED BY <2>1, Zenon
<1>9. R = [k \in 0..n |->
             IF k = 0 THEN lits
             ELSE [q \in Questions(f) |->
                     R[k - 1][q] \cup UNION {R[k - 1][r] : r \in asked[q]}]]
  <2>. HIDE DEF n, X, step, lits, asked
  <2>. QED BY <1>8
<1>10. Meaning(f) = R[n]
  BY DEF Meaning
<1>. DEFINE S == {k \in 0..n : R[k] = g[k]}
<1>. HIDE DEF n, X, step, lits, asked, R
<1>11. 0 \in S
  BY <1>1, <1>7, <1>9
<1>12. ASSUME NEW k \in 0..n, k \in S, k < n PROVE k + 1 \in S
  <2>1. k + 1 \in 1..n /\ k + 1 \in 0..n /\ k + 1 # 0 /\ (k + 1) - 1 = k
    BY <1>1, <1>12
  <2>2. R[k + 1] = Spread(f, R[(k + 1) - 1])
    <3>. DEFINE m == k + 1
    <3>1. m \in 0..n /\ m # 0
      BY <2>1
    <3>. HIDE DEF m
    <3>2. R[m] = [q \in Questions(f) |-> R[m - 1][q] \cup UNION {R[m - 1][r] : r \in asked[q]}]
      BY <1>9, <3>1
    <3>. QED BY <1>3, <3>2 DEF m
  <2>3. g[k + 1] = Spread(f, g[(k + 1) - 1])
    BY <1>6, <2>1
  <2>4. R[k] = g[k]
    BY <1>12
  <2>. QED BY <2>1, <2>2, <2>3, <2>4
<1>13. R[n] = g[n]
  <2>1. 0..n \subseteq S
    <3>. HIDE DEF S
    <3>. QED BY <1>1, <1>11, <1>12, BoundedInduction
  <2>. QED BY <1>1, <2>1
<1>. QED BY <1>1, <1>2, <1>6, <1>7, <1>10, <1>13 DEF RoundsOf, X

(* The meaning is below every closed assignment of literals. *)
LEMMA MeaningLeast ==
  ASSUME NEW f \in Functions, NEW m, Closed(f, m)
  PROVE  \A q \in Questions(f) : Meaning(f)[q] \subseteq m[q]
<1>1. PICK g \in [0..Rounds(f) -> [Questions(f) -> SUBSET LitSet]] :
        RoundsOf(f, g) /\ Meaning(f) = g[Rounds(f)]
  BY MeaningRounds
<1>. DEFINE n == Rounds(f)
            S == {k \in 0..n : \A q \in Questions(f) : g[k][q] \subseteq m[q]}
<1>2. n \in Nat
  BY AskedBound
<1>. HIDE DEF n
<1>3. 0 \in S
  BY <1>1, <1>2 DEF RoundsOf, Closed
<1>4. ASSUME NEW k \in 0..n, k \in S, k < n PROVE k + 1 \in S
  <2>1. k + 1 \in 1..n /\ k + 1 \in 0..n /\ (k + 1) - 1 = k
    BY <1>2, <1>4
  <2>2. g[k + 1] = Spread(f, g[k])
    BY <1>1, <2>1 DEF RoundsOf, n
  <2>3. ASSUME NEW q \in Questions(f) PROVE g[k + 1][q] \subseteq m[q]
    <3>1. g[k + 1][q] = g[k][q] \cup UNION {g[k][s] : s \in AskedBy(f, q)}
      BY <2>2 DEF Spread
    <3>2. ASSUME NEW s \in AskedBy(f, q) PROVE g[k][s] \subseteq m[q]
      <4>1. s \in Questions(f)
        BY AskedIsQuestion
      <4>2. g[k][s] \subseteq m[s]
        BY <1>4, <4>1
      <4>3. m[s] \subseteq m[q]
        BY DEF Closed
      <4>. QED BY <4>2, <4>3
    <3>3. g[k][q] \subseteq m[q]
      BY <1>4
    <3>. QED BY <3>1, <3>2, <3>3
  <2>. QED BY <2>1, <2>3
<1>5. n \in S
  <2>1. 0..n \subseteq S
    <3>. HIDE DEF S
    <3>. QED BY <1>2, <1>3, <1>4, BoundedInduction
  <2>. HIDE DEF S
  <2>. QED BY <1>2, <2>1
<1>. QED BY <1>1, <1>5 DEF n

(* After as many rounds as questions can be asked nothing is left to spread. *)
LEMMA MeaningClosed ==
  ASSUME NEW f \in Functions
  PROVE  Closed(f, Meaning(f))
<1>1. PICK g \in [0..Rounds(f) -> [Questions(f) -> SUBSET LitSet]] :
        RoundsOf(f, g) /\ Meaning(f) = g[Rounds(f)]
  BY MeaningRounds
<1>. DEFINE n == Rounds(f)
            Q == Questions(f)
<1>2. PICK A : /\ IsFiniteSet(A) /\ Cardinality(A) \in Nat
               /\ Cardinality(A) < n /\ n \in Nat
               /\ \A q : AskedBy(f, q) \subseteq A
  BY AskedBound
<1>. HIDE DEF n, Q
<1>3. ASSUME NEW k \in 0..n, k < n, NEW q \in Q
      PROVE  g[k + 1][q] = g[k][q] \cup UNION {g[k][s] : s \in AskedBy(f, q)}
  <2>1. k + 1 \in 1..n /\ (k + 1) - 1 = k
    BY <1>2, <1>3
  <2>2. g[k + 1] = Spread(f, g[k])
    BY <1>1, <2>1 DEF RoundsOf, n
  <2>. QED BY <2>2 DEF Spread, Q
<1>4. ASSUME NEW q \in Q PROVE OwnOf(f)[q] \subseteq g[n][q]
  <2>. DEFINE S == {k \in 0..n : OwnOf(f)[q] \subseteq g[k][q]}
  <2>1. 0 \in S
    BY <1>1, <1>2 DEF RoundsOf
  <2>2. ASSUME NEW k \in 0..n, k \in S, k < n PROVE k + 1 \in S
    <3>1. k + 1 \in 0..n
      BY <1>2, <2>2
    <3>2. g[k][q] \subseteq g[k + 1][q]
      BY <1>3, <2>2
    <3>. QED BY <2>2, <3>1, <3>2
  <2>3. 0..n \subseteq S
    <3>. HIDE DEF S
    <3>. QED BY <1>2, <2>1, <2>2, BoundedInduction
  <2>. QED BY <1>2, <2>3
<1>5. ASSUME NEW l
      PROVE  \A q \in Q : \A r \in AskedBy(f, q) : l \in g[n][r] => l \in g[n][q]
  <2>. DEFINE T(k) == {q \in Q : l \in g[k][q]}
              Cl(k) == \A q \in Q : \A r \in AskedBy(f, q) : r \in T(k) => q \in T(k)
              B(k) == T(k) \cap A
              S == {k \in 0..n : Cl(k) \/ Cardinality(B(k)) >= k}
  <2>1. ASSUME NEW k \in 0..n PROVE IsFiniteSet(B(k)) /\ Cardinality(B(k)) \in Nat
    <3>1. B(k) \subseteq A
      OBVIOUS
    <3>. HIDE DEF B
    <3>. QED BY <1>2, <3>1, FS_Subset, FS_CardinalityType
  <2>2. ASSUME NEW k \in 0..n, k < n, NEW q \in Q
        PROVE  q \in T(k + 1) <=> q \in T(k) \/ \E r \in AskedBy(f, q) : r \in T(k)
    <3>1. AskedBy(f, q) \subseteq Q
      BY AskedIsQuestion DEF Q
    <3>. QED BY <1>3, <2>2, <3>1
  <2>3. 0 \in S
    <3>1. 0 \in 0..n
      BY <1>2
    <3>2. Cardinality(B(0)) \in Nat
      BY <2>1, <3>1
    <3>. HIDE DEF B, Cl
    <3>. QED BY <3>1, <3>2
  <2>4. ASSUME NEW k \in 0..n, k \in S, k < n PROVE k + 1 \in S
    <3>1. k + 1 \in 0..n
      BY <1>2, <2>4
    <3>2. T(k) \subseteq T(k + 1)
      BY <2>2, <2>4
    <3>3. CASE Cl(k)
      <4>1. T(k + 1) = T(k)
        <5>1. \A q \in Q : q \in T(k + 1) <=> q \in T(k)
          BY <2>2, <2>4, <3>3
        <5>. QED BY <5>1
      <4>2. Cl(k + 1)
        <5>. HIDE DEF T
        <5>. QED BY <3>3, <4>1
      <4>. QED BY <3>1, <4>2
    <3>4. CASE ~ Cl(k) /\ B(k + 1) = B(k)
      <4>1. ASSUME NEW q \in Q, NEW r \in AskedBy(f, q), r \in T(k + 1) PROVE q \in T(k + 1)
        <5>1. r \in B(k + 1)
          BY <1>2, <4>1
        <5>2. r \in T(k)
          BY <3>4, <5>1
        <5>. QED BY <2>2, <2>4, <5>2
      <4>2. Cl(k + 1)
        <5>. HIDE DEF T
        <5>. QED BY <4>1
      <4>. QED BY <3>1, <4>2
    <3>5. CASE ~ Cl(k) /\ B(k + 1) # B(k)
      <4>1. Cardinality(B(k)) >= k
        BY <2>4, <3>5
      <4>2. B(k) \subseteq B(k + 1)
        BY <3>2
      <4>3. /\ IsFiniteSet(B(k + 1)) /\ Cardinality(B(k + 1)) \in Nat
            /\ IsFiniteSet(B(k)) /\ Cardinality(B(k)) \in Nat
        BY <2>1, <3>1
      <4>4. Cardinality(B(k)) <= Cardinality(B(k + 1)) /\ Cardinality(B(k)) # Cardinality(B(k + 1))
        <5>. HIDE DEF B
        <5>. QED BY <3>5, <4>2, <4>3, FS_Subset
      <4>5. Cardinality(B(k + 1)) >= k + 1
        <5>. HIDE DEF B
        <5>. QED BY <4>1, <4>3, <4>4
      <4>. QED BY <3>1, <4>5
    <3>. QED BY <3>3, <3>4, <3>5
  <2>5. n \in S
    <3>1. 0..n \subseteq S
      <4>. HIDE DEF S
      <4>. QED BY <1>2, <2>3, <2>4, BoundedInduction
    <3>. HIDE DEF S
    <3>. QED BY <1>2, <3>1
  <2>6. Cardinality(B(n)) <= Cardinality(A)
    <3>1. B(n) \subseteq A
      OBVIOUS
    <3>. HIDE DEF B
    <3>. QED BY <1>2, <3>1, FS_Subset
  <2>7. n \in 0..n
    BY <1>2
  <2>8. Cardinality(B(n)) \in Nat
    BY <2>1, <2>7
  <2>9. Cl(n)
    <3>. HIDE DEF B, Cl
    <3>. QED BY <1>2, <2>5, <2>6, <2>8
  <2>. QED
    <3>. SUFFICES ASSUME NEW q \in Q, NEW r \in AskedBy(f, q), l \in g[n][r] PROVE l \in g[n][q]
      OBVIOUS
    <3>1. r \in Q
      BY AskedIsQuestion DEF Q
    <3>2. r \in T(n)
      BY <3>1
    <3>3. q \in T(n)
      <4>. HIDE DEF T
      <4>. QED BY <2>9, <3>2
    <3>. QED BY <3>3
<1>6. \A q \in Q : \A r \in AskedBy(f, q) : g[n][r] \subseteq g[n][q]
  BY <1>5
<1>. QED BY <1>1, <1>4, <1>6 DEF Closed, n, Q

(* Meaning, the reference the engine is held against, spreads literals for a
   bounded number of rounds; those rounds are enough.  For every function it is
   the least assignment of literals to questions that gives a question the
   literals its candidates write and whatever the names they read can take. *)
THEOREM MeaningIsLeast ==
  ASSUME NEW f \in Functions
  PROVE  /\ Closed(f, Meaning(f))
         /\ \A m : Closed(f, m) => \A q \in Questions(f) : Meaning(f)[q] \subseteq m[q]
BY MeaningClosed, MeaningLeast

-----------------------------------------------------------------------------
(* Nothing is invented *)

(* The frames that have collected only what their question can take. *)
TrueFrame(f) ==
  {fr \in FrameType : /\ Lits(fr.got) \subseteq Meaning(f)[Question(fr)]
                      /\ Lits(fr.acc) \subseteq Meaning(f)[Question(fr)]}

(* Whatever is memoized, collected or found is something the text can put
   there. *)
Truthful ==
  /\ \A q \in DOMAIN memo : q \in Questions(fn) /\ Lits(memo[q]) \subseteq Meaning(fn)[q]
  /\ stack \in Seq(TrueFrame(fn))
  /\ Lits(paths) \subseteq Meaning(fn)[<<Target, End(fn)>>]

LEMMA FrameQuestion ==
  ASSUME NEW f \in Functions, NEW fr \in FrameType, LookupFrame(f, fr) \/ QueryFrame(f, fr)
  PROVE  Question(fr) \in Questions(f) /\ <<Target, End(f)>> \in Questions(f)
<1>1. End(f) \in Nat /\ Target \in Name
  BY TextShape DEF End, Start, Name
<1>2. fr.name \in Name /\ fr.use \in Nat /\ fr.use <= End(f)
  BY <1>1 DEF FrameType, LookupFrame, QueryFrame
<1>. QED BY <1>1, <1>2 DEF Question, Questions, Uses

(* The literals an expression writes belong to its reader's question. *)
LEMMA ReaderOwns ==
  ASSUME NEW f \in Functions, NEW fr \in FrameType, fr.todo # <<>>,
         LookupFrame(f, fr) \/ QueryFrame(f, fr)
  PROVE  OwnLits(Head(fr.todo)) \subseteq Meaning(f)[Question(fr)]
<1>. DEFINE e == Head(fr.todo)
            q == Question(fr)
<1>1. e \in SeqSet(fr.todo)
  BY CurrentExpr
<1>2. q \in Questions(f) /\ q[1] = fr.name /\ q[2] = fr.use
  BY FrameQuestion DEF Question
<1>3. OwnOf(f)[q] \subseteq Meaning(f)[q]
  BY <1>2, MeaningClosed DEF Closed
<1>. HIDE DEF e, q
<1>4. OwnOf(f)[q] = UNION {OwnLits(d) : d \in SeqSet(Candidates(f, fr.name, fr.use))}
  BY <1>2 DEF OwnOf
<1>5. CASE LookupFrame(f, fr)
  <2>1. e \in SeqSet(Candidates(f, fr.name, fr.use))
    BY <1>1, <1>5 DEF LookupFrame
  <2>. QED BY <1>3, <1>4, <2>1 DEF e, q
<1>6. CASE QueryFrame(f, fr)
  <2>1. e \in TargetArms(f) /\ fr.name = Target /\ fr.use = End(f)
    BY <1>1, <1>6 DEF QueryFrame
  <2>2. PICK b \in SeqSet(BindingsIn(f, Target, End(f))) :
          e.stmt = b.stmt /\ e.op = b.op /\ SeqSet(e.items) \subseteq SeqSet(b.items)
    BY <2>1, ArmOf
  <2>3. OwnLits(e) \subseteq OwnLits(b)
    BY <2>2 DEF OwnLits, SeqSet
  <2>4. BindingsIn(f, Target, End(f)) \in Seq(ExprOf(f))
    BY BindingsRead
  <2>5. IsBound(f, Target, End(f))
    BY <2>2, <2>4, EmptySeqSet DEF IsBound
  <2>6. b \in SeqSet(Candidates(f, fr.name, fr.use))
    BY <2>1, <2>2, <2>5, CandidatesRead
  <2>. QED BY <1>3, <1>4, <2>3, <2>6 DEF e, q
<1>. QED BY <1>5, <1>6

(* What a reader asks for belongs to its question. *)
LEMMA ReaderMeans ==
  ASSUME NEW f \in Functions, NEW fr \in FrameType, NEW n, ReadsName(fr, n),
         LookupFrame(f, fr) \/ QueryFrame(f, fr)
  PROVE  Meaning(f)[<<n, UseIn(fr, n)>>] \subseteq Meaning(f)[Question(fr)]
BY ReaderAsks, FrameQuestion, MeaningClosed DEF Closed

LEMMA EmptyLits == Lits({}) = {} /\ Holes({}) = {}
<1>1. Leaves({}) = {}
  BY DEF Leaves
<1>. QED BY <1>1 DEF Lits, Holes

LEMMA GiveFacts ==
  ASSUME Top \in FrameType, NEW v \in Value
  PROVE  /\ Give(v) \in FrameType /\ Continues(Give(v), Top)
         /\ Give(v).got = Top.got \cup v /\ Give(v).k = Top.k + 1
         /\ Give(v).acc = Top.acc /\ Give(v).todo = Top.todo
<1>. DEFINE fr == Top
            x == Give(v)
<1>1. x = Taken(fr, v) /\ fr \in FrameType
  BY DEF Give, Taken
<1>. HIDE DEF x, fr
<1>2. /\ x \in FrameType /\ Continues(x, fr)
      /\ x.got = fr.got \cup v /\ x.k = fr.k + 1 /\ x.acc = fr.acc /\ x.todo = fr.todo
  BY <1>1, Given
<1>. QED BY <1>2 DEF x, fr

LEMMA NextFacts ==
  ASSUME Top \in FrameType, Top.todo # <<>>, NEW v \in Value
  PROVE  /\ NextExpr(v) \in FrameType /\ Continues(NextExpr(v), Top)
         /\ NextExpr(v).got = {} /\ NextExpr(v).k = 1
         /\ NextExpr(v).acc = Top.acc \cup v /\ NextExpr(v).todo = Tail(Top.todo)
<1>1. NextExpr(v) = Moved(Top, v)
  BY DEF NextExpr, Moved
<1>. QED BY <1>1, Advanced

LEMMA SameQuestion ==
  ASSUME NEW x, NEW fr, Continues(x, fr)
  PROVE  Question(x) = Question(fr)
BY DEF Question, Continues

LEMMA TrueTop ==
  ASSUME LookupInv, Truthful, stack # <<>>
  PROVE  /\ Top \in TrueFrame(fn) /\ Top \in FrameType /\ fn \in Functions
         /\ Lits(Top.got) \subseteq Meaning(fn)[Question(Top)]
         /\ Lits(Top.acc) \subseteq Meaning(fn)[Question(Top)]
         /\ LookupFrame(fn, Top) \/ QueryFrame(fn, Top)
<1>1. Top \in TrueFrame(fn)
  BY HeadTailSet DEF Truthful, Top
<1>2. fn \in Functions /\ (LookupFrame(fn, Top) \/ QueryFrame(fn, Top))
  BY TopFacts DEF LookupInv
<1>. QED BY <1>1, <1>2 DEF TrueFrame

(* A step that gives the reader a value its question can take. *)
LEMMA TruthfulGive ==
  ASSUME LookupInv, Truthful, Reading, NEW v \in Value,
         Lits(v) \subseteq Meaning(fn)[Question(Top)],
         stack' = <<Give(v)>> \o Below
  PROVE  stack' \in Seq(TrueFrame(fn))
<1>1. stack # <<>> /\ stack \in Seq(TrueFrame(fn))
  BY DEF Reading, Truthful
<1>. DEFINE x == Give(v)
            M == Meaning(fn)[Question(Top)]
<1>2. /\ x \in FrameType /\ Continues(x, Top)
      /\ x.got = Top.got \cup v /\ x.acc = Top.acc
  BY <1>1, TrueTop, GiveFacts
<1>3. Lits(Top.got) \subseteq M /\ Lits(Top.acc) \subseteq M /\ Lits(v) \subseteq M
  BY <1>1, TrueTop
<1>. HIDE DEF M
<1>4. Lits(Top.got \cup v) = Lits(Top.got) \cup Lits(v)
  BY JoinLits
<1>5. Question(x) = Question(Top)
  BY <1>2, SameQuestion
<1>. HIDE DEF x
<1>6. Lits(x.got) \subseteq M /\ Lits(x.acc) \subseteq M
  BY <1>2, <1>3, <1>4
<1>7. x \in TrueFrame(fn)
  BY <1>2, <1>5, <1>6 DEF TrueFrame, M
<1>. QED BY <1>1, <1>7, StackReplace DEF Below, x

(* A step to the next expression, with a value the question can take. *)
LEMMA TruthfulNext ==
  ASSUME LookupInv, Truthful, stack # <<>>, Top.todo # <<>>, NEW v \in Value,
         Lits(v) \subseteq Meaning(fn)[Question(Top)],
         stack' = <<NextExpr(v)>> \o Below
  PROVE  stack' \in Seq(TrueFrame(fn))
<1>1. stack \in Seq(TrueFrame(fn))
  BY DEF Truthful
<1>. DEFINE x == NextExpr(v)
            M == Meaning(fn)[Question(Top)]
<1>2. /\ x \in FrameType /\ Continues(x, Top)
      /\ x.got = {} /\ x.acc = Top.acc \cup v
  BY TrueTop, NextFacts
<1>3. Lits(Top.acc) \subseteq M /\ Lits(v) \subseteq M
  BY TrueTop
<1>. HIDE DEF M
<1>4. Lits(Top.acc \cup v) = Lits(Top.acc) \cup Lits(v)
  BY JoinLits
<1>5. Question(x) = Question(Top)
  BY <1>2, SameQuestion
<1>. HIDE DEF x
<1>6. Lits(x.got) \subseteq M /\ Lits(x.acc) \subseteq M
  BY <1>2, <1>3, <1>4, EmptyLits
<1>7. x \in TrueFrame(fn)
  BY <1>2, <1>5, <1>6 DEF TrueFrame, M
<1>. QED BY <1>1, <1>7, StackReplace DEF Below, x

(* A frame that starts has collected nothing. *)
LEMMA TruthfulStart ==
  ASSUME NEW x \in FrameType, x.got = {}, x.acc = {}
  PROVE  x \in TrueFrame(fn)
BY EmptyLits DEF TrueFrame

(* The second frame of a stack, whose name the first one answers. *)
LEMMA ReaderBelow ==
  ASSUME LookupInv, Len(stack) > 1
  PROVE  /\ stack[2] \in FrameType /\ fn \in Functions
         /\ LookupFrame(fn, stack[2]) \/ QueryFrame(fn, stack[2])
         /\ ReadsName(stack[2], Top.name)
         /\ Question(Top) = <<Top.name, UseIn(stack[2], Top.name)>>
         /\ Question(Top) = <<Top.name, Top.use>>
         /\ Top \in FrameType /\ LookupFrame(fn, Top)
<1>. DEFINE n == Len(stack)
<1>1. stack \in Seq(FrameType) /\ n \in Nat /\ n > 1 /\ fn \in Functions /\ stack # <<>>
  BY DEF LookupInv, SiteType
<1>. HIDE DEF n
<1>2. 2 \in 1..n /\ 1 \in 1..(n - 1) /\ n # 1 /\ 1 + 1 = 2
  BY <1>1
<1>3. Top = stack[1] /\ Top \in FrameType /\ LookupFrame(fn, Top)
  BY <1>1, <1>2, TopFacts DEF LookupInv, n
<1>4. stack[2] \in FrameType
  BY <1>1, <1>2 DEF n
<1>5. LookupFrame(fn, stack[2]) \/ QueryFrame(fn, stack[2])
  BY <1>2 DEF LookupInv, Framed, n
<1>6. ReadsName(stack[1 + 1], stack[1].name) /\ stack[1].use = UseIn(stack[1 + 1], stack[1].name)
  BY <1>2 DEF LookupInv, Framed, n
<1>. QED BY <1>1, <1>2, <1>3, <1>4, <1>5, <1>6 DEF Question

(* A lookup hands over what its reader's question can take. *)
LEMMA TruthfulReturn ==
  ASSUME LookupInv, Truthful, Return
  PROVE  Truthful'
<1>. DEFINE v == CapUnion(Top.acc, Top.name)
            key == <<Top.name, Top.use>>
            rd == stack[2]
            M == Meaning(fn)[Question(rd)]
<1>1. /\ Len(stack) > 1 /\ stack # <<>> /\ v \in Value /\ Top.acc \in Value /\ Top.name \in Name
      /\ Remember(key, v) /\ fn' = fn /\ paths' = paths
  BY ReturnStep
<1>2. PICK x \in FrameType :
        /\ Continues(x, rd) /\ stack' = <<x>> \o Tail(Below)
        /\ x.got = rd.got \cup v /\ x.acc = rd.acc
  BY ReturnStep
<1>3. /\ rd \in FrameType /\ fn \in Functions /\ (LookupFrame(fn, rd) \/ QueryFrame(fn, rd))
      /\ ReadsName(rd, Top.name) /\ Question(Top) = <<Top.name, UseIn(rd, Top.name)>>
      /\ Question(Top) = key
  BY <1>1, ReaderBelow
<1>4. Lits(v) \subseteq Lits(Top.acc)
  BY <1>1, CapValue
<1>5. Lits(v) \subseteq Meaning(fn)[key]
  BY <1>1, <1>3, <1>4, TrueTop
<1>6. Meaning(fn)[key] \subseteq M
  BY <1>3, ReaderMeans
<1>7. stack \in Seq(TrueFrame(fn)) /\ rd \in TrueFrame(fn)
  <2>. DEFINE n == Len(stack)
  <2>1. stack \in Seq(TrueFrame(fn)) /\ n > 1 /\ n \in Nat
    BY <1>1 DEF Truthful
  <2>. HIDE DEF n
  <2>2. 2 \in 1..n
    BY <2>1
  <2>. QED BY <2>1, <2>2 DEF n
<1>. HIDE DEF v, key, rd
<1>8. Lits(rd.got) \subseteq M /\ Lits(rd.acc) \subseteq M
  BY <1>7 DEF TrueFrame
<1>9. Lits(rd.got \cup v) = Lits(rd.got) \cup Lits(v)
  BY JoinLits
<1>10. Lits(x.got) \subseteq M /\ Lits(x.acc) \subseteq M
  <2>. HIDE DEF M
  <2>. QED BY <1>2, <1>5, <1>6, <1>8, <1>9
<1>11. Question(x) = Question(rd)
  BY <1>2, SameQuestion
<1>12. x \in TrueFrame(fn)
  BY <1>10, <1>11 DEF TrueFrame
<1>13. stack' \in Seq(TrueFrame(fn))
  BY <1>1, <1>2, <1>7, <1>12, StackPop DEF Below
<1>14. key \in Questions(fn)
  BY <1>1, <1>3, ReaderBelow, FrameQuestion
<1>15. /\ DOMAIN memo' = DOMAIN memo \cup {key} /\ memo'[key] = v
       /\ \A q \in DOMAIN memo : q # key => memo'[q] = memo[q]
  BY <1>1, Remembered
<1>16. ASSUME NEW q \in DOMAIN memo'
       PROVE  q \in Questions(fn) /\ Lits(memo'[q]) \subseteq Meaning(fn)[q]
  <2>1. CASE q = key
    BY <1>5, <1>14, <1>15, <2>1
  <2>2. CASE q # key
    BY <1>15, <1>16, <2>2 DEF Truthful
  <2>. QED BY <2>1, <2>2
<1>. QED BY <1>1, <1>13, <1>16 DEF Truthful

(* Every step keeps what is collected truthful. *)
LEMMA TruthfulStep ==
  ASSUME LookupInv, ArmsLeft, Truthful, [SiteNext]_siteVars
  PROVE  Truthful'
<1>0. fn \in Functions
  BY DEF LookupInv, SiteType
<1>1. CASE ReadText
  <2>1. /\ {{LitLeaf(E.stmt)}} \in Value /\ Item = <<"text">>
    BY <1>1, ReadTextStep DEF LookupInv
  <2>2. /\ Reading /\ stack' = <<Give({{LitLeaf(E.stmt)}})>> \o Below
        /\ UNCHANGED <<fn, alts, memo, paths, verdict>>
    BY <1>1 DEF ReadText
  <2>3. stack # <<>> /\ Top.todo # <<>> /\ Top.k <= Len(E.items)
    BY <2>2 DEF Reading
  <2>4. Top \in FrameType /\ (LookupFrame(fn, Top) \/ QueryFrame(fn, Top))
    BY <2>3, TrueTop
  <2>5. OwnLits(E) \subseteq Meaning(fn)[Question(Top)]
    BY <1>0, <2>3, <2>4, ReaderOwns DEF E
  <2>6. Top.k \in 1..Len(E.items) /\ E.stmt \in Nat
    BY <2>3, <2>4, CurrentExpr DEF E, FrameType
  <2>7. LitLeaf(E.stmt) \in OwnLits(E)
    BY <2>1, <2>6 DEF OwnLits, Item
  <2>8. Lits({{LitLeaf(E.stmt)}}) = {LitLeaf(E.stmt)}
    BY <2>6, LitValue
  <2>9. Lits({{LitLeaf(E.stmt)}}) \subseteq Meaning(fn)[Question(Top)]
    BY <2>5, <2>7, <2>8
  <2>10. stack' \in Seq(TrueFrame(fn))
    BY <2>1, <2>2, <2>9, TruthfulGive
  <2>. QED BY <2>2, <2>10 DEF Truthful
<1>2. CASE ReadStop
  <2>1. Opaque(Item[2], Target) \in Value /\ Lits(Opaque(Item[2], Target)) = {}
    BY <1>2, ReadStopStep DEF LookupInv
  <2>2. /\ Reading /\ stack' = <<Give(Opaque(Item[2], Target))>> \o Below
        /\ UNCHANGED <<fn, alts, memo, paths, verdict>>
    BY <1>2 DEF ReadStop
  <2>3. stack' \in Seq(TrueFrame(fn))
    BY <2>1, <2>2, TruthfulGive
  <2>. QED BY <2>2, <2>3 DEF Truthful
<1>3. ASSUME NEW n \in Name, Recall(n) PROVE Truthful'
  <2>. DEFINE key == <<n, UseOf(n)>>
              v == memo[key]
  <2>1. /\ Reading /\ stack' = <<Give(v)>> \o Below /\ key \in DOMAIN memo
        /\ Item = <<"name", n>> /\ UNCHANGED <<fn, alts, memo, paths, verdict>>
    BY <1>3 DEF Recall, MemoKey
  <2>2. v \in Value /\ Lits(v) \subseteq Meaning(fn)[key]
    BY <2>1 DEF LookupInv, SiteType, Truthful
  <2>3. ReadsName(Top, n) /\ UseOf(n) = UseIn(Top, n)
    BY <2>1, Asked DEF LookupInv
  <2>4. Top \in FrameType /\ (LookupFrame(fn, Top) \/ QueryFrame(fn, Top))
    BY <2>1, TrueTop DEF Reading
  <2>5. Meaning(fn)[key] \subseteq Meaning(fn)[Question(Top)]
    BY <1>0, <2>3, <2>4, ReaderMeans
  <2>6. stack' \in Seq(TrueFrame(fn))
    <3>. HIDE DEF v, key
    <3>. QED BY <2>1, <2>2, <2>5, TruthfulGive
  <2>. QED BY <2>1, <2>6 DEF Truthful
<1>4. ASSUME NEW n \in Name, Cycle(n) PROVE Truthful'
  <2>1. /\ Reading /\ stack' = <<Give(Opaque("cycle", n))>> \o Below
        /\ UNCHANGED <<fn, alts, memo, paths, verdict>>
    BY <1>4 DEF Cycle, Asking
  <2>2. Opaque("cycle", n) \in Value /\ Lits(Opaque("cycle", n)) = {}
    BY CycleStep
  <2>3. stack' \in Seq(TrueFrame(fn))
    BY <2>1, <2>2, TruthfulGive
  <2>. QED BY <2>1, <2>3 DEF Truthful
<1>5. ASSUME NEW n \in Name, Stopped(n) PROVE Truthful'
  <2>. DEFINE key == <<n, UseOf(n)>>
              v == StoppedValue(n)
  <2>1. /\ Reading /\ Item = <<"name", n>> /\ Remember(key, v)
        /\ stack' = <<Give(v)>> \o Below /\ fn' = fn /\ paths' = paths
        /\ v \in Value /\ Lits(v) = {}
    BY <1>5, StoppedStep
  <2>2. UseOf(n) \in Nat /\ UseOf(n) < End(fn)
    BY <2>1, Asked DEF LookupInv
  <2>3. key \in Questions(fn)
    <3>1. End(fn) \in Nat
      BY <1>0, TextShape DEF End, Start
    <3>. QED BY <2>2, <3>1 DEF Questions, Uses
  <2>. HIDE DEF key, v
  <2>4. stack' \in Seq(TrueFrame(fn))
    BY <2>1, TruthfulGive
  <2>5. /\ DOMAIN memo' = DOMAIN memo \cup {key} /\ memo'[key] = v
        /\ \A q \in DOMAIN memo : q # key => memo'[q] = memo[q]
    BY <2>1, Remembered
  <2>6. ASSUME NEW q \in DOMAIN memo'
        PROVE  q \in Questions(fn) /\ Lits(memo'[q]) \subseteq Meaning(fn)[q]
    <3>1. CASE q = key
      BY <2>1, <2>3, <2>5, <3>1
    <3>2. CASE q # key
      BY <2>5, <2>6, <3>2 DEF Truthful
    <3>. QED BY <3>1, <3>2
  <2>. QED BY <2>1, <2>4, <2>6 DEF Truthful
<1>6. ASSUME NEW n \in Name, LookUp(n) PROVE Truthful'
  <2>1. PICK x \in FrameType : x.got = {} /\ x.acc = {} /\ stack' = <<x>> \o stack
    BY <1>6, LookUpStep
  <2>2. UNCHANGED <<fn, alts, memo, paths, verdict>>
    BY <1>6 DEF LookUp
  <2>3. x \in TrueFrame(fn)
    BY <2>1, TruthfulStart
  <2>4. stack' \in Seq(TrueFrame(fn))
    BY <2>1, <2>3, StackPush DEF Truthful
  <2>. QED BY <2>2, <2>4 DEF Truthful
<1>7. CASE TooDeep
  <2>1. stack' \in Seq(TrueFrame(fn))
    BY <1>7, TooDeepStep, TruthfulNext
  <2>. QED BY <1>7, <2>1, TooDeepStep DEF Truthful
<1>8. CASE FinishExpr
  <2>. DEFINE v == Combine(E, Top.got)
              M == Meaning(fn)[Question(Top)]
              own == IF E.op = "template" THEN {LitLeaf(E.stmt)} ELSE {}
  <2>1. /\ stack # <<>> /\ Top.todo # <<>> /\ E \in Expression /\ Top.got \in Value /\ v \in Value
        /\ stack' = <<NextExpr(v)>> \o Below /\ fn' = fn /\ memo' = memo /\ paths' = paths
    BY <1>8, FinishExprStep
  <2>2. /\ Top \in FrameType /\ (LookupFrame(fn, Top) \/ QueryFrame(fn, Top))
        /\ Lits(Top.got) \subseteq M
    BY <2>1, TrueTop
  <2>3. OwnLits(E) \subseteq M
    BY <1>0, <2>1, <2>2, ReaderOwns DEF E
  <2>4. own \subseteq OwnLits(E)
    BY DEF OwnLits
  <2>5. Lits(v) \subseteq Lits(Top.got) \cup own
    BY <2>1, CombineValue
  <2>6. Lits(v) \subseteq M
    <3>. HIDE DEF v, M, own
    <3>. QED BY <2>2, <2>3, <2>4, <2>5
  <2>7. stack' \in Seq(TrueFrame(fn))
    <3>. HIDE DEF v
    <3>. QED BY <2>1, <2>6, TruthfulNext
  <2>. QED BY <2>1, <2>7 DEF Truthful
<1>9. CASE Return
  BY <1>9, TruthfulReturn
<1>10. CASE Resolve
  <2>1. PICK x \in FrameType : x.got = {} /\ x.acc = {} /\ stack' = <<x>>
    BY <1>10, ResolveStep DEF ArmsLeft
  <2>2. UNCHANGED <<fn, memo, paths, verdict>>
    BY <1>10 DEF Resolve
  <2>3. x \in TrueFrame(fn)
    BY <2>1, TruthfulStart
  <2>4. stack' \in Seq(TrueFrame(fn))
    BY <2>1, <2>3
  <2>. QED BY <2>2, <2>4 DEF Truthful
<1>11. CASE EndResolve
  <2>1. /\ stack' = <<>> /\ UNCHANGED <<fn, alts, memo>> /\ Len(stack) = 1
        /\ paths' \in {paths \cup Top.acc, {}} /\ stack # <<>>
    BY <1>11 DEF EndResolve, IsBase
  <2>2. QueryFrame(fn, Top)
    BY <2>1, TopFacts DEF LookupInv
  <2>3. Question(Top) = <<Target, End(fn)>>
    BY <2>2 DEF Question, QueryFrame
  <2>. DEFINE M == Meaning(fn)[<<Target, End(fn)>>]
              w == Top.acc
  <2>4. Lits(w) \subseteq M /\ Lits(paths) \subseteq M
    BY <2>1, <2>3, TrueTop DEF Truthful
  <2>. HIDE DEF M, w
  <2>5. Lits(paths \cup w) = Lits(paths) \cup Lits(w)
    BY JoinLits
  <2>6. Lits(paths') \subseteq M
    BY <2>1, <2>4, <2>5, EmptyLits DEF w
  <2>7. stack' \in Seq(TrueFrame(fn))
    BY <2>1
  <2>. QED BY <2>1, <2>6, <2>7 DEF Truthful, M
<1>12. CASE Finish
  BY <1>12 DEF Finish, Truthful
<1>13. CASE UNCHANGED siteVars
  BY <1>13 DEF siteVars, Truthful
<1>. QED BY <1>1, <1>2, <1>3, <1>4, <1>5, <1>6, <1>7, <1>8, <1>9, <1>10, <1>11, <1>12, <1>13
     DEF SiteNext

LEMMA TruthfulInit == SiteInit => Truthful
<1>. SUFFICES ASSUME SiteInit PROVE Truthful
  OBVIOUS
<1>1. stack = <<>> /\ memo = <<>> /\ paths = {}
  BY DEF SiteInit
<1>2. DOMAIN memo = {} /\ stack \in Seq(TrueFrame(fn))
  BY <1>1
<1>. QED BY <1>1, <1>2, EmptyLits DEF Truthful

(* Nothing is invented: with a function in which no statement assigns from the
   parameter a name that an argument reads, every literal in a memo entry or a
   path is one the text can put there. *)
THEOREM OnlyWhatTheTextSays == SiteSpec /\ Apart(fn) => []NothingInvented
<1>. DEFINE Inv == LookupInv /\ ArmsLeft /\ Truthful
<1>1. SiteInit /\ Apart(fn) => Inv
  BY LookupInvInit, TruthfulInit
<1>2. Inv /\ [SiteNext]_siteVars => Inv'
  BY LookupInvStep, TruthfulStep
<1>3. Inv => NothingInvented
  BY DEF Truthful, NothingInvented
<1>. QED BY <1>1, <1>2, <1>3, PTL DEF SiteSpec

-----------------------------------------------------------------------------
(* Nothing is lost in silence *)

(* The question q has an answer without a hole. *)
Solid(m, q) == q \in DOMAIN m /\ Holes(m[q]) = {}

Covers(m, v, r) == Solid(m, r) /\ Lits(m[r]) \subseteq Lits(v)

(* v holds all that the expression e says as a candidate of n. *)
Done(m, e, n, v) == OwnLits(e) \subseteq Lits(v) /\ \A r \in Asks(e, n) : Covers(m, v, r)

(* ... or says that something is missing. *)
Accounted(m, e, n, v) == Holes(v) # {} \/ Done(m, e, n, v)

(* The name as whose candidates a question's expressions are read. *)
Asker(f, q) == IF IsBound(f, q[1], q[2]) THEN q[1] ELSE ""

ItemDone(m, fr, it) ==
  /\ it = <<"text">> => LitLeaf(Head(fr.todo).stmt) \in Lits(fr.got)
  /\ \A n \in Name : it = <<"name", n>> => Covers(m, fr.got, <<n, UseIn(fr, n)>>)

(* The items already read are in got, the expressions already read in acc. *)
GotWhole(m, fr) ==
  \/ Holes(fr.got) # {}
  \/ \A j \in 1..Len(Head(fr.todo).items) :
       j < fr.k => ItemDone(m, fr, Head(fr.todo).items[j])

AccWhole(f, m, fr) ==
  \A e \in SeqSet(Candidates(f, fr.name, fr.use)) :
    e \in SeqSet(fr.todo) \/ Accounted(m, e, Asker(f, Question(fr)), fr.acc)

WholeFrame(f, m) ==
  {fr \in FrameType :
     /\ fr.acc # {} \/ fr.todo # <<>>
     /\ fr.k > 1 => fr.got # {}
     /\ fr.todo # <<>> => GotWhole(m, fr)
     /\ fr.use # End(f) => AccWhole(f, m, fr)}

WholeEntry(f, m, q) ==
  /\ m[q] # {} /\ q[2] < End(f)
  /\ \A e \in SeqSet(Candidates(f, q[1], q[2])) : Accounted(m, e, Asker(f, q), m[q])

(* The query's own frame. *)
Base == stack[Len(stack)]

(* Every arm of the target is still to be resolved, under way, or in paths. *)
ArmKept(m, a) ==
  \/ a \in SeqSet(alts)
  \/ Accounted(m, a, Target, paths)
  \/ stack # <<>> /\ (a \in SeqSet(Base.todo) \/ Accounted(m, a, Target, Base.acc))

EntriesWhole == \A q \in DOMAIN memo : WholeEntry(fn, memo, q)

(* No lookup in progress has its answer yet. *)
Unanswered == \A i \in 1..(Len(stack) - 1) : Question(stack[i]) \notin DOMAIN memo

ArmsWhole == verdict # "unresolved" => \A a \in TargetArms(fn) : ArmKept(memo, a)

Outcome ==
  /\ paths # {} \/ stack # <<>> => TargetArms(fn) # {}
  /\ verdict = "ok" => paths # {} /\ alts = <<>>

Whole ==
  EntriesWhole /\ stack \in Seq(WholeFrame(fn, memo)) /\ Unanswered /\ ArmsWhole /\ Outcome

(* mm answers what m answers, in the same way. *)
Extended(m, mm) == DOMAIN m \subseteq DOMAIN mm /\ \A q \in DOMAIN m : mm[q] = m[q]

Enlarges(v, w) == Lits(v) \subseteq Lits(w) /\ Holes(v) \subseteq Holes(w)

LEMMA JoinGrows ==
  ASSUME NEW v, NEW w
  PROVE  Enlarges(v, v \cup w) /\ Enlarges(w, v \cup w) /\ Enlarges(v, v)
<1>1. /\ Lits(v \cup w) = Lits(v) \cup Lits(w)
      /\ Holes(v \cup w) = Holes(v) \cup Holes(w)
  BY JoinLits
<1>. QED BY <1>1 DEF Enlarges

LEMMA AccountedMono ==
  ASSUME NEW m, NEW mm, Extended(m, mm), NEW e, NEW n, NEW v, NEW w, Enlarges(v, w),
         Accounted(m, e, n, v)
  PROVE  Accounted(mm, e, n, w)
<1>1. CASE Holes(v) # {}
  BY <1>1 DEF Accounted, Enlarges
<1>2. CASE Done(m, e, n, v)
  <2>1. OwnLits(e) \subseteq Lits(w)
    BY <1>2 DEF Done, Enlarges
  <2>2. ASSUME NEW r \in Asks(e, n) PROVE Covers(mm, w, r)
    <3>1. Covers(m, v, r)
      BY <1>2 DEF Done
    <3>. QED BY <3>1 DEF Covers, Solid, Extended, Enlarges
  <2>. QED BY <2>1, <2>2 DEF Accounted, Done
<1>. QED BY <1>1, <1>2 DEF Accounted

LEMMA SameExtended ==
  ASSUME NEW m
  PROVE  Extended(m, m)
BY DEF Extended

LEMMA SeqMono ==
  ASSUME NEW X, NEW Y, X \subseteq Y, NEW s \in Seq(X)
  PROVE  s \in Seq(Y)
OBVIOUS

LEMMA WholeFrameMono ==
  ASSUME NEW f, NEW m, NEW mm, Extended(m, mm)
  PROVE  WholeFrame(f, m) \subseteq WholeFrame(f, mm)
<1>. SUFFICES ASSUME NEW fr \in WholeFrame(f, m) PROVE fr \in WholeFrame(f, mm)
  OBVIOUS
<1>1. /\ fr \in FrameType /\ (fr.acc # {} \/ fr.todo # <<>>) /\ (fr.k > 1 => fr.got # {})
      /\ fr.todo # <<>> => GotWhole(m, fr)
      /\ fr.use # End(f) => AccWhole(f, m, fr)
  BY DEF WholeFrame
<1>2. ASSUME NEW it, ItemDone(m, fr, it) PROVE ItemDone(mm, fr, it)
  BY <1>2 DEF ItemDone, Covers, Solid, Extended
<1>3. GotWhole(m, fr) => GotWhole(mm, fr)
  BY <1>2 DEF GotWhole
<1>4. Enlarges(fr.acc, fr.acc)
  BY DEF Enlarges
<1>5. AccWhole(f, m, fr) => AccWhole(f, mm, fr)
  BY <1>4, AccountedMono DEF AccWhole
<1>. QED BY <1>1, <1>3, <1>5 DEF WholeFrame

LEMMA WholeEntryMono ==
  ASSUME NEW f, NEW m, NEW mm, Extended(m, mm), NEW q \in DOMAIN m, WholeEntry(f, m, q)
  PROVE  WholeEntry(f, mm, q)
<1>1. mm[q] = m[q] /\ Enlarges(m[q], m[q])
  BY DEF Extended, Enlarges
<1>. QED BY <1>1, AccountedMono DEF WholeEntry

(* The use a reader asks at is the one its question asks at. *)
LEMMA ReaderUse ==
  ASSUME NEW f \in Functions, NEW fr \in FrameType, fr.todo # <<>>,
         LookupFrame(f, fr) \/ QueryFrame(f, fr),
         NEW n \in Name, <<"name", n>> \in SeqSet(Head(fr.todo).items)
  PROVE  UseIn(fr, n) = IF n = Asker(f, Question(fr)) THEN Head(fr.todo).start ELSE Head(fr.todo).at
<1>. DEFINE e == Head(fr.todo)
            q == Question(fr)
<1>1. e \in SeqSet(fr.todo)
  BY CurrentExpr
<1>2. n # ""
  BY TextAssumption
<1>3. q[1] = fr.name /\ q[2] = fr.use
  BY DEF Question
<1>4. UseIn(fr, n) = IF SelfOf(fr)[1] = n THEN SelfOf(fr)[2] ELSE e.at
  BY DEF UseIn
<1>5. SelfOf(fr) = IF fr.inherits THEN fr.self ELSE <<fr.name, e.start>>
  BY DEF SelfOf
<1>6. Asker(f, q) = IF IsBound(f, fr.name, fr.use) THEN fr.name ELSE ""
  BY <1>3 DEF Asker
<1>. HIDE DEF e, q
<1>7. CASE LookupFrame(f, fr) /\ fr.inherits
  <2>1. ~ IsBound(f, fr.name, fr.use) /\ Unread(f, fr.self[1])
    BY <1>7 DEF LookupFrame
  <2>2. e \in SeqSet(Candidates(f, fr.name, fr.use))
    BY <1>1, <1>7 DEF LookupFrame
  <2>3. e \in SeqSet(CallsTo(f))
    <3>1. Candidates(f, fr.name, fr.use) = IF fr.name = Param THEN CallsTo(f) ELSE <<>>
      BY <2>1, CandidatesRead
    <3>2. SeqSet(<<>>) = {}
      BY DEF SeqSet
    <3>. QED BY <2>2, <3>1, <3>2
  <2>4. n # fr.self[1]
    BY <2>1, <2>3 DEF Unread, e
  <2>. QED BY <1>2, <1>4, <1>5, <1>6, <1>7, <2>1, <2>4 DEF e, q
<1>8. CASE LookupFrame(f, fr) /\ ~ fr.inherits
  <2>1. IsBound(f, fr.name, fr.use)
    BY <1>8 DEF LookupFrame
  <2>. QED BY <1>4, <1>5, <1>6, <1>8, <2>1 DEF e, q
<1>9. CASE QueryFrame(f, fr)
  <2>1. e \in TargetArms(f) /\ fr.self = <<Target, e.start>> /\ fr.name = Target /\ fr.use = End(f)
        /\ fr.inherits
    BY <1>1, <1>9 DEF QueryFrame
  <2>2. PICK b \in SeqSet(BindingsIn(f, Target, End(f))) : TRUE
    BY <2>1, ArmOf
  <2>3. IsBound(f, Target, End(f))
    <3>1. BindingsIn(f, Target, End(f)) \in Seq(ExprOf(f))
      BY BindingsRead
    <3>. QED BY <2>2, <3>1, EmptySeqSet DEF IsBound
  <2>. QED BY <1>4, <1>5, <1>6, <2>1, <2>3 DEF e, q
<1>. QED BY <1>7, <1>8, <1>9

(* A frame whose item k is answered by v. *)
LEMMA WholeGiven ==
  ASSUME NEW f, NEW m, NEW fr \in WholeFrame(f, m), NEW x \in FrameType, NEW v \in Value,
         Continues(x, fr), x.got = fr.got \cup v, x.k = fr.k + 1,
         x.acc = fr.acc, x.todo = fr.todo,
         fr.todo # <<>>, v # {},
         Holes(v) # {} \/ ItemDone(m, x, Head(fr.todo).items[fr.k])
  PROVE  x \in WholeFrame(f, m)
<1>1. /\ fr \in FrameType /\ GotWhole(m, fr)
      /\ fr.use # End(f) => AccWhole(f, m, fr)
  BY DEF WholeFrame
<1>2. x.got # {}
  OBVIOUS
<1>3. /\ Lits(x.got) = Lits(fr.got) \cup Lits(v) /\ Holes(x.got) = Holes(fr.got) \cup Holes(v)
  <2>. DEFINE g == fr.got
              h == x.got
  <2>1. h = g \cup v
    OBVIOUS
  <2>. HIDE DEF g, h
  <2>2. Lits(h) = Lits(g) \cup Lits(v) /\ Holes(h) = Holes(g) \cup Holes(v)
    BY <2>1, JoinLits
  <2>. QED BY <2>2 DEF g, h
<1>4. x.name = fr.name /\ x.use = fr.use /\ Question(x) = Question(fr)
  BY SameQuestion DEF Continues
<1>5. \A n : UseIn(x, n) = UseIn(fr, n)
  BY DEF Continues, UseIn, SelfOf
<1>6. ASSUME NEW it, ItemDone(m, fr, it) PROVE ItemDone(m, x, it)
  BY <1>3, <1>5, <1>6 DEF ItemDone, Covers
<1>7. GotWhole(m, x)
  <2>1. CASE Holes(fr.got) # {} \/ Holes(v) # {}
    BY <1>3, <2>1 DEF GotWhole
  <2>2. CASE Holes(fr.got) = {} /\ Holes(v) = {}
    <3>1. ASSUME NEW j \in 1..Len(Head(fr.todo).items), j < x.k
          PROVE  ItemDone(m, x, Head(fr.todo).items[j])
      <4>1. fr.k \in Nat /\ Len(Head(fr.todo).items) \in Nat
        BY <1>1, CurrentExpr DEF FrameType
      <4>2. CASE j < fr.k
        BY <1>1, <1>6, <2>2, <4>2 DEF GotWhole
      <4>3. CASE j = fr.k
        BY <2>2, <4>3
      <4>4. j < fr.k \/ j = fr.k
        BY <3>1, <4>1
      <4>. QED BY <4>2, <4>3, <4>4
    <3>. QED BY <3>1 DEF GotWhole
  <2>. QED BY <2>1, <2>2
<1>8. AccWhole(f, m, fr) => AccWhole(f, m, x)
  BY <1>4 DEF AccWhole
<1>. QED BY <1>1, <1>2, <1>4, <1>7, <1>8 DEF WholeFrame

(* Expressions that are read, or settled, stay so. *)
Carries(m, mm, n, fr, x) ==
  \A e : e \in SeqSet(fr.todo) \/ Accounted(m, e, n, fr.acc)
         => e \in SeqSet(x.todo) \/ Accounted(mm, e, n, x.acc)

(* A frame whose current expression gave v. *)
LEMMA WholeMoved ==
  ASSUME NEW f, NEW m, NEW fr \in WholeFrame(f, m), NEW x \in FrameType, NEW v \in Value,
         Continues(x, fr), x.got = {}, x.k = 1,
         x.acc = fr.acc \cup v, x.todo = Tail(fr.todo),
         fr.todo # <<>>, v # {},
         Accounted(m, Head(fr.todo), Asker(f, Question(fr)), v)
  PROVE  x \in WholeFrame(f, m) /\ Carries(m, m, Asker(f, Question(fr)), fr, x)
<1>. DEFINE n == Asker(f, Question(fr))
<1>1. /\ fr \in FrameType /\ fr.todo \in Seq(Expression)
      /\ fr.use # End(f) => AccWhole(f, m, fr)
  BY DEF WholeFrame, FrameType
<1>2. SeqSet(fr.todo) = {Head(fr.todo)} \cup SeqSet(x.todo)
  BY <1>1, HeadTailSet
<1>3. Enlarges(fr.acc, x.acc) /\ Enlarges(v, x.acc) /\ Extended(m, m)
  BY JoinGrows, SameExtended
<1>. HIDE DEF n
<1>4. ASSUME NEW e, e \in SeqSet(fr.todo) \/ Accounted(m, e, n, fr.acc)
      PROVE  e \in SeqSet(x.todo) \/ Accounted(m, e, n, x.acc)
  <2>1. CASE Accounted(m, e, n, fr.acc)
    BY <1>3, <2>1, AccountedMono
  <2>2. CASE e = Head(fr.todo)
    <3>1. Accounted(m, e, n, v)
      BY <2>2 DEF n
    <3>. QED BY <1>3, <3>1, AccountedMono
  <2>. QED BY <1>2, <1>4, <2>1, <2>2
<1>5. x.name = fr.name /\ x.use = fr.use /\ Question(x) = Question(fr)
  BY SameQuestion DEF Continues
<1>6. AccWhole(f, m, fr) => AccWhole(f, m, x)
  BY <1>4, <1>5 DEF AccWhole, n
<1>7. GotWhole(m, x)
  BY DEF GotWhole
<1>8. x.acc # {}
  OBVIOUS
<1>9. ~ (x.k > 1)
  OBVIOUS
<1>10. x \in WholeFrame(f, m)
  BY <1>1, <1>5, <1>6, <1>7, <1>8, <1>9 DEF WholeFrame
<1>11. Carries(m, m, n, fr, x)
  BY <1>4 DEF Carries
<1>. QED BY <1>10, <1>11 DEF n

LEMMA SameCarries ==
  ASSUME NEW m, NEW mm, Extended(m, mm), NEW n, NEW fr, NEW x, x.todo = fr.todo, x.acc = fr.acc
  PROVE  Carries(m, mm, n, fr, x)
<1>1. Enlarges(fr.acc, fr.acc)
  BY DEF Enlarges
<1>. QED BY <1>1, AccountedMono DEF Carries

LEMMA QueryAsker ==
  ASSUME NEW f \in Functions, NEW fr, QueryFrame(f, fr), TargetArms(f) # {}
  PROVE  Asker(f, Question(fr)) = Target
<1>1. Question(fr) = <<Target, End(f)>>
  BY DEF Question, QueryFrame
<1>2. PICK b \in SeqSet(BindingsIn(f, Target, End(f))) : TRUE
  BY ArmOf
<1>3. BindingsIn(f, Target, End(f)) \in Seq(ExprOf(f))
  BY BindingsRead
<1>4. IsBound(f, Target, End(f))
  BY <1>2, <1>3, EmptySeqSet DEF IsBound
<1>. QED BY <1>1, <1>4 DEF Asker

(* The arms are kept while the query's frame carries them. *)
LEMMA ArmsStep ==
  ASSUME ArmsWhole, stack # <<>>, NEW b, b = stack'[Len(stack')], stack' # <<>>,
         Extended(memo, memo'), Carries(memo, memo', Target, Base, b),
         fn' = fn, alts' = alts, paths' = paths, verdict' = verdict
  PROVE  ArmsWhole'
<1>. SUFFICES ASSUME verdict # "unresolved", NEW a \in TargetArms(fn)
              PROVE  ArmKept(memo, a)'
  BY DEF ArmsWhole
<1>1. ArmKept(memo, a)
  BY DEF ArmsWhole
<1>2. Accounted(memo, a, Target, paths) => Accounted(memo', a, Target, paths)
  <2>1. Enlarges(paths, paths)
    BY DEF Enlarges
  <2>. QED BY <2>1, AccountedMono
<1>3. a \in SeqSet(Base.todo) \/ Accounted(memo, a, Target, Base.acc)
      => a \in SeqSet(b.todo) \/ Accounted(memo', a, Target, b.acc)
  BY DEF Carries
<1>4. ArmKept(memo, a)' <=> \/ a \in SeqSet(alts)
                            \/ Accounted(memo', a, Target, paths)
                            \/ a \in SeqSet(b.todo) \/ Accounted(memo', a, Target, b.acc)
  BY DEF ArmKept, Base
<1>. QED BY <1>1, <1>2, <1>3, <1>4 DEF ArmKept

LEMMA WholeTop ==
  ASSUME LookupInv, Whole, stack # <<>>
  PROVE  /\ Top \in WholeFrame(fn, memo) /\ Top \in FrameType /\ fn \in Functions
         /\ LookupFrame(fn, Top) \/ QueryFrame(fn, Top)
         /\ stack \in Seq(WholeFrame(fn, memo)) /\ stack \in Seq(FrameType)
         /\ Len(stack) \in Nat \ {0}
<1>1. Top \in WholeFrame(fn, memo)
  BY HeadTailSet DEF Whole, Top
<1>2. fn \in Functions /\ (LookupFrame(fn, Top) \/ QueryFrame(fn, Top)) /\ Top \in FrameType
      /\ Len(stack) \in Nat \ {0}
  BY TopFacts DEF LookupInv
<1>. QED BY <1>1, <1>2 DEF Whole, LookupInv, SiteType

(* A step that replaces the frame on top. *)
LEMMA WholeTopStep ==
  ASSUME LookupInv, Whole, stack # <<>>, NEW x \in FrameType, Continues(x, Top),
         x \in WholeFrame(fn, memo'), Extended(memo, memo'),
         Carries(memo, memo', Asker(fn, Question(Top)), Top, x),
         stack' = <<x>> \o Below,
         fn' = fn, alts' = alts, paths' = paths, verdict' = verdict
  PROVE  /\ stack' \in Seq(WholeFrame(fn, memo')) /\ ArmsWhole' /\ Outcome'
         /\ Len(stack') = Len(stack) /\ Len(stack) \in Nat \ {0}
         /\ \A i \in 1..Len(stack) : Question(stack'[i]) = Question(stack[i])
<1>. DEFINE n == Len(stack)
            Y == WholeFrame(fn, memo')
<1>1. stack \in Seq(WholeFrame(fn, memo)) /\ n \in Nat \ {0} /\ Top = stack[1] /\ fn \in Functions
  BY WholeTop, TopFacts DEF LookupInv
<1>2. WholeFrame(fn, memo) \subseteq Y
  BY WholeFrameMono
<1>3. stack \in Seq(Y) /\ x \in Y
  BY <1>1, <1>2, SeqMono
<1>. HIDE DEF Y
<1>4. /\ stack' \in Seq(Y) /\ Len(stack') = n /\ stack'[1] = x
      /\ \A i \in 2..n : stack'[i] = stack[i]
  BY <1>3, StackReplace DEF Below
<1>. HIDE DEF n
<1>5. \A i \in 1..n : Question(stack'[i]) = Question(stack[i])
  <2>. SUFFICES ASSUME NEW i \in 1..n PROVE Question(stack'[i]) = Question(stack[i])
    OBVIOUS
  <2>1. CASE i = 1
    BY <1>1, <1>4, <2>1, SameQuestion
  <2>2. CASE i # 1
    BY <1>1, <1>4, <2>2
  <2>. QED BY <2>1, <2>2
<1>6. stack' # <<>>
  BY <1>1, <1>4
<1>7. TargetArms(fn) # {}
  BY DEF Whole, Outcome
<1>8. Carries(memo, memo', Target, Base, stack'[n])
  <2>1. CASE n = 1
    <3>1. QueryFrame(fn, Top)
      BY <2>1, TopFacts DEF LookupInv, n
    <3>2. Asker(fn, Question(Top)) = Target
      BY <1>1, <1>7, <3>1, QueryAsker
    <3>. QED BY <1>1, <1>4, <2>1, <3>2 DEF Base, n
  <2>2. CASE n # 1
    <3>1. n \in 2..n
      BY <1>1, <2>2
    <3>2. stack'[n] = Base
      BY <1>4, <3>1 DEF Base, n
    <3>. QED BY <3>2, SameCarries
  <2>. QED BY <2>1, <2>2
<1>9. ArmsWhole'
  BY <1>4, <1>6, <1>8, ArmsStep DEF Whole
<1>10. Outcome'
  BY DEF Whole, Outcome
<1>. QED BY <1>1, <1>4, <1>5, <1>9, <1>10 DEF Y, n

(* A step that answers the item under the reader and memoizes nothing. *)
LEMMA WholeGiveStep ==
  ASSUME LookupInv, Whole, Reading, NEW v \in Value, v # {},
         Holes(v) # {} \/ ItemDone(memo, Give(v), Item),
         stack' = <<Give(v)>> \o Below,
         fn' = fn, alts' = alts, memo' = memo, paths' = paths, verdict' = verdict
  PROVE  Whole'
<1>1. stack # <<>> /\ Top.todo # <<>>
  BY DEF Reading
<1>. DEFINE x == Give(v)
<1>2. Top \in WholeFrame(fn, memo) /\ Top \in FrameType
  BY <1>1, WholeTop
<1>3. /\ x \in FrameType /\ Continues(x, Top)
      /\ x.got = Top.got \cup v /\ x.k = Top.k + 1 /\ x.acc = Top.acc /\ x.todo = Top.todo
  BY <1>2, GiveFacts
<1>4. Holes(v) # {} \/ ItemDone(memo, x, Head(Top.todo).items[Top.k])
  BY DEF Item, E
<1>. HIDE DEF x
<1>5. x \in WholeFrame(fn, memo)
  BY <1>1, <1>2, <1>3, <1>4, WholeGiven
<1>6. Extended(memo, memo') /\ Carries(memo, memo', Asker(fn, Question(Top)), Top, x)
  <2>1. Extended(memo, memo')
    BY DEF Extended
  <2>. QED BY <1>3, <2>1, SameCarries
<1>7. stack' = <<x>> \o Below
  BY DEF x
<1>8. /\ stack' \in Seq(WholeFrame(fn, memo')) /\ ArmsWhole' /\ Outcome'
      /\ Len(stack') = Len(stack) /\ Len(stack) \in Nat \ {0}
      /\ \A i \in 1..Len(stack) : Question(stack'[i]) = Question(stack[i])
  BY <1>1, <1>3, <1>5, <1>6, <1>7, WholeTopStep
<1>9. Unanswered'
  BY <1>8 DEF Whole, Unanswered
<1>10. EntriesWhole'
  BY DEF Whole, EntriesWhole
<1>. QED BY <1>8, <1>9, <1>10 DEF Whole

(* A step to the next expression. *)
LEMMA WholeNextStep ==
  ASSUME LookupInv, Whole, stack # <<>>, Top.todo # <<>>, NEW v \in Value, v # {},
         Accounted(memo, E, Asker(fn, Question(Top)), v),
         stack' = <<NextExpr(v)>> \o Below,
         fn' = fn, alts' = alts, memo' = memo, paths' = paths, verdict' = verdict
  PROVE  Whole'
<1>. DEFINE x == NextExpr(v)
<1>2. Top \in WholeFrame(fn, memo) /\ Top \in FrameType
  BY WholeTop
<1>3. /\ x \in FrameType /\ Continues(x, Top)
      /\ x.got = {} /\ x.k = 1 /\ x.acc = Top.acc \cup v /\ x.todo = Tail(Top.todo)
  BY <1>2, NextFacts
<1>4. Accounted(memo, Head(Top.todo), Asker(fn, Question(Top)), v)
  BY DEF E
<1>. HIDE DEF x
<1>5. x \in WholeFrame(fn, memo) /\ Carries(memo, memo, Asker(fn, Question(Top)), Top, x)
  BY <1>2, <1>3, <1>4, WholeMoved
<1>6. Extended(memo, memo')
  BY DEF Extended
<1>7. stack' = <<x>> \o Below
  BY DEF x
<1>8. /\ stack' \in Seq(WholeFrame(fn, memo')) /\ ArmsWhole' /\ Outcome'
      /\ Len(stack') = Len(stack) /\ Len(stack) \in Nat \ {0}
      /\ \A i \in 1..Len(stack) : Question(stack'[i]) = Question(stack[i])
  BY <1>3, <1>5, <1>6, <1>7, WholeTopStep
<1>9. Unanswered'
  BY <1>8 DEF Whole, Unanswered
<1>10. EntriesWhole'
  BY DEF Whole, EntriesWhole
<1>. QED BY <1>8, <1>9, <1>10 DEF Whole

(* An expression whose items are all read is settled. *)
LEMMA FinishSettles ==
  ASSUME LookupInv, Whole, FinishExpr
  PROVE  /\ Combine(E, Top.got) # {}
         /\ Accounted(memo, E, Asker(fn, Question(Top)), Combine(E, Top.got))
<1>. DEFINE v == Combine(E, Top.got)
            n == Asker(fn, Question(Top))
<1>1. /\ stack # <<>> /\ Top.todo # <<>> /\ Top.k > Len(E.items) /\ E \in Expression
      /\ Top \in FrameType /\ Top.got \in Value
  BY FinishExprStep
<1>2. /\ Top \in WholeFrame(fn, memo) /\ fn \in Functions
      /\ LookupFrame(fn, Top) \/ QueryFrame(fn, Top)
  BY <1>1, WholeTop
<1>3. Len(E.items) \in Nat \ {0} /\ Top.k \in Nat
  BY <1>1, CurrentExpr DEF E, FrameType
<1>4. Top.k > 1
  BY <1>1, <1>3
<1>5. Top.got # {}
  BY <1>2, <1>4 DEF WholeFrame
<1>6. v # {}
  BY <1>1, <1>5, CombineValue
<1>7. CASE Holes(v) # {}
  BY <1>6, <1>7 DEF Accounted
<1>8. CASE Holes(v) = {}
  <2>1. /\ Holes(Top.got) = {} /\ Lits(Top.got) \subseteq Lits(v)
        /\ E.op = "template" => LitLeaf(E.stmt) \in Lits(v)
    BY <1>1, <1>8, CombineValue
  <2>2. GotWhole(memo, Top)
    BY <1>1, <1>2 DEF WholeFrame
  <2>3. ASSUME NEW j \in 1..Len(E.items) PROVE ItemDone(memo, Top, E.items[j])
    <3>1. j < Top.k
      BY <1>1, <1>3
    <3>. QED BY <2>1, <2>2, <3>1 DEF GotWhole, E
  <2>4. OwnLits(E) \subseteq Lits(v)
    <3>1. CASE E.op = "template"
      BY <2>1, <3>1 DEF OwnLits
    <3>2. ASSUME NEW j \in 1..Len(E.items), E.items[j] = <<"text">>
          PROVE  LitLeaf(E.stmt) \in Lits(v)
      <4>1. ItemDone(memo, Top, <<"text">>)
        BY <2>3, <3>2
      <4>2. LitLeaf(E.stmt) \in Lits(Top.got)
        BY <4>1 DEF ItemDone, E
      <4>. QED BY <2>1, <4>2
    <3>. QED BY <3>1, <3>2 DEF OwnLits
  <2>5. ASSUME NEW r \in Asks(E, n) PROVE Covers(memo, v, r)
    <3>1. PICK m \in Name, j \in 1..Len(E.items) :
            E.items[j] = <<"name", m>> /\ r = <<m, IF m = n THEN E.start ELSE E.at>>
      BY DEF Asks
    <3>2. <<"name", m>> \in SeqSet(Head(Top.todo).items)
      BY <3>1 DEF SeqSet, E
    <3>3. UseIn(Top, m) = IF m = n THEN E.start ELSE E.at
      BY <1>1, <1>2, <3>2, ReaderUse DEF E
    <3>4. ItemDone(memo, Top, <<"name", m>>)
      BY <2>3, <3>1
    <3>5. Covers(memo, Top.got, <<m, UseIn(Top, m)>>)
      BY <3>4 DEF ItemDone
    <3>. HIDE DEF v, n
    <3>. QED BY <2>1, <3>1, <3>3, <3>5 DEF Covers
  <2>. QED BY <1>6, <2>4, <2>5 DEF Accounted, Done
<1>. QED BY <1>7, <1>8

(* A new entry of the memo leaves the others as they are. *)
LEMMA RememberedNew ==
  ASSUME NEW key, key \notin DOMAIN memo, NEW v, Remember(key, v)
  PROVE  /\ Extended(memo, memo')
         /\ DOMAIN memo' = DOMAIN memo \cup {key} /\ memo'[key] = v
BY Remembered DEF Extended

LEMMA EntriesStep ==
  ASSUME EntriesWhole, NEW key, key \notin DOMAIN memo, NEW v, Remember(key, v),
         WholeEntry(fn, memo', key), fn' = fn
  PROVE  EntriesWhole'
<1>1. Extended(memo, memo') /\ DOMAIN memo' = DOMAIN memo \cup {key}
  BY RememberedNew
<1>2. ASSUME NEW q \in DOMAIN memo' PROVE WholeEntry(fn, memo', q)
  <2>1. CASE q = key
    BY <2>1
  <2>2. CASE q # key
    <3>1. q \in DOMAIN memo /\ WholeEntry(fn, memo, q)
      BY <1>1, <1>2, <2>2 DEF EntriesWhole
    <3>. QED BY <1>1, <3>1, WholeEntryMono
  <2>. QED BY <2>1, <2>2
<1>. QED BY <1>2 DEF EntriesWhole

LEMMA WholeStopped ==
  ASSUME LookupInv, Whole, NEW n \in Name, Stopped(n)
  PROVE  Whole'
<1>. DEFINE key == <<n, UseOf(n)>>
            v == StoppedValue(n)
            x == Give(v)
<1>1. /\ Reading /\ Item = <<"name", n>> /\ Enterable(n) /\ key \notin DOMAIN memo
      /\ Remember(key, v) /\ stack' = <<x>> \o Below
      /\ fn' = fn /\ alts' = alts /\ paths' = paths /\ verdict' = verdict
      /\ v \in Value /\ v # {} /\ Holes(v) # {}
  BY StoppedStep
<1>2. stack # <<>> /\ Top.todo # <<>>
  BY <1>1 DEF Reading
<1>3. UseOf(n) < End(fn)
  BY <1>1, Asked DEF LookupInv
<1>4. \A j \in 1..Len(stack) : stack[j].name = n => UseOf(n) < stack[j].use
  BY <1>1, EntersEarlier
<1>5. \A j \in 1..Len(stack) : stack[j].use \in Nat
  BY <1>2, TopFacts DEF LookupInv, FrameType
<1>6. Top \in WholeFrame(fn, memo) /\ Top \in FrameType
  BY <1>2, WholeTop
<1>7. UseOf(n) \in Nat
  BY <1>1, Asked DEF LookupInv
<1>8. \A j \in 1..Len(stack) : Question(stack[j]) # key
  BY <1>4, <1>5, <1>7 DEF Question
<1>9. key[2] = UseOf(n)
  OBVIOUS
<1>10. /\ x \in FrameType /\ Continues(x, Top)
       /\ x.got = Top.got \cup v /\ x.k = Top.k + 1 /\ x.acc = Top.acc /\ x.todo = Top.todo
  BY <1>1, <1>6, GiveFacts
<1>. HIDE DEF key, v, x
<1>11. Extended(memo, memo') /\ DOMAIN memo' = DOMAIN memo \cup {key} /\ memo'[key] = v
  BY <1>1, RememberedNew
<1>12. Top \in WholeFrame(fn, memo')
  BY <1>6, <1>11, WholeFrameMono
<1>13. x \in WholeFrame(fn, memo')
  BY <1>1, <1>2, <1>10, <1>12, WholeGiven
<1>14. Carries(memo, memo', Asker(fn, Question(Top)), Top, x)
  BY <1>10, <1>11, SameCarries
<1>15. /\ stack' \in Seq(WholeFrame(fn, memo')) /\ ArmsWhole' /\ Outcome'
       /\ Len(stack') = Len(stack) /\ Len(stack) \in Nat \ {0}
       /\ \A i \in 1..Len(stack) : Question(stack'[i]) = Question(stack[i])
  BY <1>1, <1>2, <1>10, <1>11, <1>13, <1>14, WholeTopStep
<1>16. Unanswered'
  <2>1. ASSUME NEW i \in 1..(Len(stack) - 1) PROVE Question(stack'[i]) \notin DOMAIN memo'
    <3>1. i \in 1..Len(stack)
      BY <1>15
    <3>2. Question(stack[i]) \notin DOMAIN memo
      BY DEF Whole, Unanswered
    <3>. QED BY <1>8, <1>11, <1>15, <3>1, <3>2
  <2>. QED BY <1>15, <2>1 DEF Unanswered
<1>17. WholeEntry(fn, memo', key)
  BY <1>1, <1>3, <1>9, <1>11 DEF WholeEntry, Accounted
<1>18. EntriesWhole'
  BY <1>1, <1>17, EntriesStep DEF Whole
<1>. QED BY <1>1, <1>15, <1>16, <1>18 DEF Whole

LEMMA WholeLookUp ==
  ASSUME LookupInv, Whole, NEW n \in Name, LookUp(n)
  PROVE  Whole'
<1>1. PICK x \in FrameType :
        /\ LookupFrame(fn, x) /\ x.name = n /\ x.use = UseOf(n)
        /\ x.todo = Candidates(fn, n, UseOf(n)) /\ x.todo # <<>>
        /\ x.got = {} /\ x.acc = {} /\ x.k = 1
        /\ stack' = <<x>> \o stack
  BY LookUpStep
<1>2. /\ stack # <<>> /\ <<n, UseOf(n)>> \notin DOMAIN memo
      /\ fn' = fn /\ alts' = alts /\ memo' = memo /\ paths' = paths /\ verdict' = verdict
  BY DEF LookUp, Asking, Reading, MemoKey
<1>3. Question(x) \notin DOMAIN memo
  BY <1>1, <1>2 DEF Question
<1>4. AccWhole(fn, memo, x)
  BY <1>1 DEF AccWhole
<1>5. GotWhole(memo, x)
  BY <1>1 DEF GotWhole
<1>6. ~ (x.k > 1)
  BY <1>1
<1>7. x \in WholeFrame(fn, memo)
  BY <1>1, <1>4, <1>5, <1>6 DEF WholeFrame
<1>. DEFINE k == Len(stack)
            Y == WholeFrame(fn, memo)
<1>8. stack \in Seq(Y) /\ k \in Nat \ {0}
  BY <1>2, WholeTop
<1>. HIDE DEF Y
<1>9. /\ stack' \in Seq(Y) /\ Len(stack') = k + 1 /\ stack'[1] = x
      /\ \A i \in 1..k : stack'[i + 1] = stack[i]
  BY <1>1, <1>7, <1>8, StackPush DEF Y
<1>. HIDE DEF k
<1>10. Unanswered'
  <2>1. ASSUME NEW i \in 1..((k + 1) - 1) PROVE Question(stack'[i]) \notin DOMAIN memo
    <3>1. CASE i = 1
      BY <1>3, <1>9, <3>1
    <3>2. CASE i # 1
      <4>1. i - 1 \in 1..k /\ (i - 1) + 1 = i /\ i - 1 \in 1..(k - 1)
        BY <1>8, <3>2
      <4>2. stack'[i] = stack[i - 1]
        BY <1>9, <4>1
      <4>. QED BY <4>1, <4>2 DEF Whole, Unanswered, k
    <3>. QED BY <3>1, <3>2
  <2>. QED BY <1>2, <1>9, <2>1 DEF Unanswered
<1>11. stack'[Len(stack')] = Base /\ stack' # <<>>
  <2>1. k \in 1..k /\ k + 1 # 0
    BY <1>8
  <2>2. stack'[k + 1] = stack[k]
    BY <1>9, <2>1
  <2>3. stack' # <<>>
    BY <1>8, <1>9
  <2>. QED BY <1>9, <2>2, <2>3 DEF Base, k
<1>12. Extended(memo, memo')
  BY <1>2 DEF Extended
<1>13. Carries(memo, memo', Target, Base, stack'[Len(stack')])
  BY <1>11, <1>12, SameCarries
<1>14. ArmsWhole'
  BY <1>2, <1>11, <1>12, <1>13, ArmsStep DEF Whole
<1>15. EntriesWhole' /\ Outcome'
  BY <1>2, <1>11 DEF Whole, EntriesWhole, Outcome
<1>. QED BY <1>2, <1>9, <1>10, <1>14, <1>15 DEF Whole, Y

(* The lookups below the one that returns have other questions. *)
LEMMA OthersDiffer ==
  ASSUME LookupInv, Len(stack) > 1, NEW i \in 2..Len(stack)
  PROVE  Question(stack[i]) # Question(Top)
<1>1. Top = stack[1] /\ 1 \in 1..Len(stack) /\ Len(stack) \in Nat
      /\ \A j \in 1..Len(stack) : stack[j] \in FrameType
  <2>1. stack # <<>>
    BY DEF LookupInv, SiteType
  <2>. QED BY <2>1, TopFacts DEF LookupInv
<1>2. i \in 1..Len(stack) /\ 1 < i
  BY <1>1
<1>3. stack[1].name = stack[i].name => stack[1].use < stack[i].use
  BY <1>1, <1>2 DEF LookupInv, SelfNarrows
<1>4. stack[1].use \in Nat /\ stack[i].use \in Nat
  BY <1>1, <1>2 DEF FrameType
<1>. QED BY <1>1, <1>3, <1>4 DEF Question

LEMMA WholeReturn ==
  ASSUME LookupInv, Whole, Return
  PROVE  Whole'
<1>. DEFINE v == CapUnion(Top.acc, Top.name)
            key == <<Top.name, Top.use>>
            rd == stack[2]
            n == Len(stack)
<1>1. /\ n > 1 /\ stack # <<>> /\ v \in Value /\ Top.acc \in Value /\ Top.name \in Name
      /\ Top.todo = <<>> /\ Top = stack[1]
      /\ Remember(key, v) /\ fn' = fn /\ alts' = alts /\ paths' = paths /\ verdict' = verdict
  BY ReturnStep
<1>2. PICK x \in FrameType :
        /\ Continues(x, rd) /\ stack' = <<x>> \o Tail(Below)
        /\ x.got = rd.got \cup v /\ x.k = rd.k + 1 /\ x.acc = rd.acc /\ x.todo = rd.todo
  BY ReturnStep
<1>3. /\ rd \in FrameType /\ fn \in Functions /\ (LookupFrame(fn, rd) \/ QueryFrame(fn, rd))
      /\ ReadsName(rd, Top.name) /\ Question(Top) = <<Top.name, UseIn(rd, Top.name)>>
      /\ Question(Top) = key /\ LookupFrame(fn, Top)
  BY <1>1, ReaderBelow
<1>4. Top \in WholeFrame(fn, memo) /\ stack \in Seq(WholeFrame(fn, memo)) /\ n \in Nat \ {0}
  BY <1>1, WholeTop
<1>5. key[1] = Top.name /\ key[2] = Top.use
  OBVIOUS
<1>6. Top.use < End(fn) /\ Top.use \in Nat /\ End(fn) \in Nat
  BY <1>3, <1>4, TextShape DEF LookupFrame, WholeFrame, FrameType, End, Start
<1>7. Top.acc # {} /\ AccWhole(fn, memo, Top)
  BY <1>1, <1>4, <1>6 DEF WholeFrame
<1>8. v # {} /\ (Holes(v) # {} \/ v = Top.acc)
  BY <1>1, <1>7, CapValue
<1>9. \A i \in 2..n : Question(stack[i]) # key
  BY <1>1, <1>3, OthersDiffer
<1>. HIDE DEF v, key, rd, n
<1>10. key \notin DOMAIN memo
  <2>1. 1 \in 1..(n - 1)
    BY <1>1, <1>4
  <2>. QED BY <1>1, <1>3, <2>1 DEF Whole, Unanswered, n
<1>11. Extended(memo, memo') /\ DOMAIN memo' = DOMAIN memo \cup {key} /\ memo'[key] = v
  BY <1>1, <1>10, RememberedNew
<1>12. WholeEntry(fn, memo', key)
  <2>1. ASSUME NEW e \in SeqSet(Candidates(fn, key[1], key[2]))
        PROVE  Accounted(memo', e, Asker(fn, key), v)
    <3>1. CASE Holes(v) # {}
      BY <3>1 DEF Accounted
    <3>2. CASE v = Top.acc
      <4>1. SeqSet(Top.todo) = {}
        BY <1>1 DEF SeqSet
      <4>2. Accounted(memo, e, Asker(fn, key), Top.acc)
        BY <1>3, <1>5, <1>7, <4>1 DEF AccWhole
      <4>3. Enlarges(Top.acc, v)
        BY <3>2 DEF Enlarges
      <4>. QED BY <1>11, <4>2, <4>3, AccountedMono
    <3>. QED BY <1>8, <3>1, <3>2
  <2>. QED BY <1>5, <1>6, <1>8, <1>11, <2>1 DEF WholeEntry
<1>13. EntriesWhole'
  BY <1>1, <1>10, <1>12, EntriesStep DEF Whole
<1>. DEFINE Y == WholeFrame(fn, memo')
<1>14. stack \in Seq(Y)
  <2>1. WholeFrame(fn, memo) \subseteq Y
    BY <1>11, WholeFrameMono
  <2>. HIDE DEF Y
  <2>. QED BY <1>4, <2>1, SeqMono
<1>15. rd \in Y
  <2>1. 2 \in 1..n
    BY <1>1, <1>4
  <2>. HIDE DEF Y
  <2>. QED BY <1>14, <2>1 DEF rd, n
<1>16. rd.todo # <<>> /\ Head(rd.todo).items[rd.k] = <<"name", Top.name>>
  BY <1>3 DEF ReadsName
<1>17. ASSUME Holes(v) = {} PROVE ItemDone(memo', x, Head(rd.todo).items[rd.k])
  <2>1. \A m : UseIn(x, m) = UseIn(rd, m)
    BY <1>2 DEF Continues, UseIn, SelfOf
  <2>2. Enlarges(v, x.got)
    BY <1>2, JoinGrows
  <2>3. Covers(memo', x.got, key)
    BY <1>11, <1>17, <2>2 DEF Covers, Solid, Enlarges
  <2>4. key = <<Top.name, UseIn(x, Top.name)>>
    BY <1>3, <2>1
  <2>. DEFINE i == Head(rd.todo).items[rd.k]
  <2>5. i # <<"text">> /\ \A m : i = <<"name", m>> => m = Top.name
    BY <1>16
  <2>. HIDE DEF i
  <2>6. ItemDone(memo', x, i)
    BY <2>3, <2>4, <2>5 DEF ItemDone
  <2>. QED BY <2>6 DEF i
<1>18. x \in Y
  BY <1>1, <1>2, <1>8, <1>15, <1>16, <1>17, WholeGiven
<1>. HIDE DEF Y
<1>19. /\ stack' \in Seq(Y) /\ Len(stack') = n - 1 /\ stack'[1] = x
       /\ \A i \in 2..(n - 1) : stack'[i] = stack[i + 1]
  BY <1>1, <1>2, <1>14, <1>18, StackPop DEF Below, n
<1>20. ASSUME NEW i \in 1..(n - 1) PROVE Question(stack'[i]) = Question(stack[i + 1])
  <2>1. CASE i = 1
    BY <1>2, <1>19, <2>1, SameQuestion DEF rd
  <2>2. CASE i # 1
    BY <1>4, <1>19, <2>2
  <2>. QED BY <2>1, <2>2
<1>21. Unanswered'
  <2>1. ASSUME NEW i \in 1..((n - 1) - 1) PROVE Question(stack'[i]) \notin DOMAIN memo'
    <3>1. i \in 1..(n - 1) /\ i + 1 \in 2..n /\ i + 1 \in 1..(n - 1)
      BY <1>1, <1>4
    <3>2. Question(stack[i + 1]) \notin DOMAIN memo
      BY <3>1 DEF Whole, Unanswered, n
    <3>. QED BY <1>9, <1>11, <1>20, <3>1, <3>2
  <2>. QED BY <1>19, <2>1 DEF Unanswered
<1>22. stack' # <<>>
  <2>1. n - 1 # 0
    BY <1>1, <1>4
  <2>. QED BY <1>19, <2>1
<1>23. Carries(memo, memo', Target, Base, stack'[n - 1])
  <2>1. CASE n = 2
    <3>1. stack'[n - 1] = x /\ Base = rd
      BY <1>19, <2>1 DEF Base, rd, n
    <3>. QED BY <1>2, <1>11, <3>1, SameCarries
  <2>2. CASE n # 2
    <3>1. n - 1 \in 2..(n - 1) /\ (n - 1) + 1 = n
      BY <1>1, <1>4, <2>2
    <3>2. stack'[n - 1] = Base
      BY <1>19, <3>1 DEF Base, n
    <3>. QED BY <1>11, <3>2, SameCarries
  <2>. QED BY <2>1, <2>2
<1>24. ArmsWhole'
  BY <1>1, <1>11, <1>19, <1>22, <1>23, ArmsStep DEF Whole
<1>25. Outcome'
  BY <1>1 DEF Whole, Outcome
<1>. QED BY <1>1, <1>13, <1>19, <1>21, <1>24, <1>25 DEF Whole, Y

LEMMA WholeResolve ==
  ASSUME LookupInv, ArmsLeft, Whole, Resolve
  PROVE  Whole'
<1>. DEFINE a == Head(alts)
<1>1. PICK x \in FrameType :
        /\ QueryFrame(fn, x) /\ stack' = <<x>> /\ x.todo = <<a>>
        /\ x.got = {} /\ x.acc = {} /\ x.k = 1
        /\ a \in Expression /\ a \in TargetArms(fn)
  BY ResolveStep DEF ArmsLeft
<1>2. /\ alts' = Tail(alts) /\ alts # <<>> /\ stack = <<>> /\ verdict = "open"
      /\ UNCHANGED <<fn, memo, paths, verdict>>
  BY DEF Resolve
<1>3. SeqSet(alts) = {a} \cup SeqSet(alts')
  BY <1>2, HeadTailSet DEF LookupInv, SiteType
<1>. HIDE DEF a
<1>4. SeqSet(x.todo) = {a} /\ x.todo # <<>>
  BY <1>1 DEF SeqSet
<1>5. GotWhole(memo, x) /\ ~ (x.k > 1) /\ x.use = End(fn)
  BY <1>1 DEF GotWhole, QueryFrame
<1>6. x \in WholeFrame(fn, memo)
  BY <1>4, <1>5 DEF WholeFrame
<1>7. stack' \in Seq(WholeFrame(fn, memo)) /\ Len(stack') = 1 /\ stack'[1] = x /\ stack' # <<>>
  BY <1>1, <1>6
<1>8. ASSUME NEW b \in TargetArms(fn) PROVE ArmKept(memo, b)'
  <2>1. b \in SeqSet(alts) \/ Accounted(memo, b, Target, paths)
    BY <1>2 DEF Whole, ArmsWhole, ArmKept
  <2>2. Base' = x
    BY <1>7 DEF Base
  <2>. QED BY <1>2, <1>3, <1>4, <1>7, <2>1, <2>2 DEF ArmKept
<1>9. ArmsWhole'
  BY <1>2, <1>8 DEF ArmsWhole
<1>10. Unanswered'
  BY <1>7 DEF Unanswered
<1>11. EntriesWhole' /\ Outcome'
  BY <1>1, <1>2 DEF Whole, EntriesWhole, Outcome
<1>. QED BY <1>2, <1>7, <1>9, <1>10, <1>11 DEF Whole

LEMMA WholeEnd ==
  ASSUME LookupInv, Whole, EndResolve
  PROVE  Whole'
<1>1. /\ stack # <<>> /\ Len(stack) = 1 /\ Top.todo = <<>> /\ stack' = <<>>
      /\ UNCHANGED <<fn, alts, memo>>
      /\ \/ paths' = paths \cup Top.acc /\ verdict' = verdict
         \/ paths' = {} /\ verdict' = "unresolved"
  BY DEF EndResolve, IsBase
<1>2. verdict = "open" /\ Base = Top
  BY <1>1, TopFacts DEF LookupInv, Base
<1>3. SeqSet(Top.todo) = {}
  BY <1>1 DEF SeqSet
<1>4. ASSUME NEW a \in TargetArms(fn), paths' = paths \cup Top.acc
      PROVE  ArmKept(memo, a)'
  <2>1. \/ a \in SeqSet(alts) \/ Accounted(memo, a, Target, paths)
        \/ Accounted(memo, a, Target, Top.acc)
    BY <1>2, <1>3 DEF Whole, ArmsWhole, ArmKept
  <2>2. Enlarges(paths, paths') /\ Enlarges(Top.acc, paths') /\ Extended(memo, memo)
    BY <1>4, JoinGrows, SameExtended
  <2>3. a \in SeqSet(alts) \/ Accounted(memo, a, Target, paths')
    BY <2>1, <2>2, AccountedMono
  <2>. QED BY <1>1, <2>3 DEF ArmKept
<1>5. ArmsWhole'
  BY <1>1, <1>4 DEF ArmsWhole
<1>6. stack' \in Seq(WholeFrame(fn, memo)) /\ Len(stack') = 0
  BY <1>1
<1>7. Unanswered'
  BY <1>6 DEF Unanswered
<1>8. EntriesWhole' /\ Outcome'
  BY <1>1, <1>2 DEF Whole, EntriesWhole, Outcome
<1>. QED BY <1>1, <1>5, <1>6, <1>7, <1>8 DEF Whole

LEMMA WholeInit == SiteInit => Whole
<1>. SUFFICES ASSUME SiteInit PROVE Whole
  OBVIOUS
<1>1. /\ fn \in Functions /\ alts = LocalAssignments(fn) /\ stack = <<>> /\ memo = <<>>
      /\ paths = {} /\ verdict = "open"
  BY DEF SiteInit
<1>2. DOMAIN memo = {} /\ stack \in Seq(WholeFrame(fn, memo)) /\ Len(stack) = 0
  BY <1>1
<1>3. SeqSet(alts) = TargetArms(fn)
  BY <1>1, AlternativesRead
<1>4. ArmsWhole
  BY <1>3 DEF ArmsWhole, ArmKept
<1>. QED BY <1>1, <1>2, <1>4 DEF Whole, EntriesWhole, Unanswered, Outcome

(* Every step keeps what is collected whole. *)
LEMMA WholeStep ==
  ASSUME LookupInv, ArmsLeft, Whole, [SiteNext]_siteVars
  PROVE  Whole'
<1>1. CASE ReadText
  <2>. DEFINE v == {{LitLeaf(E.stmt)}}
  <2>1. v \in Value /\ Item = <<"text">>
    BY <1>1, ReadTextStep DEF LookupInv
  <2>2. /\ Reading /\ stack' = <<Give(v)>> \o Below
        /\ UNCHANGED <<fn, alts, memo, paths, verdict>>
    BY <1>1 DEF ReadText
  <2>3. stack # <<>> /\ Top.todo # <<>>
    BY <2>2 DEF Reading
  <2>4. Top \in FrameType /\ E.stmt \in Nat
    BY <2>3, WholeTop, CurrentExpr DEF E
  <2>5. LitLeaf(E.stmt) \in Lits(v) /\ v # {}
    BY <2>4, LitValue
  <2>. HIDE DEF v
  <2>6. Give(v).got = Top.got \cup v /\ Give(v).todo = Top.todo
    BY <2>1, <2>4, GiveFacts
  <2>7. Enlarges(v, Give(v).got)
    BY <2>6, JoinGrows
  <2>8. LitLeaf(Head(Give(v).todo).stmt) \in Lits(Give(v).got)
    BY <2>5, <2>6, <2>7 DEF Enlarges, E
  <2>9. \A n : <<"text">> # <<"name", n>>
    OBVIOUS
  <2>10. ItemDone(memo, Give(v), Item)
    BY <2>1, <2>8, <2>9 DEF ItemDone
  <2>. QED BY <2>1, <2>2, <2>5, <2>10, WholeGiveStep
<1>2. CASE ReadStop
  <2>1. /\ Opaque(Item[2], Target) \in Value /\ Opaque(Item[2], Target) # {}
        /\ Holes(Opaque(Item[2], Target)) # {}
    BY <1>2, ReadStopStep DEF LookupInv
  <2>2. /\ Reading /\ stack' = <<Give(Opaque(Item[2], Target))>> \o Below
        /\ UNCHANGED <<fn, alts, memo, paths, verdict>>
    BY <1>2 DEF ReadStop
  <2>. QED BY <2>1, <2>2, WholeGiveStep
<1>3. ASSUME NEW n \in Name, Recall(n) PROVE Whole'
  <2>. DEFINE key == <<n, UseOf(n)>>
              v == memo[key]
  <2>1. /\ Reading /\ stack' = <<Give(v)>> \o Below /\ key \in DOMAIN memo
        /\ Item = <<"name", n>> /\ UNCHANGED <<fn, alts, memo, paths, verdict>>
    BY <1>3 DEF Recall, MemoKey
  <2>2. v \in Value /\ v # {}
    BY <2>1 DEF LookupInv, SiteType, Whole, EntriesWhole, WholeEntry
  <2>3. UseOf(n) = UseIn(Top, n)
    BY <2>1, Asked DEF LookupInv
  <2>4. stack # <<>> /\ Top \in FrameType
    BY <2>1, WholeTop DEF Reading
  <2>5. key = <<n, UseIn(Top, n)>>
    BY <2>3
  <2>6. Solid(memo, key) <=> Holes(v) = {}
    BY <2>1 DEF Solid
  <2>7. \A w : Covers(memo, w, key) <=> Solid(memo, key) /\ Lits(v) \subseteq Lits(w)
    BY DEF Covers
  <2>. HIDE DEF v, key
  <2>8. Give(v).got = Top.got \cup v /\ Give(v).todo = Top.todo /\ Continues(Give(v), Top)
    BY <2>2, <2>4, GiveFacts
  <2>9. UseIn(Give(v), n) = UseIn(Top, n)
    BY <2>8 DEF Continues, UseIn, SelfOf
  <2>10. Enlarges(v, Give(v).got)
    BY <2>8, JoinGrows
  <2>11. Holes(v) = {} => Covers(memo, Give(v).got, <<n, UseIn(Give(v), n)>>)
    BY <2>5, <2>6, <2>7, <2>9, <2>10 DEF Enlarges
  <2>12. \A m : <<"name", n>> # <<"text">> /\ (<<"name", n>> = <<"name", m>> => n = m)
    OBVIOUS
  <2>13. Holes(v) # {} \/ ItemDone(memo, Give(v), Item)
    BY <2>1, <2>11, <2>12 DEF ItemDone
  <2>. QED BY <2>1, <2>2, <2>13, WholeGiveStep
<1>4. ASSUME NEW n \in Name, Cycle(n) PROVE Whole'
  <2>1. /\ Reading /\ stack' = <<Give(Opaque("cycle", n))>> \o Below
        /\ UNCHANGED <<fn, alts, memo, paths, verdict>>
    BY <1>4 DEF Cycle, Asking
  <2>2. /\ Opaque("cycle", n) \in Value /\ Opaque("cycle", n) # {}
        /\ Holes(Opaque("cycle", n)) # {}
    BY CycleStep
  <2>. QED BY <2>1, <2>2, WholeGiveStep
<1>5. ASSUME NEW n \in Name, Stopped(n) PROVE Whole'
  BY <1>5, WholeStopped
<1>6. ASSUME NEW n \in Name, LookUp(n) PROVE Whole'
  BY <1>6, WholeLookUp
<1>7. CASE TooDeep
  <2>. DEFINE v == Opaque("depth", Top.name)
  <2>1. /\ stack # <<>> /\ Top.todo # <<>> /\ v \in Value /\ v # {} /\ Holes(v) # {}
        /\ stack' = <<NextExpr(v)>> \o Below
        /\ fn' = fn /\ alts' = alts /\ memo' = memo /\ paths' = paths /\ verdict' = verdict
    BY <1>7, TooDeepStep
  <2>. HIDE DEF v
  <2>2. Accounted(memo, E, Asker(fn, Question(Top)), v)
    BY <2>1 DEF Accounted
  <2>. QED BY <2>1, <2>2, WholeNextStep
<1>8. CASE FinishExpr
  BY <1>8, FinishExprStep, FinishSettles, WholeNextStep
<1>9. CASE Return
  BY <1>9, WholeReturn
<1>10. CASE Resolve
  BY <1>10, WholeResolve
<1>11. CASE EndResolve
  BY <1>11, WholeEnd
<1>12. CASE Finish
  <2>1. /\ verdict = "open" /\ stack = <<>> /\ alts = <<>>
        /\ verdict' = "ok" => paths # {}
        /\ UNCHANGED <<fn, alts, stack, memo, paths>>
    BY <1>12 DEF Finish
  <2>2. \A a \in TargetArms(fn) : ArmKept(memo, a)'
    BY <2>1 DEF Whole, ArmsWhole, ArmKept, Base
  <2>. QED BY <2>1, <2>2 DEF Whole, EntriesWhole, Unanswered, ArmsWhole, Outcome
<1>13. CASE UNCHANGED siteVars
  BY <1>13 DEF siteVars, Whole, EntriesWhole, Unanswered, ArmsWhole, ArmKept, Base, Outcome
<1>. QED BY <1>1, <1>2, <1>3, <1>4, <1>5, <1>6, <1>7, <1>8, <1>9, <1>10, <1>11, <1>12, <1>13
     DEF SiteNext

(* What the engine found, where it says that nothing is missing. *)
Found(f, m, p, done) ==
  [q \in Questions(f) |->
     IF Solid(m, q) THEN Lits(m[q])
     ELSE IF done /\ q = <<Target, End(f)>> THEN Lits(p) ELSE LitSet]

LEMMA ValueLits ==
  ASSUME NEW v \in Value
  PROVE  Lits(v) \subseteq LitSet
<1>. SUFFICES ASSUME NEW l \in Lits(v) PROVE l \in LitSet
  OBVIOUS
<1>1. l \in Leaf /\ ~ IsHole(l)
  BY DEF Lits, Leaves, Value
<1>2. l \in {"lit"} \X Nat
  BY <1>1 DEF Leaf, IsHole
<1>3. l = <<"lit", l[2]>> /\ l[2] \in Nat
  BY <1>2
<1>. QED BY <1>3 DEF LitSet, LitLeaf

(* The arms of a binding say together what the binding says. *)
LEMMA ArmsSay ==
  ASSUME NEW e \in Expression, NEW n, NEW m, NEW v,
         \A a \in SeqSet(Arms(e)) : Done(m, a, n, v)
  PROVE  Done(m, e, n, v)
<1>1. /\ \A a \in SeqSet(Arms(e)) :
           a.stmt = e.stmt /\ a.start = e.start /\ a.at = e.at /\ a.op = e.op
      /\ \A it \in SeqSet(e.items) : \E a \in SeqSet(Arms(e)) : it \in SeqSet(a.items)
      /\ \E a \in SeqSet(Arms(e)) : TRUE
  BY ArmShape
<1>2. OwnLits(e) \subseteq Lits(v)
  <2>1. CASE e.op = "template"
    <3>1. PICK a \in SeqSet(Arms(e)) : TRUE
      BY <1>1
    <3>2. OwnLits(a) = {LitLeaf(e.stmt)} /\ OwnLits(e) = {LitLeaf(e.stmt)}
      BY <1>1, <2>1 DEF OwnLits
    <3>. QED BY <3>2 DEF Done
  <2>2. CASE <<"text">> \in SeqSet(e.items)
    <3>1. PICK a \in SeqSet(Arms(e)) : <<"text">> \in SeqSet(a.items)
      BY <1>1, <2>2
    <3>2. OwnLits(a) = {LitLeaf(e.stmt)} /\ OwnLits(e) = {LitLeaf(e.stmt)}
      BY <1>1, <2>2, <3>1 DEF OwnLits, SeqSet
    <3>. QED BY <3>2 DEF Done
  <2>3. CASE e.op # "template" /\ <<"text">> \notin SeqSet(e.items)
    BY <2>3 DEF OwnLits, SeqSet
  <2>. QED BY <2>1, <2>2, <2>3
<1>3. ASSUME NEW r \in Asks(e, n) PROVE Covers(m, v, r)
  <2>1. PICK k \in Name : <<"name", k>> \in SeqSet(e.items)
                          /\ r = <<k, IF k = n THEN e.start ELSE e.at>>
    BY DEF Asks, SeqSet
  <2>2. PICK a \in SeqSet(Arms(e)) : <<"name", k>> \in SeqSet(a.items)
    BY <1>1, <2>1
  <2>3. r \in Asks(a, n)
    BY <1>1, <2>1, <2>2 DEF Asks, SeqSet
  <2>. QED BY <2>3 DEF Done
<1>. QED BY <1>2, <1>3 DEF Done

(* Candidates that are all done make a question's assignment closed. *)
LEMMA DoneCloses ==
  ASSUME NEW f \in Functions, NEW q \in Questions(f), NEW m, NEW v,
         \A e \in SeqSet(Candidates(f, q[1], q[2])) : Done(m, e, Asker(f, q), v)
  PROVE  /\ OwnOf(f)[q] \subseteq Lits(v)
         /\ \A r \in AskedBy(f, q) : Covers(m, v, r)
<1>1. OwnOf(f)[q] = UNION {OwnLits(e) : e \in SeqSet(Candidates(f, q[1], q[2]))}
  BY DEF OwnOf
<1>2. ASSUME NEW r \in AskedBy(f, q) PROVE Covers(m, v, r)
  <2>1. PICK e \in SeqSet(Candidates(f, q[1], q[2])) : r \in Asks(e, Asker(f, q))
    BY DEF AskedBy, Asker
  <2>. QED BY <2>1 DEF Done
<1>. QED BY <1>1, <1>2 DEF Done

LEMMA FoundClosed ==
  ASSUME LookupInv, Whole, NEW done \in BOOLEAN,
         done => verdict = "ok" /\ Holes(paths) = {}
  PROVE  Closed(fn, Found(fn, memo, paths, done))
<1>. DEFINE c == Found(fn, memo, paths, done)
            T == <<Target, End(fn)>>
<1>0. fn \in Functions /\ (\A q \in DOMAIN memo : memo[q] \in Value) /\ paths \in Value
  BY DEF LookupInv, SiteType
<1>1. \A q \in Questions(fn) :
        c[q] = IF Solid(memo, q) THEN Lits(memo[q])
               ELSE IF done /\ q = T THEN Lits(paths) ELSE LitSet
  BY DEF Found
<1>2. \A q \in Questions(fn) : c[q] \subseteq LitSet
  BY <1>0, <1>1, ValueLits DEF Solid
<1>3. \A q : AskedBy(fn, q) \subseteq Questions(fn)
  BY <1>0, AskedIsQuestion
<1>. HIDE DEF c
<1>4. ASSUME NEW q \in Questions(fn), NEW v, c[q] = Lits(v),
             \A e \in SeqSet(Candidates(fn, q[1], q[2])) : Done(memo, e, Asker(fn, q), v)
      PROVE  OwnOf(fn)[q] \subseteq c[q] /\ \A r \in AskedBy(fn, q) : c[r] \subseteq c[q]
  <2>1. OwnOf(fn)[q] \subseteq Lits(v) /\ \A r \in AskedBy(fn, q) : Covers(memo, v, r)
    BY <1>0, <1>4, DoneCloses
  <2>2. ASSUME NEW r \in AskedBy(fn, q) PROVE c[r] \subseteq Lits(v)
    <3>1. Covers(memo, v, r) /\ r \in Questions(fn)
      BY <1>3, <2>1
    <3>. QED BY <1>1, <3>1 DEF Covers
  <2>. QED BY <1>4, <2>1, <2>2
<1>. SUFFICES ASSUME NEW q \in Questions(fn)
              PROVE  OwnOf(fn)[q] \subseteq c[q] /\ \A r \in AskedBy(fn, q) : c[r] \subseteq c[q]
  BY DEF Closed, c
<1>5. CASE Solid(memo, q)
  <2>1. \A e \in SeqSet(Candidates(fn, q[1], q[2])) : Done(memo, e, Asker(fn, q), memo[q])
    BY <1>5 DEF Solid, Whole, EntriesWhole, WholeEntry, Accounted
  <2>2. c[q] = Lits(memo[q])
    BY <1>1, <1>5
  <2>. QED BY <1>4, <2>1, <2>2
<1>6. CASE ~ Solid(memo, q) /\ done /\ q = T
  <2>1. /\ verdict = "ok" /\ Holes(paths) = {} /\ paths # {} /\ alts = <<>> /\ stack = <<>>
        /\ TargetArms(fn) # {}
    BY <1>6 DEF Whole, Outcome, LookupInv, Framed
  <2>2. ASSUME NEW a \in TargetArms(fn) PROVE Done(memo, a, Target, paths)
    <3>1. ArmKept(memo, a)
      BY <2>1 DEF Whole, ArmsWhole
    <3>2. SeqSet(alts) = {}
      BY <2>1 DEF SeqSet
    <3>. QED BY <2>1, <3>1, <3>2 DEF ArmKept, Accounted
  <2>3. IsBound(fn, Target, End(fn))
    <3>1. PICK b \in SeqSet(BindingsIn(fn, Target, End(fn))) : TRUE
      BY <1>0, <2>1, ArmOf
    <3>2. BindingsIn(fn, Target, End(fn)) \in Seq(ExprOf(fn))
      BY <1>0, BindingsRead
    <3>. QED BY <3>1, <3>2, EmptySeqSet DEF IsBound
  <2>4. q[1] = Target /\ q[2] = End(fn) /\ Asker(fn, q) = Target
    BY <1>6, <2>3 DEF Asker
  <2>5. Candidates(fn, q[1], q[2]) = BindingsIn(fn, Target, End(fn))
    BY <1>0, <2>3, <2>4, CandidatesRead
  <2>6. ASSUME NEW e \in SeqSet(BindingsIn(fn, Target, End(fn))) PROVE Done(memo, e, Target, paths)
    <3>1. e \in Expression
      BY <1>0, BindingOf
    <3>2. SeqSet(Arms(e)) \subseteq TargetArms(fn)
      BY DEF TargetArms
    <3>. QED BY <2>2, <3>1, <3>2, ArmsSay
  <2>7. c[q] = Lits(paths)
    BY <1>1, <1>6
  <2>. QED BY <1>4, <2>4, <2>5, <2>6, <2>7
<1>7. CASE ~ Solid(memo, q) /\ ~ (done /\ q = T)
  <2>1. c[q] = LitSet
    BY <1>1, <1>7
  <2>2. OwnOf(fn)[q] \subseteq LitSet
    BY <1>0, OwnShape
  <2>. QED BY <1>2, <1>3, <2>1, <2>2
<1>. QED BY <1>5, <1>6, <1>7

(* What is whole has lost nothing. *)
LEMMA WholeLosesNothing ==
  ASSUME LookupInv, Truthful, Whole
  PROVE  NoSilentLoss
<1>0. fn \in Functions
  BY DEF LookupInv, SiteType
<1>1. ASSUME NEW q \in DOMAIN memo
      PROVE  /\ memo[q] # {}
             /\ Holes(memo[q]) # {} \/ Meaning(fn)[q] \subseteq Lits(memo[q])
  <2>1. memo[q] # {} /\ q \in Questions(fn)
    BY DEF Whole, EntriesWhole, WholeEntry, Truthful
  <2>2. ASSUME Holes(memo[q]) = {} PROVE Meaning(fn)[q] \subseteq Lits(memo[q])
    <3>1. Closed(fn, Found(fn, memo, paths, FALSE))
      BY FoundClosed
    <3>2. Meaning(fn)[q] \subseteq Found(fn, memo, paths, FALSE)[q]
      BY <1>0, <2>1, <3>1, MeaningLeast
    <3>3. Found(fn, memo, paths, FALSE)[q] = Lits(memo[q])
      BY <2>1, <2>2 DEF Found, Solid
    <3>. QED BY <3>2, <3>3
  <2>. QED BY <2>1, <2>2
<1>2. ASSUME verdict = "ok"
      PROVE  /\ paths # {}
             /\ Holes(paths) # {} \/ Meaning(fn)[<<Target, End(fn)>>] \subseteq Lits(paths)
  <2>. DEFINE T == <<Target, End(fn)>>
  <2>1. paths # {}
    BY <1>2 DEF Whole, Outcome
  <2>2. T \in Questions(fn) /\ T[2] = End(fn) /\ End(fn) \in Nat
    <3>1. End(fn) \in Nat /\ Target \in Name
      BY <1>0, TextShape DEF End, Start, Name
    <3>. QED BY <3>1 DEF Questions, Uses
  <2>. HIDE DEF T
  <2>3. T \notin DOMAIN memo
    BY <2>2 DEF Whole, EntriesWhole, WholeEntry
  <2>4. ASSUME Holes(paths) = {} PROVE Meaning(fn)[T] \subseteq Lits(paths)
    <3>1. Closed(fn, Found(fn, memo, paths, TRUE))
      BY <1>2, <2>4, FoundClosed
    <3>2. Meaning(fn)[T] \subseteq Found(fn, memo, paths, TRUE)[T]
      BY <1>0, <2>2, <3>1, MeaningLeast
    <3>3. Found(fn, memo, paths, TRUE)[T] = Lits(paths)
      BY <2>2, <2>3 DEF Found, Solid, T
    <3>. QED BY <3>2, <3>3
  <2>. QED BY <2>1, <2>4 DEF T
<1>. QED BY <1>1, <1>2 DEF NoSilentLoss

(* Nothing is lost in silence: with a function in which no statement assigns
   from the parameter a name that an argument reads, a memo entry and the set
   of paths hold every literal the text can put there or an opaque leaf, and
   are never empty (capUnion, the memo and the cycle guard together). *)
THEOREM NothingLostInSilence == SiteSpec /\ Apart(fn) => []NoSilentLoss
<1>. DEFINE Inv == LookupInv /\ ArmsLeft /\ Truthful /\ Whole
<1>1. SiteInit /\ Apart(fn) => Inv
  BY LookupInvInit, TruthfulInit, WholeInit
<1>2. Inv /\ [SiteNext]_siteVars => Inv'
  BY LookupInvStep, TruthfulStep, WholeStep
<1>3. Inv => NoSilentLoss
  BY WholeLosesNothing
<1>. QED BY <1>1, <1>2, <1>3, PTL DEF SiteSpec

=============================================================================
