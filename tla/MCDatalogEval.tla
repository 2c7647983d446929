---------------------------- MODULE MCDatalogEval ----------------------------
(* Instances of DatalogEval for TLC: unary relations over 1..N, given by rule
   schemes whose instances are computed here. *)
EXTENDS DatalogEval

CONSTANT N

V == 1..N
MCRel == {"e", "p", "q", "r"}
MCAtom == MCRel \X V
MCRelOf == [a \in MCAtom |-> a[1]]
MCFact == ({"e"} \X V) \cup {<<"p", 2>>}

Lit(rel) == [rel |-> rel, neg |-> FALSE]
Not(rel) == [rel |-> rel, neg |-> TRUE]

(* An instance of a plain rule: the head atom and the body's atoms. *)
Inst(head, at) == [at |-> at, group |-> 0, in |-> 0, out |-> [n \in {0} |-> head]]

(* An instance of an aggregate rule without group columns. *)
AggInst(rel, in, at) ==
  [at |-> at, group |-> 0, in |-> in, out |-> [n \in V |-> <<rel, n>>]]

R(name, head, agg, body, insts) ==
  [name |-> name, head |-> head, agg |-> agg, body |-> body, insts |-> insts]

Copy(name, head, from) ==
  R(name, head, "none", <<Lit(from)>>, {Inst(<<head, x>>, <<<<from, x>>>>) : x \in V})

Shift(name, head, from) ==
  R(name, head, "none", <<Lit(from)>>,
    {Inst(<<head, x + 1>>, <<<<from, x>>>>) : x \in 1..(N - 1)})

Minus(name, head, from, less) ==
  R(name, head, "none", <<Lit(from), Not(less)>>,
    {Inst(<<head, x>>, <<<<from, x>>, <<less, x>>>>) : x \in V})

Join(name, head, a, b) ==
  R(name, head, "none", <<Lit(a), Lit(b)>>,
    {Inst(<<head, y>>, <<<<a, x>>, <<b, y>>>>) : x \in {1, N}, y \in V})

Fold(name, fn, head, from) ==
  R(name, head, fn, <<Lit(from)>>,
    {AggInst(head, x, <<<<from, x>>>>) : x \in V})

MCClauses ==
  [p_e |-> Copy("f1", "p", "e"), p_next |-> Shift("f1", "p", "p"),
   p_q |-> Copy("f2", "p", "q"), q_pq |-> Join("f1", "q", "p", "q"),
   q_next |-> Shift("f1", "q", "p"), q_e_not_p |-> Minus("f1", "q", "e", "p"),
   r_p_not_q |-> Minus("f1", "r", "p", "q"), q_min_p |-> Fold("f1", "min", "q", "p"),
   r_count_p |-> Fold("f1", "count", "r", "p"), r_max_q |-> Fold("f2", "max", "r", "q")]

MCRule == DOMAIN MCClauses

(* Every program of up to three rules, and larger ones with a component of two
   relations, negation or aggregation over recursion, and three strata. *)
MCPrograms ==
  {S \in SUBSET MCRule : Cardinality(S) \in 1..3} \cup
  {{"p_e", "p_next", "r_p_not_q"} \cup S :
     S \in {{"q_pq", "q_next"}, {"q_min_p"}, {"q_e_not_p"}}} \cup
  {{"p_e", "p_q", "q_next"} \cup S :
     S \in {{"r_p_not_q"}, {"q_pq", "r_count_p"}, {"r_max_q", "r_count_p"}}}
=============================================================================
