----------------------------- MODULE ValueGraph -----------------------------
(***************************************************************************)
(* The symbolic value engine (internal/valuegraph) as the local-URL        *)
(* resolver drives it (internal/jsast/localurl.go): every assignment of    *)
(* the URL's name inside one function is resolved on its own, through one  *)
(* engine whose memo outlives each Resolve.  The recursion                 *)
(* resolveNode - resolveSymbol - lookup is an explicit stack, one frame a  *)
(* lookup; a frame's candidates are read in source order.                  *)
(*                                                                         *)
(* The function's text is a sequence of statements.  Statement i is        *)
(* [kind, name, op, items]: an assignment of a name ("bind") or a call of  *)
(* the function itself ("call"), whose argument fills the parameter.  An   *)
(* expression is a choice of items (a ternary; one item is the bare        *)
(* expression) or a template holding one item and literal text.  An item   *)
(* is <<"text">> (a literal written there), <<"name", n>> or               *)
(* <<"stop", reason>> (a node no rule can read, an argument left out).     *)
(* The text of literals and the order inside a concatenation are left out: *)
(* a value is a set of alternatives, an alternative the set of leaves that *)
(* it is joined from.                                                      *)
(***************************************************************************)
EXTENDS Naturals, Sequences, FiniteSets

CONSTANTS
    Functions,      \* the functions that are analysed
    Target,         \* the name the URL expression reads
    Param,          \* the function's parameter
    MaxDepth,       \* Options.MaxDepth
    MaxUnionWidth   \* Options.MaxUnionWidth, and MaxLocalURLBranches

Name == {Target, Param} \cup UNION {{f[i].name : i \in DOMAIN f} : f \in Functions}

Items == {<<"text">>} \cup ({"name"} \X Name) \cup ({"stop"} \X STRING)

Statement == [kind : {"bind", "call"}, name : Name, op : {"choice", "template"},
              items : Seq(Items) \ {<<>>}]

ASSUME WidthAssumption == MaxDepth \in Nat /\ MaxUnionWidth \in Nat \ {0}

\* A function has finitely many statements and names, and no name is empty.
ASSUME TextAssumption ==
    /\ \A f \in Functions : f \in Seq(Statement)
    /\ IsFiniteSet(Name)
    /\ "" \notin Name

VARIABLES
    fn,         \* the function under analysis
    alts,       \* localurl.go: the alternatives still to resolve
    stack,      \* the lookups in progress, the innermost first
    memo,       \* Engine.memo: a question <<name, use>> to its value
    paths,      \* localurl.go: out
    verdict     \* "open", "ok", or "unresolved"

siteVars == <<fn, alts, stack, memo, paths, verdict>>

-----------------------------------------------------------------------------
(* The text: byte positions, bindings and calls. *)

Start(i) == 2 * i

\* The expression of statement i.  A name that is the whole expression starts
\* where the expression does, one inside a larger expression after it.
Bare(s) == s.op = "choice" /\ Len(s.items) = 1

Expr(f, i) ==
    [stmt |-> i, start |-> Start(i), op |-> f[i].op, items |-> f[i].items,
     at |-> IF Bare(f[i]) THEN Start(i) ELSE Start(i) + 1]

End(f) == Start(Len(f) + 1)

\* Exprs(f, S): the expressions of the statements in S, in source order.
Exprs(f, S) ==
    LET F[k \in 0..Len(f)] ==
            IF k = 0 THEN <<>>
            ELSE IF k \in S THEN Append(F[k - 1], Expr(f, k)) ELSE F[k - 1]
    IN  F[Len(f)]

\* The bindings of name that start before the use, in source order.
BindingsIn(f, name, use) ==
    Exprs(f, {i \in DOMAIN f : /\ f[i].kind = "bind" /\ f[i].name = name
                               /\ Start(i) < use})

CallsTo(f) == Exprs(f, {i \in DOMAIN f : f[i].kind = "call"})

\* localURLExprAlternatives: a ternary is resolved arm by arm.
Arms(e) == IF e.op = "choice"
           THEN [j \in 1..Len(e.items) |-> [e EXCEPT !.items = <<e.items[j]>>]]
           ELSE <<e>>

Flatten(ss) ==
    LET F[k \in 0..Len(ss)] == IF k = 0 THEN <<>> ELSE F[k - 1] \o ss[k]
    IN  F[Len(ss)]

LocalAssignments(f) ==
    LET es == BindingsIn(f, Target, End(f))
    IN  Flatten([j \in 1..Len(es) |-> Arms(es[j])])

-----------------------------------------------------------------------------
(* Values: sets of alternatives, each a set of leaves. *)

LitLeaf(i) == <<"lit", i>>
Opaque(reason, name) == {{<<"opaque", reason, name>>}}
IsHole(leaf) == leaf[1] = "opaque"

Leaves(v) == UNION v
Holes(v) == {leaf \in Leaves(v) : IsHole(leaf)}
Lits(v) == {leaf \in Leaves(v) : ~ IsHole(leaf)}

\* Mutant: the alternatives past the cap are cut off, the rest is kept.
CapUnion_Cut(v, name) ==
    IF Cardinality(v) > MaxUnionWidth
    THEN CHOOSE w \in SUBSET v : Cardinality(w) = MaxUnionWidth
    ELSE v

CapUnion(v, name) ==
    IF Cardinality(v) > MaxUnionWidth THEN Opaque("width", name) ELSE v

\* The value of an expression whose items gave the alternatives got: Concat
\* joins them with the template's own text, Union keeps them apart.
Combine(e, got) ==
    IF e.op = "template" THEN {Leaves(got) \cup {LitLeaf(e.stmt)}}
                         ELSE CapUnion(got, "choice")

-----------------------------------------------------------------------------
(* The stack. *)

\* A frame: the question, the expressions still to read and where in the first
\* one the reader is, the alternatives of the current expression (got) and of
\* those before it (acc).  inherits: the expressions are call arguments (or the
\* query's own), read under the ambient self of the frame below.
Frame(name, use, depth, todo, inherits, self) ==
    [name |-> name, use |-> use, depth |-> depth, todo |-> todo, k |-> 1,
     got |-> {}, acc |-> {}, inherits |-> inherits, self |-> self]

Top == Head(stack)
Below == Tail(stack)
IsBase == Len(stack) = 1
E == Head(Top.todo)
Item == E.items[Top.k]

Visiting == {stack[j].name : j \in 1..(Len(stack) - 1)}

\* selfName / selfAsOf while the current expression is read.
Self == IF Top.inherits THEN Top.self ELSE <<Top.name, E.start>>

\* Mutant: a self-reference is answered at its own position.
UseOf_Plain(name) == E.at

UseOf(name) == IF Self[1] = name THEN Self[2] ELSE E.at

\* Mutant: the key leaves the use offset out.
MemoKey_NoUse(name, use) == <<name, 0>>

MemoKey(name, use) == <<name, use>>

Reading ==
    /\ stack # <<>> /\ Top.todo # <<>> /\ Top.depth <= MaxDepth
    /\ Top.k <= Len(E.items)

Give(v) == [Top EXCEPT !.got = @ \cup v, !.k = @ + 1]

\* resolveSymbol, up to the lookup: the name under the reader, not memoized.
Asking(name) ==
    /\ Reading /\ Item = <<"name", name>>
    /\ MemoKey(name, UseOf(name)) \notin DOMAIN memo

Remember(key, v) ==
    memo' = [q \in DOMAIN memo \cup {key} |-> IF q = key THEN v ELSE memo[q]]

\* Not visiting, or the candidate's own self-reference.
Enterable(name) == name \notin Visiting \/ Self[1] = name

-----------------------------------------------------------------------------
(* resolveNode and resolveSymbol *)

ReadText ==
    /\ Reading /\ Item[1] = "text"
    /\ stack' = <<Give({{LitLeaf(E.stmt)}})>> \o Below
    /\ UNCHANGED <<fn, alts, memo, paths, verdict>>

ReadStop ==
    /\ Reading /\ Item[1] = "stop"
    /\ stack' = <<Give(Opaque(Item[2], Target))>> \o Below
    /\ UNCHANGED <<fn, alts, memo, paths, verdict>>

Recall(name) ==
    /\ Reading /\ Item = <<"name", name>>
    /\ MemoKey(name, UseOf(name)) \in DOMAIN memo
    /\ stack' = <<Give(memo[MemoKey(name, UseOf(name))])>> \o Below
    /\ UNCHANGED <<fn, alts, memo, paths, verdict>>

\* An alias cycle: the answer is opaque and is not memoized.
Cycle(name) ==
    /\ Asking(name) /\ ~ Enterable(name)
    /\ stack' = <<Give(Opaque("cycle", name))>> \o Below
    /\ UNCHANGED <<fn, alts, memo, paths, verdict>>

\* What lookup reads when it finds something: the bindings before the use, or
\* the arguments of the calls when the name is the unbound parameter.
Candidates(f, name, use) ==
    LET bound == BindingsIn(f, name, use)
    IN  IF bound # <<>> THEN bound
        ELSE IF name = Param THEN CallsTo(f) ELSE <<>>

IsBound(f, name, use) == BindingsIn(f, name, use) # <<>>

\* lookup ends at once: nothing binds the name, or too many bindings do.
Stopped(name) ==
    LET use == UseOf(name)
        cs == Candidates(fn, name, use)
        v == IF cs # <<>> THEN Opaque("width", name)
             ELSE Opaque(IF name = Param THEN "param" ELSE "no_binding", name)
    IN  /\ Asking(name) /\ Enterable(name)
        /\ cs = <<>> \/ (IsBound(fn, name, use) /\ Len(cs) > MaxUnionWidth)
        /\ Remember(MemoKey(name, use), v)
        /\ stack' = <<Give(v)>> \o Below
        /\ UNCHANGED <<fn, alts, paths, verdict>>

\* The hop is what MaxDepth counts.
Hop == Top.depth + 1

LookUp(name) ==
    LET use == UseOf(name)
        cs == Candidates(fn, name, use)
    IN  /\ Asking(name) /\ Enterable(name)
        /\ cs # <<>> /\ (IsBound(fn, name, use) => Len(cs) <= MaxUnionWidth)
        /\ stack' = <<Frame(name, use, Hop, cs,
                            ~ IsBound(fn, name, use), Self)>> \o stack
        /\ UNCHANGED <<fn, alts, memo, paths, verdict>>

NextExpr(v) ==
    [Top EXCEPT !.todo = Tail(@), !.k = 1, !.got = {}, !.acc = @ \cup v]

TooDeep ==
    /\ stack # <<>> /\ Top.todo # <<>> /\ Top.depth > MaxDepth
    /\ stack' = <<NextExpr(Opaque("depth", Top.name))>> \o Below
    /\ UNCHANGED <<fn, alts, memo, paths, verdict>>

FinishExpr ==
    /\ stack # <<>> /\ Top.todo # <<>> /\ Top.depth <= MaxDepth
    /\ Top.k > Len(E.items)
    /\ stack' = <<NextExpr(Combine(E, Top.got))>> \o Below
    /\ UNCHANGED <<fn, alts, memo, paths, verdict>>

\* lookup returns: the union is capped, memoized and handed to the reader.
Return ==
    LET v == CapUnion(Top.acc, Top.name)
        reader == stack[2]
    IN  /\ Len(stack) > 1 /\ Top.todo = <<>>
        /\ Remember(MemoKey(Top.name, Top.use), v)
        /\ stack' = <<[reader EXCEPT !.got = @ \cup v, !.k = @ + 1]>>
                    \o Tail(Below)
        /\ UNCHANGED <<fn, alts, paths, verdict>>

-----------------------------------------------------------------------------
(* ResolveLocalURLBinding *)

SiteInit ==
    /\ fn \in Functions
    /\ alts = LocalAssignments(fn)
    /\ stack = <<>>
    /\ memo = <<>>
    /\ paths = {}
    /\ verdict = "open"

\* Resolve on the next assignment's arm, with a context of its own.
Resolve ==
    /\ verdict = "open" /\ stack = <<>> /\ alts # <<>>
    /\ stack' = <<Frame(Target, End(fn), 0, <<Head(alts)>>, TRUE,
                        <<Target, Head(alts).start>>)>>
    /\ alts' = Tail(alts)
    /\ UNCHANGED <<fn, memo, paths, verdict>>

\* A request path has literal text.
IsLocalURLPath(a) == \E leaf \in a : ~ IsHole(leaf)

\* One unreadable alternative gives the whole site up.
EndResolve ==
    LET v == Top.acc
        good == \A a \in v : IsLocalURLPath(a)
        all == paths \cup v
    IN  /\ stack # <<>> /\ IsBase /\ Top.todo = <<>>
        /\ stack' = <<>>
        /\ paths' = IF good THEN all ELSE {}
        /\ verdict' = IF good THEN verdict ELSE "unresolved"
        /\ UNCHANGED <<fn, alts, memo>>

Finish ==
    /\ verdict = "open" /\ stack = <<>> /\ alts = <<>>
    /\ verdict' = IF paths # {} /\ Cardinality(paths) <= MaxUnionWidth
                  THEN "ok" ELSE "unresolved"
    /\ UNCHANGED <<fn, alts, stack, memo, paths>>

SiteNext ==
    \/ ReadText \/ ReadStop
    \/ \E name \in Name : Recall(name) \/ Cycle(name) \/ Stopped(name) \/ LookUp(name)
    \/ TooDeep \/ FinishExpr \/ Return
    \/ Resolve \/ EndResolve \/ Finish

SiteSpec == SiteInit /\ [][SiteNext]_siteVars

-----------------------------------------------------------------------------
(* What the text means, with no cap, no memo and no cycle guard. *)

Uses(f) == 0..End(f)
Questions(f) == Name \X Uses(f)

\* The questions an expression asks when it is read as a candidate of name.
Asks(e, name) ==
    {<<m, IF m = name THEN e.start ELSE e.at>> :
        m \in {n \in Name : <<"name", n>> \in {e.items[k] : k \in 1..Len(e.items)}}}

OwnLits(e) ==
    IF e.op = "template" \/ <<"text">> \in {e.items[k] : k \in 1..Len(e.items)}
    THEN {LitLeaf(e.stmt)} ELSE {}

SeqSet(s) == {s[k] : k \in 1..Len(s)}

\* A call's argument is read at its own position, whoever asks.
AskedBy(f, q) ==
    LET es == SeqSet(Candidates(f, q[1], q[2]))
    IN  UNION {Asks(e, IF IsBound(f, q[1], q[2]) THEN q[1] ELSE "") : e \in es}

\* The literals each question can take.
Meaning(f) ==
    LET lits == [q \in Questions(f) |->
                    UNION {OwnLits(e) : e \in SeqSet(Candidates(f, q[1], q[2]))}]
        asked == [q \in Questions(f) |-> AskedBy(f, q)]
        R[k \in 0..(Cardinality(Name) * Len(f) + 1)] ==
            IF k = 0 THEN lits
            ELSE [q \in Questions(f) |->
                    R[k - 1][q] \cup UNION {R[k - 1][r] : r \in asked[q]}]
    IN  R[Cardinality(Name) * Len(f) + 1]

-----------------------------------------------------------------------------
(* Properties *)

Reads(s, n) == \E k \in 1..Len(s.items) : s.items[k] = <<"name", n>>

\* No statement assigns from the parameter a name that an argument reads.
Apart(f) ==
    \A i, j \in DOMAIN f :
        f[i].kind = "bind" /\ Reads(f[i], Param) /\ f[j].kind = "call"
        => ~ Reads(f[j], f[i].name)

\* When the site has its verdict no memo entry, and no set of paths, is half a
\* set presented as a whole one (engine.go, capUnion): it holds every literal
\* the text can put there, or an opaque leaf that says something is missing,
\* and it is never empty.
NoSilentLoss ==
    verdict # "open" =>
        LET means == Meaning(fn)
        IN  /\ \A q \in DOMAIN memo :
                  /\ memo[q] # {}
                  /\ Holes(memo[q]) # {} \/ means[q] \subseteq Lits(memo[q])
            /\ verdict = "ok" =>
                  /\ paths # {}
                  /\ Holes(paths) # {} \/ means[<<Target, End(fn)>>] \subseteq Lits(paths)

\* Nothing is invented: a literal in a memo entry or a path is one the text
\* can put there, whatever was asked of the engine before.
NothingInvented ==
    verdict # "open" =>
        LET means == Meaning(fn)
        IN  /\ \A q \in DOMAIN memo : Lits(memo[q]) \subseteq means[q]
            /\ Lits(paths) \subseteq means[<<Target, End(fn)>>]

\* The lookups in progress never ask one question twice: of two lookups of the
\* same name the inner one asks about an earlier position (resolveSymbol: "a
\* strictly narrower and always-answerable question, never the same one twice").
SelfNarrows ==
    \A i, j \in 1..Len(stack) :
        i < j /\ stack[i].name = stack[j].name => stack[i].use < stack[j].use

=============================================================================
