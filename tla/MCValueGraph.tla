---------------------------- MODULE MCValueGraph ----------------------------
EXTENDS ValueGraph

CONSTANTS
    Statements, \* the number of statements of a function
    Longer,     \* the same for functions without calls and templates
    Aliased     \* may an argument read the name its parameter is assigned to?

\* A read of a name, alone, in a ternary beside a literal, in a template.
Shapes == {<<"choice", <<"name">>>>, <<"choice", <<"text", "name">>>>,
           <<"template", <<"name">>>>}

ItemOf(tag, n) == IF tag = "name" THEN <<"name", n>> ELSE <<"text">>

Binds ==
    {[kind |-> "bind", name |-> n, op |-> s[1],
      items |-> [k \in 1..Len(s[2]) |-> ItemOf(s[2][k], m)]] :
        n \in {"x", "y", "p"}, m \in {"x", "y", "p"}, s \in Shapes}
    \cup {[kind |-> "bind", name |-> n, op |-> "choice", items |-> <<<<"text">>>>] :
        n \in {"x", "y", "p"}}
    \cup {[kind |-> "bind", name |-> "x", op |-> "choice",
           items |-> <<<<"stop", "member">>>>]}

Calls ==
    {[kind |-> "call", name |-> "p", op |-> "choice", items |-> <<i>>] :
        i \in {<<"text">>, <<"name", "x">>, <<"name", "y">>, <<"name", "p">>,
               <<"stop", "arity">>}}

Plain == {s \in Binds : /\ s.op = "choice" /\ s.name # "p" /\ ~ Reads(s, "p")
                        /\ s.items[1][1] # "stop"}

AssignsTarget(f) == \E i \in DOMAIN f : f[i].kind = "bind" /\ f[i].name = "x"

MCFunctions ==
    {f \in [1..Statements -> Binds \cup Calls] :
        AssignsTarget(f) /\ (Aliased \/ Apart(f))}
    \cup {f \in [1..Longer -> Plain] : AssignsTarget(f)}

=============================================================================
