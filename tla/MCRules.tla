------------------------------ MODULE MCRules --------------------------------
EXTENDS Rules

CONSTANTS host, alive, other, x, y

MCEvents == [{host, alive} -> {Empty, x}]

Options(S) == {Nil, {}} \cup {{s} : s \in S}

\* Leaves: fields known and unknown, values present, listed, empty and absent.
Leaves ==
  [all : {Nil}, any : {Nil}, not : {Nil}, field : {NoField, host, alive, other},
   values : {Nil, {}, {x}, {Empty, y}}, present : BOOLEAN]

Some == {[ZeroRule EXCEPT !.field = host, !.present = TRUE],
         [ZeroRule EXCEPT !.field = alive, !.values = {x}],
         ZeroRule, [ZeroRule EXCEPT !.all = {}], [ZeroRule EXCEPT !.values = {}]}

Trees(S) ==
  [all : Options(S) \cup {{s, t} : s, t \in S}, any : Options(S) \cup {{s, t} : s, t \in S},
   not : {Nil} \cup S, field : {NoField, host}, values : {Nil, {x}}, present : {FALSE}]

Nested ==
  {[ZeroRule EXCEPT !.not = r] : r \in Trees(Some)}
  \cup {[ZeroRule EXCEPT !.any = {r, ZeroRule}] : r \in Trees(Some)}

MCWritten == Leaves \cup Trees(Some) \cup Nested
=============================================================================
