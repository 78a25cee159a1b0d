----------------------------- MODULE MCTreeRoots -----------------------------
(* A small instance of TreeRoots. *)
EXTENDS TreeRoots, TLC

CONSTANTS a1, a2, a3, a4

Symmetry == Permutations(Address)

\* Programs of a few kinds of nodes each: operands across allocations and
\* calls, arguments and parameters, closures, values returned through
\* statements and between runs of the host, variables and elements
\* overwritten.
SomePrograms == {
    {"expression", "string", "left", "elements"},
    {"expression", "callee", "left", "elements"},
    {"expression", "function", "callee", "variable", "left"},
    {"expression", "function", "callee", "variable", "elements"},
    {"expression", "function", "callee", "variable", "return"},
    {"function", "host", "expression", "callee", "elements"},
    {"function", "host", "return", "block", "variable"},
    {"function", "host", "return", "let", "elements"},
    {"function", "host", "let", "assign", "elements"},
    {"expression", "target", "elements"},
    {"expression", "object", "elements"},
    {"while", "if", "block", "unary", "logical", "elements"}}
=============================================================================
