-------------------------- MODULE MCJitBackground --------------------------
(* Small instances of JitBackground. *)
EXTENDS JitBackground

CONSTANTS script, f, g, h, w1

\* The script declares f and g; h is nested in f.
NestedRefs == [x \in Function |-> CASE x = script -> {f, g}
                                    [] x = f -> {h}
                                    [] OTHER -> {}]

\* The script declares f and g, and nothing is nested.
FlatRefs == [x \in Function |-> IF x = script THEN {f, g} ELSE {}]

=============================================================================
