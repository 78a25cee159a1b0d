------------------------ MODULE RegisterInstructions ------------------------
(* The words of register code (bytecode/register_code.h): an opcode, three     *)
(* operands of which b and c may be constants, and the line. Each of six       *)
(* opcodes stands for a pair of instructions that follow one another.          *)

Instruction(op, a, b, c, line) ==
    [op |-> op, a |-> a, b |-> b, c |-> c, b_const |-> FALSE, c_const |-> FALSE, line |-> line]

\* A fused opcode, that of its word before it was fused, and that of the next word.
FusedPairs ==
    {<<"LtJumpIfFalse", "Lt", "JumpIfFalse">>, <<"LeJumpIfFalse", "Le", "JumpIfFalse">>,
     <<"AddJump", "Add", "Jump">>, <<"ModAdd", "Mod", "Add">>, <<"DivAdd", "Div", "Add">>,
     <<"IndexSetAdd", "IndexSet", "Add">>}

is_fused(op) == op \in {pair[1] : pair \in FusedPairs}
=============================================================================
