----------------------------- MODULE Operations -----------------------------
(* The values of the language and the operations every engine shares         *)
(* (runtime/value.h, runtime/ops.cpp). A value is a pair of its type and its  *)
(* contents: nil, a bool (0 or 1), an int of Width bits, a string (its bytes, *)
(* since equal strings are one object), or the identity of an array, a        *)
(* function or a native. Floats are left out. An operation returns its value  *)
(* and an error, of which NoError means there is none.                        *)
EXTENDS Integers, SequencesExt

CONSTANTS Width,            \* the bits of an int: 32 in the program
          MaxCallDepth,     \* kMaxCallDepth: 10,000 in the program
          Entry             \* the global that a host calls

ASSUME WidthAssumption == Width \in Nat \ {0}
ASSUME HalfAssumption == 2 ^ (Width - 1) \in Nat \ {0}   \* which no prover knows
ASSUME MaxCallDepthAssumption == MaxCallDepth \in Nat \ {0}

Nil == <<"nil", 0>>
make_bool(b) == <<"bool", IF b THEN 1 ELSE 0>>
make_int(n) == <<"int", n>>
Str(bytes) == <<"str", bytes>>         \* a TLA+ string is a sequence of characters
ArrayRef(id) == <<"array", id>>
FunctionRef(id) == <<"function", id>>
NativeRef(name) == <<"native", name>>

True == make_bool(TRUE)
False == make_bool(FALSE)

Is(type, v) == v[1] = type
is_truthy(v) == v \notin {Nil, False}

NoError == <<>>
Ok(v) == [value |-> v, error |-> NoError]
Error(message) == [value |-> Nil, error |-> message]

-----------------------------------------------------------------------------
\* Integer arithmetic: two's complement, and division truncates towards zero.

Half == 2 ^ (Width - 1)
Wrap(n) == ((n + Half) % (2 * Half)) - Half

Magnitude(n) == IF n < 0 THEN -n ELSE n
Truncated(x, y) == LET q == Magnitude(x) \div Magnitude(y)
                   IN IF (x < 0) # (y < 0) THEN -q ELSE q

\* The ints, and the values that no array or function is part of.
Ints == -Half .. Half - 1
IsScalar(v) == \/ v \in {Nil, True, False}
               \/ v = make_int(v[2]) /\ v[2] \in Ints
               \/ v = Str(v[2])

NumericBinary(a, b, Result(_, _)) ==
    IF Is("int", a) /\ Is("int", b) THEN Result(a[2], b[2])
    ELSE Error(<<"operands must be numbers">>)

NumericCompare(a, b, Holds(_, _)) ==
    NumericBinary(a, b, LAMBDA x, y: Ok(make_bool(Holds(x, y))))

op_add(a, b) ==
    IF Is("str", a) /\ Is("str", b) THEN Ok(Str(a[2] \o b[2]))
    ELSE IF Is("int", a) /\ Is("int", b) THEN Ok(make_int(Wrap(a[2] + b[2])))
    ELSE Error(<<"operands must be two numbers or two strings">>)

op_sub(a, b) == NumericBinary(a, b, LAMBDA x, y: Ok(make_int(Wrap(x - y))))
op_mul(a, b) == NumericBinary(a, b, LAMBDA x, y: Ok(make_int(Wrap(x * y))))

op_div(a, b) ==
    NumericBinary(a, b, LAMBDA x, y:
        IF y = 0 THEN Error(<<"division by zero">>)
        ELSE Ok(make_int(IF y = -1 THEN Wrap(-x) ELSE Truncated(x, y))))

op_mod(a, b) ==
    IF ~(Is("int", a) /\ Is("int", b)) THEN Error(<<"operands of '%' must be ints">>)
    ELSE IF b[2] = 0 THEN Error(<<"division by zero">>)
    ELSE Ok(make_int(IF b[2] = -1 THEN 0 ELSE a[2] - b[2] * Truncated(a[2], b[2])))

op_negate(a) == IF Is("int", a) THEN Ok(make_int(Wrap(-a[2])))
                ELSE Error(<<"operand must be a number">>)
op_not(a) == make_bool(~is_truthy(a))

\* Pairs of equal type are equal when their contents are: strings by their
\* bytes, arrays and functions by identity.
values_equal(a, b) == a = b

Unaries == {"Neg", "Not"}
Arithmetic == {"Add", "Sub", "Mul", "Div", "Mod", "Eq", "Ne", "Lt", "Le", "Gt", "Ge"}

UnaryOperation(op, a) == IF op = "Not" THEN Ok(op_not(a)) ELSE op_negate(a)

BinaryOperation(op, a, b) ==
    CASE op = "Add" -> op_add(a, b)
      [] op = "Sub" -> op_sub(a, b)
      [] op = "Mul" -> op_mul(a, b)
      [] op = "Div" -> op_div(a, b)
      [] op = "Mod" -> op_mod(a, b)
      [] op = "Eq" -> Ok(make_bool(values_equal(a, b)))
      [] op = "Ne" -> Ok(make_bool(~values_equal(a, b)))
      [] op = "Lt" -> NumericCompare(a, b, LAMBDA x, y: x < y)
      [] op = "Le" -> NumericCompare(a, b, LAMBDA x, y: x <= y)
      [] op = "Gt" -> NumericCompare(a, b, LAMBDA x, y: x > y)
      [] op = "Ge" -> NumericCompare(a, b, LAMBDA x, y: x >= y)

-----------------------------------------------------------------------------
\* Errors of calls and of variables.

undefined_variable(name) == <<"undefined variable", name>>
arity_error(expected, got) == <<"wrong number of arguments", expected, got>>
NoLine == 0             \* the line of an error that no code has
NotCallable == <<"can only call functions">>
StackOverflow == <<"stack overflow">>

-----------------------------------------------------------------------------
\* Arrays: a sequence of elements for each array, indexed from 0.

resolve_index(arrays, array, index) ==
    IF ~Is("array", array) THEN <<"can only index arrays">>
    ELSE IF ~Is("int", index) THEN <<"array index must be an int">>
    ELSE IF index[2] \notin 0 .. Len(arrays[array[2]]) - 1 THEN <<"array index out of range">>
    ELSE NoError

array_get(arrays, array, index) ==
    LET error == resolve_index(arrays, array, index)
    IN IF error = NoError THEN Ok(arrays[array[2]][index[2] + 1]) ELSE Error(error)

\* The arrays afterwards, where resolve_index finds no error.
array_set(arrays, array, index, value) ==
    [arrays EXCEPT ![array[2]][index[2] + 1] = value]

-----------------------------------------------------------------------------
\* Native functions (runtime/natives.cpp), by their number of parameters;
\* `clock` is left out.

Natives == [len |-> 1, array |-> 2]

native_len(x, arrays) ==
    IF Is("array", x) THEN Ok(make_int(Wrap(Len(arrays[x[2]]))))
    ELSE IF Is("str", x) THEN Ok(make_int(Wrap(Len(x[2]))))
    ELSE Error(<<"len expects an array or a string">>)

Filled(n, fill) == [i \in 1 .. n |-> fill]

\* What a native returns, and the arrays after it.
CallNative(name, args, arrays) ==
    IF name = "len"
    THEN [result |-> native_len(args[1], arrays), arrays |-> arrays]
    ELSE IF Is("int", args[1]) /\ args[1][2] >= 0
    THEN [result |-> Ok(ArrayRef(Len(arrays) + 1)),
          arrays |-> Append(arrays, Filled(args[1][2], args[2]))]
    ELSE [result |-> Error(<<"array size must be a non-negative int">>), arrays |-> arrays]

-----------------------------------------------------------------------------
\* Printing: the pieces of text a value prints as. `names` has the name of
\* every function. The arrays around an array are open while it is printed (the
\* code keeps them on a stack of its own), and an open array prints as "[...]".

PrintScalar(v, names) == IF Is("function", v) THEN <<"fn", names[v[2]]>>
                         ELSE IF Is("native", v) THEN <<"native fn">> ELSE v

Piece(text) == <<"text", text>>

print_value(v, arrays, names) ==
    LET Inside[id \in DOMAIN arrays, open \in SUBSET DOMAIN arrays] ==
            FoldLeft(LAMBDA text, x :
                         text \o (IF ~Is("array", x) THEN <<PrintScalar(x, names)>>
                                  ELSE IF x[2] \in open \cup {id} THEN <<Piece("[...]")>>
                                  ELSE Inside[x[2], open \cup {id}]),
                     <<Piece("[")>>, arrays[id])
            \o <<Piece("]")>>
    IN IF Is("array", v) THEN Inside[v[2], {}] ELSE <<PrintScalar(v, names)>>
=============================================================================
