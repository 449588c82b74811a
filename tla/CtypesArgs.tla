----------------------------- MODULE CtypesArgs -----------------------------
(***************************************************************************)
(* How the arguments of a C function are built from the inputs of a test:  *)
(* the loop of _run_c_function_execution in evaluate/evaluation/sandbox.py *)
(* (lines 244-298).  The inputs are Python values.  The C function gets,   *)
(* after an array, its length, and after a matrix its numbers of rows and  *)
(* columns, which the loop inserts into the very list it walks through.    *)
(*                                                                         *)
(* A value is a number (any scalar or string), an array for a parameter of *)
(* type int*, long long*, double* or char**, or a matrix; int** and long   *)
(* long** matrices are treated differently.  What an array holds is left   *)
(* out, its length is kept.                                                *)
(***************************************************************************)
EXTENDS Integers, Sequences, SequencesExt

CONSTANTS
  MaxInputs,  \* bound: inputs of a test
  MaxLen      \* bound: length of an array, rows and columns of a matrix

CtypesArgsAssumption == MaxInputs \in Nat \ {0} /\ MaxLen \in Nat \ {0}

VARIABLES
  inputs,  \* case["input"], with the C types the problem gives them
  raw,     \* raw_inputs
  args,    \* c_args; the loop's i is its length plus one
  pc       \* "loop", "call", or "raised"

vars == <<inputs, raw, args, pc>>

Lens == 0..MaxLen
Matrices == {"int**", "long long**"}

\* A number is known by its value, a list by its shape.
Number(n) == [type |-> "int", n |-> n, rows |-> <<>>]
Array(n) == [type |-> "array", n |-> n, rows |-> <<>>]
Matrix(type, rows) == [type |-> type, n |-> Len(rows), rows |-> rows]

\* Numbers that are no length: what the function gets in the place of a length
\* shows in its value.
Values ==
  {Number(-1)} \cup {Array(n) : n \in Lens}
    \cup {Matrix(m, rows) : m \in Matrices, rows \in SeqOf(Lens \ {0}, MaxLen)}

\* The parameters a value stands for, as the problems declare them:
\*   T* a, int aSize    and   T** m, int mSize, and the columns, an int for
\* long long** and an array with the length of each row for int**.
Expansion(v) ==
  CASE v.type = "int"    -> <<v>>
    [] v.type = "array"  -> <<v, Number(v.n)>>
    [] v.type = "int**"  -> <<v, Number(v.n), Array(v.n)>>
    [] OTHER              -> <<v, Number(v.n),
                               Number(IF v.rows = <<>> THEN 0 ELSE v.rows[1])>>

Wanted == FlattenSeq([k \in DOMAIN inputs |-> Expansion(inputs[k])])

\* signature["args"]
Signature == [k \in DOMAIN Wanted |-> Wanted[k].type]

-----------------------------------------------------------------------------
\* Mutation: the number of columns comes before the number of rows.
InsertedSwapped(v) ==
  CASE v.type = "array" -> <<Number(v.n)>>
    [] v.type \in Matrices /\ v.rows = <<>>     -> <<Number(v.n)>>
    [] v.type = "int**" /\ v.rows # <<>>       -> <<Number(v.n), Array(v.n)>>
    [] v.type = "long long**" /\ v.rows # <<>> -> <<Number(v.rows[1]), Number(v.n)>>

\* What is inserted behind a list: of an empty matrix the columns are left out.
Inserted(v) ==
  CASE v.type = "array" -> <<Number(v.n)>>
    [] v.type \in Matrices /\ v.rows = <<>>     -> <<Number(v.n)>>
    [] v.type = "int**" /\ v.rows # <<>>       -> <<Number(v.n), Array(v.n)>>
    [] v.type = "long long**" /\ v.rows # <<>> -> <<Number(v.n), Number(v.rows[1])>>

\* int(list), len(number), and a row that is no number or no list raise; an
\* empty list is an empty array and an empty matrix.
Converts(v, type) ==
  \/ v.type = type
  \/ v.type # "int" /\ type # "int" /\ v.n = 0
  \/ v.type \in Matrices /\ type \in Matrices

\* What the array or matrix parameter of this type makes of a list.
Taken(v, type) == [v EXCEPT !.type = type]

Init ==
  /\ inputs \in SeqOf(Values, MaxInputs) \ {<<>>}
  /\ raw = inputs /\ args = <<>> /\ pc = "loop"

i == Len(args) + 1

\* A list for a pointer: its lengths are put behind it, whatever follows.
TakeList ==
  /\ pc = "loop" /\ i <= Len(Signature) /\ i <= Len(raw)
  /\ Signature[i] # "int" /\ Converts(raw[i], Signature[i])
  /\ LET v == Taken(raw[i], Signature[i])
     IN  /\ args' = Append(args, v)
         /\ raw' = SubSeq(raw, 1, i) \o Inserted(v) \o SubSeq(raw, i + 1, Len(raw))
  /\ UNCHANGED <<inputs, pc>>

TakeNumber ==
  /\ pc = "loop" /\ i <= Len(Signature) /\ i <= Len(raw)
  /\ Signature[i] = "int" /\ Converts(raw[i], "int")
  /\ args' = Append(args, raw[i])
  /\ UNCHANGED <<inputs, raw, pc>>

\* "Missing input for argument i", or a value that does not convert: -4.
Raise ==
  /\ pc = "loop" /\ i <= Len(Signature)
  /\ i <= Len(raw) => ~Converts(raw[i], Signature[i])
  /\ pc' = "raised"
  /\ UNCHANGED <<inputs, raw, args>>

\* func(*c_args): what is left of the inputs is ignored.
Call ==
  /\ pc = "loop" /\ i > Len(Signature)
  /\ pc' = "call"
  /\ UNCHANGED <<inputs, raw, args>>

Next == TakeList \/ TakeNumber \/ Raise \/ Call

Spec == Init /\ [][Next]_vars
-----------------------------------------------------------------------------
TypeOK ==
  /\ inputs \in SeqOf(Values, MaxInputs)
  /\ pc \in {"loop", "call", "raised"}
  /\ Len(args) <= Len(Signature)
  /\ \A k \in DOMAIN args : args[k].type = Signature[k]

\* The inputs the loop cannot serve: an empty matrix, whose columns are left
\* out, and an int** that is not the last input, whose row lengths are an array
\* and so get a length of their own, in the place of the next argument.
Unserved(k) ==
  \/ inputs[k].type \in Matrices /\ inputs[k].rows = <<>>
  \/ inputs[k].type = "int**" /\ k < Len(inputs)

(* The function is called with the arguments it declares, every input in   *)
(* its place and followed by its own lengths, for all inputs but two       *)
(* classes; for these it never is (lines 244-298).                         *)
CallIsAligned ==
  pc # "loop" =>
    LET served == \A k \in DOMAIN inputs : ~Unserved(k)
    IN  (pc = "call" /\ args = Wanted) <=> served

(* The loop ends, although it adds to the list it walks through.           *)
Ended == pc # "loop"

Ends == <>Ended
=============================================================================
