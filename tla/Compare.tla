------------------------------ MODULE Compare ------------------------------
(***************************************************************************)
(* When is the output of a program the expected one?  Two answers:         *)
(*                                                                         *)
(*   grade_stdio of evaluate/evaluation/testing_util.py, by which the      *)
(*   benchmark is graded: line by line, numbers by their exact value;      *)
(*                                                                         *)
(*   run_c_test of evaluate/sandbox/apps_sandbox.py (and its copy in       *)
(*   iteration_translation/sandbox): three tries, the last one with        *)
(*   floating-point numbers up to a tolerance.                             *)
(*                                                                         *)
(* A text is a sequence of lines; a line is a sequence of tokens, with     *)
(* white space after it or not.  A token is what it looks like and, when   *)
(* it is a number, what it is worth, in millionths.                        *)
(***************************************************************************)
EXTENDS Integers, Sequences, SequencesExt

CONSTANTS
  Tokens,   \* [look, worth] records
  Width,    \* bound: tokens in a line
  Height,   \* bound: lines in a text
  Word      \* the worth of a token that is no number

CompareAssumption ==
  \A a, b \in Tokens : a.look = b.look => a = b

VARIABLES
  exp,    \* the expected output
  form,   \* how it is stored: as one string or as a list of strings
  out,    \* the output of the program
  line,   \* the line grade_stdio looks at
  right,  \* its result
  tries,  \* the tries of run_c_test so far
  same    \* tmp_result

vars == <<exp, form, out, line, right, tries, same>>

Lines == [toks : SeqOf(Tokens, Width), tail : BOOLEAN]
Texts == SeqOf(Lines, Height)

Init ==
  /\ exp \in Texts /\ out \in Texts /\ form \in {"string", "list"}
  /\ line = 0 /\ right = "open"
  /\ tries = 0 /\ same = FALSE

-----------------------------------------------------------------------------
(* str.strip on a line and on a text. *)
Stripped(l) == [l EXCEPT !.tail = FALSE]
StrippedLines(t) == [i \in DOMAIN t |-> Stripped(t[i])]

Blank(l) == l.toks = <<>>
Empty(l) == Blank(l) /\ ~l.tail

\* Blank lines at both ends go, and the white space of the last line.
StrippedText(t) ==
  LET full == {i \in DOMAIN t : ~Blank(t[i])}
      first == CHOOSE i \in full : \A j \in full : i <= j
      last == CHOOSE i \in full : \A j \in full : j <= i
      inner == SubSeq(t, first, last)
  IN  IF full = {} THEN <<>> ELSE [inner EXCEPT ![Len(inner)] = Stripped(@)]

NotBlank(l) == ~Blank(l)

\* get_stripped_lines
GetStrippedLines(t) == StrippedLines(SelectSeq(t, NotBlank))

\* convert_line_to_decimals
Numeric(l) == \A i \in DOMAIN l.toks : l.toks[i].worth # Word
Worths(l) == [i \in DOMAIN l.toks |-> l.toks[i].worth]

-----------------------------------------------------------------------------
(* grade_stdio. *)
Got == GetStrippedLines(out)
Wanted == GetStrippedLines(exp)

Decided(v) == right' = v /\ UNCHANGED <<exp, form, out, line, tries, same>>

LengthsDiffer == right = "open" /\ line = 0 /\ Len(Got) # Len(Wanted) /\ Decided("no")

LengthsAgree ==
  /\ right = "open" /\ line = 0 /\ Len(Got) = Len(Wanted)
  /\ line' = 1
  /\ UNCHANGED <<exp, form, out, right, tries, same>>

LineAgrees ==
  \/ Got[line] = Wanted[line]
  \/ Numeric(Got[line]) /\ Numeric(Wanted[line]) /\ Worths(Got[line]) = Worths(Wanted[line])

NextLine ==
  /\ right = "open" /\ line \in 1..Len(Wanted) /\ LineAgrees
  /\ line' = line + 1
  /\ UNCHANGED <<exp, form, out, right, tries, same>>

LineDiffers == right = "open" /\ line \in 1..Len(Wanted) /\ ~LineAgrees /\ Decided("no")
AllAgree == right = "open" /\ line = Len(Wanted) + 1 /\ Decided("yes")

-----------------------------------------------------------------------------
(* run_c_test. *)
\* custom_compare_: the lines of the output come stripped, the text does not.
WholeAgrees == StrippedText(StrippedLines(out)) = StrippedText(exp)

\* process_expected_output_for_comparison: a line of white space goes, an empty one stays.
Kept(l) == ~Blank(l) \/ Empty(l)
ExpectedLines == StrippedLines(SelectSeq(exp, Kept))

LinesAgree == Got = ExpectedLines

Abs(n) == IF n < 0 THEN -n ELSE n

\* np.allclose(a, b): |a - b| <= 1e-8 + 1e-5 * |b|
Close(a, b) == Abs(a - b) <= (1000 + Abs(b)) \div 100000

\* float(x) takes a line of one token.
Floats(ls) == \A i \in DOMAIN ls : Len(ls[i].toks) = 1 /\ ls[i].toks[1].worth # Word

\* A string is put into a list as one string, which is no number when it has
\* more lines than one; an empty one is an empty list.
ExpectedFloats ==
  IF form = "list" THEN ExpectedLines ELSE StrippedText(exp)

\* Mutation: numbers are close when they have the same whole part.
FloatsRound ==
  LET a == Got  b == ExpectedFloats
  IN  /\ form = "string" => Len(b) = 1
      /\ Floats(a) /\ Floats(b) /\ Len(a) = Len(b)
      /\ \A i \in DOMAIN a : a[i].toks[1].worth \div 1000000 = b[i].toks[1].worth \div 1000000

FloatsAgree ==
  LET a == Got  b == ExpectedFloats
  IN  /\ form = "string" => Len(b) = 1
      /\ Floats(a) /\ Floats(b) /\ Len(a) = Len(b)
      /\ \A i \in DOMAIN a : Close(a[i].toks[1].worth, b[i].toks[1].worth)

Try(n, agrees) ==
  /\ tries = n - 1 /\ ~same
  /\ tries' = n /\ same' = agrees
  /\ UNCHANGED <<exp, form, out, line, right>>

Next ==
  \/ LengthsDiffer \/ LengthsAgree \/ NextLine \/ LineDiffers \/ AllAgree
  \/ Try(1, WholeAgrees) \/ Try(2, LinesAgree) \/ Try(3, FloatsAgree)

Spec == Init /\ [][Next]_vars

-----------------------------------------------------------------------------
TypeOK ==
  /\ exp \in Texts /\ out \in Texts
  /\ right \in {"open", "yes", "no"} /\ line \in 0..(Height + 1)
  /\ same \in BOOLEAN /\ tries \in 0..3

Tried == tries = 3 \/ same

\* The tokens of a text, without regard to white space and lines.
Content(t) == FlattenSeq([i \in DOMAIN t |-> t[i].toks])

SameBy(Eq(_, _)) ==
  LET a == Content(out)  b == Content(exp)
  IN  Len(a) = Len(b) /\ \A i \in DOMAIN a : a[i] = b[i] \/ Eq(a[i].worth, b[i].worth)

Exactly(a, b) == a # Word /\ a = b
Nearly(a, b) == a # Word /\ b # Word /\ Close(a, b)

\* Whatever is forgiven is layout and the spelling of numbers: grade_stdio never
\* passes an output with another content, and run_c_test none that is not close.
ContentDecides ==
  /\ right = "yes" => SameBy(Exactly)
  /\ same => SameBy(Nearly)

\* A program that prints the expected output, or all its lines with other white
\* space around them, is right for grade_stdio.
EchoPasses == (Got = Wanted) => right # "no"

\* apps_sandbox.py:354 "Compare with empty lines removed": white space around
\* the lines and empty lines make no difference.  They do when the expected
\* output has both: its empty lines are kept in one comparison, and the white
\* space after its lines in the other.
LayoutForgiven == (Got = Wanted /\ Tried) => same
=============================================================================
