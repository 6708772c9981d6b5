-------------------------------- MODULE PyStr --------------------------------
(***************************************************************************)
(* Python 2 str operations the scripts use, on strings modelled as         *)
(* sequences of one-character strings: index normalisation and slicing     *)
(* (negative indices count from the end, out-of-range ones are clipped),   *)
(* find (-1 when absent), rfind, rstrip, lstrip and strip of a set of     *)
(* characters, split on whitespace, and startswith.                        *)
(***************************************************************************)
EXTENDS Naturals, Integers, Sequences, SequencesExt

PyIndex(i, n) == IF i < 0 THEN IF n + i < 0 THEN 0 ELSE n + i
                 ELSE IF i > n THEN n ELSE i

\* s[lo:hi]
PySlice(s, lo, hi) ==
    LET a == PyIndex(lo, Len(s))
        b == PyIndex(hi, Len(s))
    IN IF a >= b THEN <<>> ELSE SubSeq(s, a + 1, b)

\* s.find(c): 0-based index of the first c, or -1.
PyFind(s, c) == SelectInSeq(s, LAMBDA x : x = c) - 1

\* s.rfind(c): 0-based index of the last c, or -1.
PyRFind(s, c) == SelectLastInSeq(s, LAMBDA x : x = c) - 1

\* s.rstrip(cs): drop trailing characters that are in cs.
RECURSIVE PyRStrip(_, _)
PyRStrip(s, cs) ==
    IF s # <<>> /\ Last(s) \in cs THEN PyRStrip(Front(s), cs) ELSE s

\* s.lstrip(cs): drop leading characters that are in cs.
RECURSIVE PyLStrip(_, _)
PyLStrip(s, cs) ==
    IF s # <<>> /\ Head(s) \in cs THEN PyLStrip(Tail(s), cs) ELSE s

\* s.strip(cs)
PyStrip(s, cs) == PyLStrip(PyRStrip(s, cs), cs)

\* s.split() with ws the whitespace: the maximal runs of other characters,
\* in order; no empty words.
PySplit(s, ws) ==
    LET Step(acc, c) ==
          IF c \notin ws THEN [acc EXCEPT !.word = Append(@, c)]
          ELSE IF acc.word = <<>> THEN acc
          ELSE [words |-> Append(acc.words, acc.word), word |-> <<>>]
        end == FoldLeft(Step, [words |-> <<>>, word |-> <<>>], s)
    IN IF end.word = <<>> THEN end.words ELSE Append(end.words, end.word)

\* s.startswith(p)
PyStartsWith(s, p) == IsPrefix(p, s)

=============================================================================
