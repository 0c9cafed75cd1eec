------------------------------- MODULE Rows -------------------------------
(***************************************************************************)
(* The lists of the program as sequences: that of the workspaces, which    *)
(* has no repetition, those that remove_if goes through, and the lines of  *)
(* a file.                                                                 *)
(***************************************************************************)
EXTENDS Naturals, SequencesExt

Listed(row) == ToSet(row)

NoRepeats(row) == \A i, j \in 1..Len(row) : row[i] = row[j] => i = j

\* std::find: the position of a listed element.
Position(row, x) == CHOOSE i \in 1..Len(row) : row[i] = x

\* list::erase through the iterator of an element.
Erase(row, x) == RemoveAt(row, Position(row, x))

\* remove_if and erase: one pass over the list, which keeps the elements at the
\* positions in keep and their order.
Selected(row, keep) ==
    LET pass[n \in 0..Len(row)] ==
            IF n = 0 THEN <<>>
            ELSE IF n \in keep THEN Append(pass[n - 1], row[n])
            ELSE pass[n - 1]
    IN  pass[Len(row)]

\* The elements that are in S, each time and in order.
Those(row, S) == Selected(row, {i \in DOMAIN row : row[i] \in S})

\* A loop from 1 to n, which starts with first: step[i] is what the i-th turn
\* makes of what there is so far.
Loop(step, first, n) ==
    LET after[i \in 0..n] == IF i = 0 THEN first ELSE step[i][after[i - 1]]
    IN  after[n]
=============================================================================
