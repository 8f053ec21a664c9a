-------------------------------- MODULE RscScan --------------------------------
(***************************************************************************)
(* iter_balanced_json and the _balanced_slice it calls (bk_crowns/rsc.py): *)
(* from each opening brace of a text, one pass looks for the brace that    *)
(* closes it, aware of quotes and of escapes, then json.loads (external)   *)
(* accepts the slice or not.  Positions are one more than the code's.      *)
(***************************************************************************)
EXTENDS Integers, Sequences, FiniteSetsExt

CONSTANT MaxText   \* bound: the length of a text

ASSUME ScanAssumption == MaxText \in Nat

\* The two quotes, the two braces and the backslash.  _balanced_slice treats any
\* other character as a backslash outside strings, and as a brace inside them.
Quotes == {"single", "double"}
Alphabet == {"open", "close", "backslash"} \cup Quotes

VARIABLES
    text, offset, start, index,
    depth, quote, escaped,
    scan    \* "find", "slice", "load", or the end: "ended" or "unbalanced"

scanVars == <<text, offset, start, index, depth, quote, escaped, scan>>

\* What comes before the first brace is skipped: the text begins with it.
ScanInit ==
    /\ \E n \in 1..MaxText : text \in [1..n -> Alphabet]
    /\ text[1] = "open"
    /\ offset = 1 /\ start = 0 /\ index = 0
    /\ depth = 0 /\ quote = "none" /\ escaped = FALSE
    /\ scan = "find"

Find ==
    /\ scan = "find"
    /\ LET braces == {i \in offset..Len(text) : text[i] = "open"}
       IN  IF braces = {}
           THEN scan' = "ended" /\ UNCHANGED <<start, index>>
           ELSE /\ scan' = "slice"
                /\ start' = Min(braces) /\ index' = start'
    /\ depth' = 0 /\ quote' = "none" /\ escaped' = FALSE
    /\ UNCHANGED <<text, offset>>

\* Mutant: a backslash does not escape a quote.
InsideQuotesUnescaped(c) ==
    /\ quote # "none"
    /\ escaped' = FALSE
    /\ quote' = IF c = quote THEN "none" ELSE quote
    /\ UNCHANGED <<depth, scan>>

InsideQuotes(c) ==
    /\ quote # "none"
    /\ escaped' = (~escaped /\ c = "backslash")
    /\ quote' = IF ~escaped /\ c = quote THEN "none" ELSE quote
    /\ UNCHANGED <<depth, scan>>

OutsideQuotes(c) ==
    /\ quote = "none"
    /\ quote' = IF c \in Quotes THEN c ELSE "none"
    /\ depth' = CASE c = "open" -> depth + 1 [] c = "close" -> depth - 1 [] OTHER -> depth
    /\ scan' = IF c = "close" /\ depth = 1 THEN "load" ELSE "slice"
    /\ UNCHANGED escaped

ReadOne ==
    /\ scan = "slice" /\ index <= Len(text)
    /\ index' = index + 1
    /\ InsideQuotes(text[index]) \/ OutsideQuotes(text[index])
    /\ UNCHANGED <<text, offset, start>>

\* _balanced_slice raises, and the whole iteration returns.
Unbalanced ==
    /\ scan = "slice" /\ index > Len(text)
    /\ scan' = "unbalanced"
    /\ UNCHANGED <<text, offset, start, index, depth, quote, escaped>>

\* A valid object is left behind, otherwise only its first brace is.
Load ==
    /\ scan = "load" /\ scan' = "find"
    /\ offset' \in {index, start + 1}
    /\ UNCHANGED <<text, start, index, depth, quote, escaped>>

ScanNext == Find \/ ReadOne \/ Unbalanced \/ Load

ScanSpec == ScanInit /\ [][ScanNext]_scanVars
------------------------------------------------------------------------------
(* Reference: a string is a quote and the next same quote that an even number *)
(* of backslashes precedes; braces count outside strings.                     *)

\* The backslashes before q, in the string that begins at p, begin at k.
Backslashes(p, k, q) ==
    /\ k = p + 1 \/ text[k - 1] # "backslash"
    /\ \A i \in k..q - 1 : text[i] = "backslash"

\* The end of the string that begins at p, or past the end of the text.
StringEnd(p) ==
    Min({Len(text) + 1} \cup
        {q \in p + 1..Len(text) :
           /\ text[q] = text[p]
           /\ \E k \in p + 1..q : Backslashes(p, k, q) /\ (q - k) % 2 = 0})

\* What follows a character outside strings, or the string that it begins.
After(p) == IF text[p] \in Quotes THEN StringEnd(p) + 1 ELSE p + 1

\* The positions from the brace at s on that no string contains: they are in
\* every set that has s and what follows its members.
Outside(s) ==
    LET after == [p \in s..Len(text) |-> After(p)]
        closed == {C \in SUBSET (s..Len(text) + 2) :
                     s \in C /\ \A p \in C : p <= Len(text) => after[p] \in C}
    IN  {p \in s..Len(text) : \A C \in closed : p \in C}

\* The braces that balance the one at s, given the positions outside strings.
Closers(outside) ==
    LET Count(c, e) == Cardinality({p \in outside : p <= e /\ text[p] = c})
    IN  {e \in outside : text[e] = "close" /\ Count("open", e) = Count("close", e)}

\* Whatever the text, the single pass stops at the first brace that balances
\* the one it began at, and gives up only when there is none.
SliceIsRight ==
    scan \in {"load", "unbalanced"} =>
        LET closers == Closers(Outside(start))
        IN  IF scan = "unbalanced" THEN closers = {}
            ELSE index - 1 \in closers /\ \A e \in closers : index - 1 <= e
=============================================================================
