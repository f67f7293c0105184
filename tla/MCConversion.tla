----------------------------- MODULE MCConversion -----------------------------
(* Small instances of Conversion for TLC: segments of three characters.      *)
EXTENDS Conversion, TLC

CONSTANTS d, p

Split3 == INSTANCE TextSplit WITH SegmentMax <- 3

\* What parse_docx makes: stripped parts that are not empty, between empty lines,
\* the lines of a table without one.
Parts == {<<TRUE>>, <<TRUE, TRUE>>, <<TRUE, FALSE, TRUE>>, <<TRUE, TRUE, TRUE, TRUE>>,
          <<TRUE, FALSE, FALSE, FALSE, FALSE, FALSE, TRUE>>}

Spaced(parts) ==
    FlattenSeq([i \in DOMAIN parts |-> IF i = 1 THEN <<parts[i]>> ELSE <<<<>>, parts[i]>>])

AllTexts ==
    {<<<<>>>>} \cup {Spaced(parts) : parts \in UNION {[1..n -> Parts] : n \in 1..3}}
        \cup {table : table \in UNION {[1..n -> Parts] : n \in 2..3}}

\* The split is right for every such text.
ASSUME SplitAssumption == \A t \in AllTexts : Split3!SplitRight(t)

\* For the run: an empty text, and one that is cut between its parts.
MCTexts == {<<<<>>>>, <<<<TRUE>>, <<>>, <<TRUE, TRUE>>>>}

\* The docx is delivered or reprocessed once more, the pdf shares the token.
MCRuns == (d :> 2) @@ (p :> 1)
=============================================================================
