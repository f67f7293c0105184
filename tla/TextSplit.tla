------------------------------ MODULE TextSplit ------------------------------
(***************************************************************************)
(* _split_text (app/services/ai/gemini.py): a text is cut into segments of *)
(* at most SegmentMax characters, between paragraphs where that is         *)
(* possible.                                                               *)
(*                                                                         *)
(* A text is the sequence of its paragraphs, a paragraph the sequence of   *)
(* its characters, of which only ink (TRUE) or blank (FALSE) is kept.      *)
(* <<p, i>> names the i-th character of paragraph p, <<p, 0>> the newline  *)
(* before it.                                                              *)
(***************************************************************************)
EXTENDS Naturals, Sequences, FiniteSetsExt

CONSTANT SegmentMax     \* _SEGMENT_MAX_CHARS

-----------------------------------------------------------------------------
Paragraph(text, p) == [i \in 1..Len(text[p]) |-> <<p, i>>]

Newline(p) == <<p, 0>>

IsInk(text, c) == c[2] > 0 /\ text[c[1]][c[2]]

Inked(text, s) == {i \in DOMAIN s : IsInk(text, s[i])}

\* str.strip().
Strip(text, s) ==
    LET ink == Inked(text, s)
    IN  IF ink = {} THEN <<>> ELSE SubSeq(s, Min(ink), Max(ink))

\* The text up to each of its paragraphs, with the newlines that join them.
Joined(text) ==
    LET upTo[p \in 0..Len(text)] ==
            IF p = 0 THEN <<>>
            ELSE IF p = 1 THEN Paragraph(text, p)
            ELSE upTo[p - 1] \o <<Newline(p)>> \o Paragraph(text, p)
    IN  upTo

\* A paragraph that is too long is cut every SegmentMax characters.
Pieces(s) ==
    [k \in 1..((Len(s) + SegmentMax - 1) \div SegmentMax) |->
        SubSeq(s, (k - 1) * SegmentMax + 1, Min({k * SegmentMax, Len(s)}))]

\* segments.append(current.strip()); an empty one is dropped at the end.
Flushed(text, state) ==
    LET portion == Strip(text, state.current)
    IN  IF portion = <<>> THEN state.segments ELSE Append(state.segments, portion)

\* One turn of the loop over the paragraphs.
AddParagraph(text, state, p) ==
    LET para == Paragraph(text, p)
    IN  CASE Len(para) > SegmentMax ->
                [segments |-> Flushed(text, state) \o Pieces(para), current |-> <<>>]
          [] /\ Len(para) <= SegmentMax
             /\ Len(state.current) + Len(para) + 1 > SegmentMax ->
                [segments |-> Flushed(text, state), current |-> para]
          [] OTHER ->
                [state EXCEPT !.current =
                    IF @ = <<>> THEN para ELSE @ \o <<Newline(p)>> \o para]

\* The loop after each of its turns.
Turns(text) ==
    LET after[p \in 0..Len(text)] ==
            IF p = 0 THEN [segments |-> <<>>, current |-> <<>>]
            ELSE AddParagraph(text, after[p - 1], p)
    IN  after

Split(text) ==
    LET whole == Joined(text)[Len(text)]
    IN  IF Len(whole) <= SegmentMax THEN <<whole>>
        ELSE Flushed(text, Turns(text)[Len(text)])

-----------------------------------------------------------------------------
\* What the loop has to deliver: segments that fit, and every character of the
\* text but blanks, none twice and all in their order.
Fits(segments) == \A k \in DOMAIN segments : Len(segments[k]) <= SegmentMax

Precedes(c, e) == c[1] < e[1] \/ (c[1] = e[1] /\ c[2] < e[2])

InOrder(segments) ==
    \A k, l \in DOMAIN segments :
        \A i \in DOMAIN segments[k], j \in DOMAIN segments[l] :
            Precedes(<<k, i>>, <<l, j>>) => Precedes(segments[k][i], segments[l][j])

Covers(text, segments) ==
    /\ InOrder(segments)
    /\ \A p \in DOMAIN text : \A i \in DOMAIN text[p] :
            text[p][i] => \E k \in DOMAIN segments :
                              \E j \in DOMAIN segments[k] : segments[k][j] = <<p, i>>

\* Texts as the parser makes them: none of its parts is blank.
Text == {t \in Seq(Seq(BOOLEAN)) :
            t = <<<<>>>> \/ \E p \in DOMAIN t : \E i \in DOMAIN t[p] : t[p][i]}

SplitRight(text) ==
    LET segments == Split(text)
    IN  /\ segments # <<>>
        /\ Fits(segments)
        /\ Covers(text, segments)
=============================================================================
