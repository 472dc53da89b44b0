------------------------------ MODULE HtmlText ------------------------------
(***************************************************************************)
(* HTMLTextFormatter in src/bot/utils/html.py: a text with any HTML becomes*)
(* one with the tags Telegram knows.  Tags that are opened are written at  *)
(* once and remembered on a stack, with where in the result they stand;    *)
(* those never closed are cut out again at the end, by these places.       *)
(* Pieces of text are numbered; characters are left out.                   *)
(***************************************************************************)
EXTENDS Integers, Sequences, SequencesExt

\* Tags, one for each way they are treated: "b" for those in ALLOWED_TAGS, "pre" for those
\* that also end a line, "a" with an href and "anchor" without one, "quoting" for an "a" whose
\* href has a quote in it, "p" for those that are dropped but end a line, "x" for those that
\* are dropped, "br" for SELF_CLOSING_TAGS.
Opening == {"b", "pre", "a", "quoting", "anchor", "p", "x", "br"}
Closing == {"b", "pre", "a", "p", "x"}
ALLOWED_TAGS == {"b", "pre", "a"}
EndsLine == {"p", "pre"}
TagOf(opened) == IF opened = "quoting" THEN "a" ELSE opened

\* What the parser meets, and what the result consists of.  A piece "held" ends like a
\* character reference ("&x"): the parser holds it back until it is closed.  A piece
\* "lined" ends in a line end.
Open(tag) == [is |-> "open", of |-> tag]
Close(tag) == [is |-> "close", of |-> tag]
Piece(n) == [is |-> "text", of |-> n]
HeldBack(n) == [is |-> "held", of |-> n]
Lined(n) == [is |-> "lined", of |-> n]
NewLine == [is |-> "line", of |-> 0]

\* The formatter: its result, and its stack of open tags with the lengths of the result
\* before and after each was written.  A tag is written as one item.
Reset == [result |-> <<>>, stack |-> <<>>]

\* The tag of an anchor is "a" too, but without href it is passed over.  An href is written
\* as the parser has decoded it: behind a quote, what is written may be any tags.
StartTag(state, tag) ==
    LET written == IF TagOf(tag) \in ALLOWED_TAGS THEN Append(state.result, Open(tag)) ELSE state.result
        entry == [tag |-> tag, from |-> Len(state.result), to |-> Len(written)]
    IN  [result |-> written,
         stack |-> IF tag \in {"br", "anchor"} THEN state.stack ELSE Append(state.stack, entry)]

Written(tag) == (IF tag \in ALLOWED_TAGS THEN <<Close(tag)>> ELSE <<>>)
                    \o (IF tag \in EndsLine THEN <<NewLine>> ELSE <<>>)

\* Mutant: any end tag closes the tag opened last.
EndAnyTag(state, tag) ==
    IF state.stack = <<>> THEN state
    ELSE [result |-> state.result \o Written(tag), stack |-> Front(state.stack)]

\* An end tag counts only when it closes the tag opened last.
EndTag(state, tag) ==
    IF state.stack = <<>> \/ TagOf(Last(state.stack).tag) # tag THEN state
    ELSE [result |-> state.result \o Written(tag), stack |-> Front(state.stack)]

\* What the parser calls for a token; a piece that it holds back changes nothing yet.
Feed(state, token) ==
    CASE token.is = "open"  -> StartTag(state, token.of)
      [] token.is = "close" -> EndTag(state, token.of)
      [] token.is = "text"  -> [state EXCEPT !.result = Append(@, token)]
      [] token.is = "lined" -> [state EXCEPT !.result = @ \o <<Piece(token.of), NewLine>>]
      [] token.is = "held"  -> state
Fed(tokens) == FoldLeft(Feed, Reset, tokens)

\* Mutant: everything after an unclosed tag is cut off.
CutRest(result, entry) == SubSeq(result, 1, entry.from)

Cut(result, entry) == SubSeq(result, 1, entry.from) \o SubSeq(result, entry.to + 1, Len(result))

\* Unclosed tags are cut out, the last one first; one line end at the end is removed, that
\* of a tag or of a piece of text; then the parser hands over what it held back.
Formatted(tokens) ==
    LET state == Fed(tokens)
        whole == FoldLeft(Cut, state.result, Reverse(state.stack))
        kept == IF whole # <<>> /\ Last(whole) = NewLine THEN Front(whole) ELSE whole
        held == FlattenSeq([k \in DOMAIN tokens |->
            IF tokens[k].is = "held" THEN <<Piece(tokens[k].of)>> ELSE <<>>])
    IN  kept \o held

-----------------------------------------------------------------------------

\* One of these items is a tag that brings others with it.
Spoilt(items) == \E k \in DOMAIN items : items[k] = Open("quoting")

\* The tags still open after these items, or <<"mismatch">> once one closes another or
\* brings others.
Follow(open, item) ==
    IF item = Open("quoting") THEN <<"mismatch">>
    ELSE IF item.is = "open" THEN Append(open, item.of)
    ELSE IF item.is # "close" THEN open
    ELSE IF open # <<>> /\ Last(open) = item.of THEN Front(open)
    ELSE <<"mismatch">>
Pending(items) == FoldLeft(Follow, <<>>, items)

\* The pieces of text among these items, in their order.
Texts(items) == FlattenSeq([k \in DOMAIN items |->
    IF items[k].is \in {"text", "lined", "held"} THEN <<items[k].of>> ELSE <<>>])
=============================================================================
