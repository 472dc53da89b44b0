---------------------------- MODULE Placeholders ----------------------------
(***************************************************************************)
(* The replacement of {{ }} placeholders by the values of variables        *)
(* (src/bot/utils/variables.py).  A text is a sequence of characters, and  *)
(* the name in a placeholder a sequence of characters other than braces.   *)
(***************************************************************************)
EXTENDS Integers, Sequences, SequencesExt, FiniteSetsExt

Around(name) == <<"{", "{">> \o name \o <<"}", "}">>

\* The names that have values, and the values as texts (Variables says where they come from):
\* a name, placeholders again, as in what a user wrote, and a brace.
Environment == [name \in {<<"a">>, <<"b">>, <<"c">>, <<"d">>} |->
    CASE name = <<"a">> -> <<"b">>
      [] name = <<"b">> -> Around(<<"c">>)
      [] name = <<"c">> -> Around(<<"d">>)
      [] name = <<"d">> -> <<"{">>]

Name(text, from, to) == SubSeq(text, from + 2, to - 2)

\* VARIABLE_PATTERN: \{\{([^{}]+)\}\}.  No two matches overlap.
Matches(text) ==
    {span \in (1 .. Len(text)) \X (1 .. Len(text)) :
        LET name == Name(text, span[1], span[2]) IN
        /\ span[2] >= span[1] + 4
        /\ SubSeq(text, span[1], span[2]) = Around(name)
        /\ {"{", "}"} \cap ToSet(name) = {}}

\* Those whose variable has a value; the others stay as they are.
Replaceable(text) ==
    {span \in Matches(text) : Name(text, span[1], span[2]) \in DOMAIN Environment}

Splice(text, span, value) ==
    SubSeq(text, 1, span[1] - 1) \o value \o SubSeq(text, span[2] + 1, Len(text))
ValueAt(text, span) == Environment[Name(text, span[1], span[2])]

\* Mutant: a round goes on behind the last placeholder, and replaces that one only.
ReplaceLast(text) ==
    LET spans == SetToSortSeq(Replaceable(text), LAMBDA x, y : x[1] > y[1])
    IN  IF spans = <<>> THEN text ELSE Splice(text, Head(spans), ValueAt(text, Head(spans)))

\* _replace_text_variables: all placeholders of the text at once.
ReplaceOnce(text) ==
    FoldLeft(LAMBDA result, span : Splice(result, span, ValueAt(text, span)),
             text, SetToSortSeq(Replaceable(text), LAMBDA x, y : x[1] > y[1]))

\* replace_text_variables: three rounds (one that changes nothing ends them, as the next
\* would change nothing either).
ROUNDS == 3
Replaced(text) == FoldLeft(LAMBDA result, round : ReplaceOnce(result), text, [k \in 1 .. ROUNDS |-> k])

-----------------------------------------------------------------------------
(* A reference that replaces one placeholder after the other, the first    *)
(* one first: each character carries its age, how many replacements it     *)
(* stems from, and a placeholder is as old as its oldest character.        *)

Aged(text, age) == [k \in DOMAIN text |-> [char |-> text[k], age |-> age]]
Chars(aged) == [k \in DOMAIN aged |-> aged[k].char]
Age(aged, span) == Max({aged[k].age : k \in span[1] .. span[2]})

OneByOne(start) ==
    LET after[aged \in Seq([char : STRING, age : Nat])] ==
            LET text == Chars(aged)
                young == {span \in Replaceable(text) : Age(aged, span) < ROUNDS}
                first == CHOOSE span \in young : \A other \in young : span[1] <= other[1]
            IN  IF young = {} THEN text
                ELSE after[Splice(aged, first, Aged(ValueAt(text, first), Age(aged, first) + 1))]
    IN  after[start]
=============================================================================
