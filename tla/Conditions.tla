----------------------------- MODULE Conditions -----------------------------
(***************************************************************************)
(* How a condition is evaluated (src/bot/handlers/condition.py): its parts *)
(* in turn, each the comparison of two texts after their variables were    *)
(* replaced and the texts deserialized (src/bot/utils/deserializers.py).   *)
(***************************************************************************)
EXTENDS Integers, Sequences, SequencesExt

\* What deserialize_text makes of a text: a truth value, a number (or NaN, which float()
\* accepts), or the text itself.  Truth values count as 0 and 1.
Value == [kind : {"text", "truth", "number", "nan"}, num : Int]
Operators == {"==", "!=", ">", ">=", "<", "<="}
Part == [first : Value, operator : Operators, second : Value, next : {"&&", "||", "None"}]

Equal(x, y) ==
    IF x.kind = "text" \/ y.kind = "text" THEN x = y
    ELSE x.kind # "nan" /\ y.kind # "nan" /\ x.num = y.num

\* Neither is a text, nor NaN, of which no order holds.
Ordered(x, y) == {x.kind, y.kind} \subseteq {"truth", "number"}

Outcome(part) ==
    LET x == part.first  y == part.second IN
    CASE part.operator = "==" -> Equal(x, y)
      [] part.operator = "!=" -> ~ Equal(x, y)
      [] part.operator = ">"  -> Ordered(x, y) /\ x.num > y.num
      [] part.operator = ">=" -> Ordered(x, y) /\ x.num >= y.num
      [] part.operator = "<"  -> Ordered(x, y) /\ x.num < y.num
      [] part.operator = "<=" -> Ordered(x, y) /\ x.num <= y.num

\* A later part joins by its own next_part_operator; without one it leaves the result.
Combine(result, part) ==
    CASE part.next = "&&"   -> result /\ Outcome(part)
      [] part.next = "||"   -> result \/ Outcome(part)
      [] part.next = "None" -> result

\* Mutant: the result starts as False instead of None.
LeadsFromFalse(parts) == FoldLeft(Combine, FALSE, parts)

Result(parts) == FoldLeft(Combine, Outcome(Head(parts)), Tail(parts))

\* The handler returns the connections of the condition.
Leads(parts) == parts # <<>> /\ Result(parts)

-----------------------------------------------------------------------------
(* A reference without a running result.                                    *)

\* How two values stand to each other, and the operators that hold of them then.
Relation(x, y) ==
    CASE "nan" \in {x.kind, y.kind}  -> "unrelated"
      [] "text" \in {x.kind, y.kind} -> IF x = y THEN "same" ELSE "unrelated"
      [] OTHER -> IF x.num < y.num THEN "less" ELSE IF x.num = y.num THEN "equal" ELSE "more"
Holding == [less |-> {"<", "<=", "!="}, more |-> {">", ">=", "!="},
            equal |-> {"==", "<=", ">="}, same |-> {"=="}, unrelated |-> {"!="}]
Holds(part) == part.operator \in Holding[Relation(part.first, part.second)]

\* From left to right: it holds if some part made it hold, the first one or one that came
\* with an "or", and no later part that came with an "and" took it back.
LeftToRight(parts) ==
    \E k \in DOMAIN parts :
        /\ Holds(parts[k]) /\ (k = 1 \/ parts[k].next = "||")
        /\ \A j \in k + 1 .. Len(parts) : parts[j].next = "&&" => Holds(parts[j])
=============================================================================
