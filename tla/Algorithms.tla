----------------------------- MODULE Algorithms -----------------------------
(***************************************************************************)
(* The functions of the program against what they are to compute, for      *)
(* every input within bounds: the inputs of one of them, the subject of a  *)
(* behavior, grow step by step from nothing.                               *)
(***************************************************************************)
EXTENDS Conditions, HtmlText, MessageRequests, Placeholders, Variables, TriggerDispatch

CONSTANTS
    MaxParts,     \* bound: parts of a condition
    MaxTokens,    \* bound: tags and pieces of a text
    MaxFiles,     \* bound: files of one type
    MaxButtons,   \* bound: buttons of a keyboard
    MaxChars,     \* bound: characters of a text with placeholders
    MaxNodes,     \* bound: nodes of a tree of data
    MaxObjects    \* bound: triggers and buttons of a bot

VARIABLES subject, input

Nothings == [condition |-> <<>>, html |-> <<>>, keyboard |-> <<>>, template |-> <<>>, dispatch |-> <<>>,
             message |-> [media |-> [type \in ToSet(Types) |-> 0], text |-> FALSE, keyboard |-> FALSE],
             data |-> Nothing]

Blank == subject \in DOMAIN Nothings /\ input = Nothings[subject]

Make(kind, num) == [kind |-> kind, num |-> num]
Values == {Make("text", 0), Make("text", 1), Make("truth", 0), Make("truth", 1),
           Make("number", 0), Make("number", 1), Make("number", 2), Make("nan", 0)}

\* A comparison of any two values stands alone; a part that holds or not may be followed.
Comparisons == [first : Values, operator : Operators, second : Values, next : {"None"}]
Joined == [first : {Make("truth", 1)}, operator : {"=="},
           second : {Make("number", 1), Make("text", 1)}, next : {"&&", "||", "None"}]
ASSUME InputsAssumption == Comparisons \cup Joined \subseteq Part

Grow(what, bound, elements) ==
    /\ subject = what /\ Len(input) < bound
    /\ \E element \in elements : input' = Append(input, element)
    /\ UNCHANGED subject

AddPart ==
    /\ subject = "condition" /\ ToSet(input) \subseteq Joined
    /\ Grow("condition", MaxParts, Joined \cup (IF input = <<>> THEN Comparisons ELSE {}))

\* A piece that is held back is the last one.
AddToken ==
    /\ subject = "html" /\ \A k \in DOMAIN input : input[k].is # "held"
    /\ Grow("html", MaxTokens, {Open(tag) : tag \in Opening} \cup {Close(tag) : tag \in Closing}
                               \cup {Piece(Len(input) + 1), Lined(Len(input) + 1), HeldBack(Len(input) + 1)})

AddToMessage ==
    /\ subject = "message"
    /\ \/ \E type \in ToSet(Types) :
              input.media[type] < MaxFiles /\ input' = [input EXCEPT !.media[type] = @ + 1]
       \/ ~input.text /\ input' = [input EXCEPT !.text = TRUE]
       \/ ~input.keyboard /\ input' = [input EXCEPT !.keyboard = TRUE]
    /\ UNCHANGED subject

AddButton == Grow("keyboard", MaxButtons, [row : 0 .. 2, position : 0 .. 1])

\* The names a, b and d have values, x has none.
AddChar == Grow("template", MaxChars, {"{", "}", "a", "b", "x"})

WithNode(tree, new, kind) ==
    [node \in DOMAIN tree \cup {new} |-> IF node \in DOMAIN tree THEN tree[node] ELSE kind]

\* The next place of a list, or another key of an object.
AddNode ==
    /\ subject = "data" /\ Cardinality(DOMAIN input) < MaxNodes
    /\ \E kind \in Kinds :
       \/ input = Nothing /\ input' = Leaf(kind)
       \/ \E parent \in DOMAIN input : \E key \in Keys :
              LET below == {node \in DOMAIN input : Len(node) = Len(parent) + 1 /\ IsPrefix(parent, node)} IN
              /\ Append(parent, key) \notin below
              /\ \/ input[parent] = "object"
                 \/ input[parent] = "list" /\ key = Place(Cardinality(below) + 1)
              /\ input' = WithNode(input, Append(parent, key), kind)
    /\ UNCHANGED subject

Commands == [command : {"go", "other"}, payload : {NoPayload, "p"}, length : {32, 33}]
Plains == {Plain("hi", 2), Plain("bye", 3), Plain("long", 512), Plain("long", 513)}
Updates == {Said(text, byUser) : text \in Commands \cup Plains, byUser \in BOOLEAN}
           \cup {Pressed(button) : button \in 1 .. MaxObjects}
Objects ==
    {CommandTrigger("go", payload, target) : payload \in {NoPayload, "p"}, target \in BOOLEAN}
    \cup {MessageTrigger(for, target) : for \in {<<>>, <<Plain("hi", 2)>>, <<Command("go", NoPayload, 32)>>},
                                        target \in BOOLEAN}
    \cup {Button(text) : text \in Plains \cup {Command("go", NoPayload, 32)}}
AddObject == Grow("dispatch", MaxObjects, Objects)

Longer == AddPart \/ AddToken \/ AddToMessage \/ AddButton \/ AddChar \/ AddNode \/ AddObject
Inputs == Blank /\ [][Longer]_<<subject, input>>

-----------------------------------------------------------------------------

\* A condition leads on as its parts do from left to right, where "and" binds no more
\* closely than "or", and as the values of each part stand to each other.
InOrder == subject = "condition" => (Leads(input) <=> LeftToRight(input))

\* Whatever the tags of a text, what is written of it is nested as the stack says, and in
\* the end it is well nested, which is what Telegram asks of HTML; unless the href of a tag
\* that is left in it brings other tags.
Nested == subject = "html" =>
    LET state == Fed(input) IN
    /\ \/ Spoilt(state.result)
       \/ Pending(state.result) = Kept([k \in DOMAIN state.stack |-> state.stack[k].tag], ALLOWED_TAGS)
    /\ Spoilt(Formatted(input)) \/ Pending(Formatted(input)) = <<>>

\* No piece of text is lost, doubled or moved, however many tags are cut out around it and
\* whatever these bring; the last one may lose its line end.
TextKept == subject = "html" => Texts(Formatted(input)) = Texts(input)

\* A message is sent as a whole: each file once and in its order, in however many groups,
\* and the text once, by the last request, whose answer carries the keyboard.
SentOnce == subject = "message" =>
    LET requests == Requests(input) IN
    /\ \A type \in ToSet(Types) : FilesSent(requests, type) = Interval(1, input.media[type])
    /\ \A k \in DOMAIN requests : requests[k].text => k = Len(requests)
    /\ input.text => requests # <<>> /\ Last(requests).text /\ Last(requests).keyboard = input.keyboard
    /\ input.text \/ \A k \in DOMAIN requests : ~requests[k].text

\* Each button of a keyboard is shown once, in its row and in the order of positions, those
\* at the same place in the order they were given in, and there is a row for every number up
\* to the last one that is used.
ButtonsPlaced == subject = "keyboard" =>
    LET keyboard == Keyboard(input) IN
    /\ Len(keyboard) = Max({0} \cup {input[b].row + 1 : b \in DOMAIN input})
    /\ \A row \in DOMAIN keyboard :
          /\ ToSet(keyboard[row]) = {b \in DOMAIN input : input[b].row + 1 = row}
          /\ \A i, j \in DOMAIN keyboard[row] : i < j =>
                LET one == keyboard[row][i]
                    other == keyboard[row][j]
                IN  \/ input[one].position < input[other].position
                    \/ input[one].position = input[other].position /\ one < other

\* Replacing all placeholders of a text at once, three times over, gives what replacing one
\* after the other gives if it stops at placeholders that stem from three replacements:
\* none is replaced by half, and braces that values bring along are taken as written.
Expanded == subject = "template" =>
    \A text \in {input, Around(input)} : Replaced(text) = OneByOne(Aged(text, 0))

Named(name, value) == [name |-> name, value |-> value]

\* A part of the data an API answered with, or of the only record that has it, is read where
\* it stands, unless a number is a key of an object on the way to it.  Of several records
\* none is read by a name, and a variable of the bot is read by its name only as long as the
\* bot has no other.
ReadBack == subject = "data" /\ input # Nothing =>
    LET bot(records, variables) ==
            [store |-> [r \in {"API_RESPONSE"} |-> input], system |-> {}, hasUser |-> TRUE,
             temporary |-> Nothing, records |-> records, variables |-> variables]
        one == bot(<<input>>, <<Named("name", Leaf("text"))>>)
        two == bot(<<input, input>>, <<Named("name", Leaf("text")), Named("other", Leaf("number"))>>)
    IN
    /\ Get(one, <<"API_RESPONSE">>) = input
    /\ \A path \in DOMAIN input \ {<<>>} :
          /\ Get(one, <<"API_RESPONSE">> \o path) = ReadAt(input, path)
          /\ Get(one, <<"DATABASE">> \o path) = ReadAt(input, path)
          /\ Head(path) \notin Digits => Get(two, <<"DATABASE">> \o path) = Nothing
    /\ Get(one, <<"USER", "name">>) = Leaf("text")
    /\ Get(two, <<"USER", "name">>) = Listed(<<Leaf("text"), Leaf("number")>>)

\* An update starts a trigger once at the most, unless the one that is expected is found by
\* another fetcher as well: as a command, or because nothing leads to it any more.  One in
\* the middle of a flow is started by a message only when it is expected.  A button is started
\* once, and nothing else is by a press or by a message of the bot itself.
StartedOnce == subject = "dispatch" =>
    \A update \in Updates :
    \A expected \in {0} \cup {k \in DOMAIN input : input[k].is # "button"} :
        LET started == Started(input, expected, update) IN
        \A k \in ToSet(started) :
            /\ \/ Cardinality({n \in DOMAIN started : started[n] = k}) = 1
               \/ k = expected /\ (input[k].is = "command" \/ ~input[k].target)
            /\ input[k].is = "message" /\ input[k].target => k = expected
            /\ update.is = "message" \/ update.button = k
            /\ input[k].is = "button" \/ HasText(update)
=============================================================================
