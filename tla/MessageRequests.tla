-------------------------- MODULE MessageRequests --------------------------
(***************************************************************************)
(* The requests with which one message of a flow is sent                   *)
(* (_process_message and _send_media_group in                              *)
(* src/bot/handlers/message/handler.py): the files of each type alone or   *)
(* in groups, and the text with the keyboard as the caption of a single    *)
(* file or in a request of its own.  That a request may raise, and the     *)
(* later ones are not made then, is part of BotMessages.                   *)
(***************************************************************************)
EXTENDS Integers, Sequences, SequencesExt

CONSTANTS
    MIN_MEDIA_LENGTH,    \* files in a media group
    MAX_MEDIA_LENGTH

\* A single file is sent of those that are too few for a group, so no two may be.
ASSUME LengthsAssumption == MAX_MEDIA_LENGTH \in Nat \ {0} /\ MIN_MEDIA_LENGTH \in 1 .. MAX_MEDIA_LENGTH \cap {1, 2}

\* A message has so many files of each type, a text or none, a keyboard or none.
Types == <<"photo", "document">>
Message == [media : [ToSet(Types) -> Nat], text : BOOLEAN, keyboard : BOOLEAN]

Request(kind, type, files, text, keyboard) ==
    [kind |-> kind, type |-> type, files |-> files, text |-> text, keyboard |-> keyboard]
Interval(from, to) == [k \in 1 .. to - from + 1 |-> from + k - 1]
Smaller(a, b) == IF a <= b THEN a ELSE b

\* The single file of this type takes text and keyboard: no type still to come has files.
\* (So no earlier one has taken them, which extras_attached is to prevent.)
Attaches(message, place) ==
    message.text /\ \A k \in place + 1 .. Len(Types) : message.media[Types[k]] = 0

\* Mutant: a slice includes its end.
SliceLong(n, k) == Interval((k - 1) * MAX_MEDIA_LENGTH + 1, Smaller(k * MAX_MEDIA_LENGTH + 1, n))

\* The k-th slice of at most MAX_MEDIA_LENGTH of n files.
Slice(n, k) == Interval((k - 1) * MAX_MEDIA_LENGTH + 1, Smaller(k * MAX_MEDIA_LENGTH, n))

\* Nothing for a type without files; its first file when they are too few for a group.
OfType(message, place) ==
    LET type == Types[place]
        n == message.media[type]
        attach == Attaches(message, place)
    IN
    IF n = 0 THEN <<>>
    ELSE IF n < MIN_MEDIA_LENGTH
      THEN <<Request("file", type, <<1>>, attach, attach /\ message.keyboard)>>
      ELSE [k \in 1 .. (n + MAX_MEDIA_LENGTH - 1) \div MAX_MEDIA_LENGTH |->
               Request("group", type, Slice(n, k), FALSE, FALSE)]

\* The text that no file took comes last; a message without files has this request alone.
Requests(message) ==
    LET ofFiles == FlattenSeq([place \in DOMAIN Types |-> OfType(message, place)])
        attached == \E k \in DOMAIN ofFiles : ofFiles[k].text
    IN  IF message.text /\ ~attached
          THEN Append(ofFiles, Request("text", "none", <<>>, TRUE, message.keyboard))
          ELSE ofFiles

-----------------------------------------------------------------------------
(* The keyboard (build_keyboard in src/bot/handlers/message/utils.py): a   *)
(* button has a row and a position in it, both from 0.                     *)

\* Mutant: sorted by the row alone.
InRowOrder(a, b) == a.row < b.row
InOrderOfPlace(a, b) == a.row < b.row \/ (a.row = b.row /\ a.position < b.position)

\* sorted is stable: buttons that stand at the same place keep their order.
Sorted(buttons) ==
    LET before(j, k) == InOrderOfPlace(buttons[j], buttons[k])
                        \/ (~InOrderOfPlace(buttons[k], buttons[j]) /\ j < k)
    IN  CHOOSE sorted \in [DOMAIN buttons -> DOMAIN buttons] :
            \A i, j \in DOMAIN buttons : i < j => before(sorted[i], sorted[j])

\* Rows are added up to that of the button, which becomes the last one of its row.
WithButton(keyboard, button, row) ==
    [k \in 1 .. Len(keyboard) + IF row > Len(keyboard) THEN row - Len(keyboard) ELSE 0 |->
        (IF k <= Len(keyboard) THEN keyboard[k] ELSE <<>>) \o (IF k = row THEN <<button>> ELSE <<>>)]
Keyboard(buttons) ==
    FoldLeft(LAMBDA keyboard, b : WithButton(keyboard, b, buttons[b].row + 1), <<>>, Sorted(buttons))

-----------------------------------------------------------------------------

\* The files of a type in the order in which requests send them.
FilesSent(requests, type) == FlattenSeq([k \in DOMAIN requests |->
    IF requests[k].type = type THEN requests[k].files ELSE <<>>])
=============================================================================
