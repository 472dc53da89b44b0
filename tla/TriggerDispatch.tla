--------------------------- MODULE TriggerDispatch ---------------------------
(***************************************************************************)
(* Which triggers and keyboard buttons an update starts: the fetchers of   *)
(* Handler in src/bot/handler.py, whose results handle_update chains, with *)
(* the filters of the requests by which they ask the service for them      *)
(* (get_triggers and get_messages_keyboard_buttons in                      *)
(* src/service/client.py).  Each has connections to what it starts.        *)
(***************************************************************************)
EXTENDS Integers, Sequences, Filters

NoPayload == "no payload"

\* The text of a message, of so many characters: "/command payload", or another one.
Command(command, payload, length) == [command |-> command, payload |-> payload, length |-> length]
Plain(text, length) == [command |-> "none", payload |-> text, length |-> length]
IsCommand(text) == text.command # "none"

\* An update: a message, of a user or of the bot itself, or a press on a button.
Said(text, byUser) == [is |-> "message", text |-> text, byUser |-> byUser]
Pressed(button) == [is |-> "callback", button |-> button]
HasText(update) == update.is = "message" /\ update.byUser

\* What a flow may start with: a trigger by a command; one by a message with the text it is
\* for (<<text>>) or with any (<<>>); or a button with its text.  To triggers connections may
\* lead from elsewhere in a flow (target).
Object(is, command, payload, text, target) ==
    [is |-> is, command |-> command, payload |-> payload, text |-> text, target |-> target]
CommandTrigger(command, payload, target) == Object("command", command, payload, <<>>, target)
MessageTrigger(text, target) == Object("message", "none", NoPayload, text, target)
Button(text) == Object("button", "none", NoPayload, <<text>>, FALSE)

-----------------------------------------------------------------------------

\* External: the filters the service has for triggers and buttons.  Its answer has those
\* that meet all filters it is sent.
Attributes(objects, k) ==
    [command |-> objects[k].command, command_payload |-> objects[k].payload,
     has_command_payload |-> objects[k].payload # NoPayload, has_message |-> objects[k].is = "message",
     has_message_text |-> objects[k].text # <<>>, has_target_connections |-> objects[k].target,
     id |-> k, text |-> objects[k].text]
Having(objects, filters) ==
    Kept([k \in DOMAIN objects |-> k],
         {k \in DOMAIN objects : \A name \in DOMAIN filters : Attributes(objects, k)[name] = filters[name]})

\* get_triggers and get_messages_keyboard_buttons: each argument that is given is a filter.
GetTriggers(objects, filters) ==
    Kept(Having(objects, filters), {k \in DOMAIN objects : objects[k].is # "button"})
GetButtons(objects, filters) ==
    Kept(Having(objects, filters), {k \in DOMAIN objects : objects[k].is = "button"})

-----------------------------------------------------------------------------

\* _get_wait_trigger_connections: a command is for any payload unless it names one.
MatchesExpected(trigger, text) ==
    IF trigger.is = "command"
      THEN /\ IsCommand(text) /\ text.command = trigger.command
           /\ trigger.payload \in {NoPayload, text.payload}
      ELSE trigger.text \in {<<>>, <<text>>}
ExpectedTrigger(objects, expected, update) ==
    IF expected # 0 /\ HasText(update) /\ MatchesExpected(objects[expected], update.text)
      THEN <<expected>> ELSE <<>>

\* _get_command_triggers: with this very payload, or without any.
CommandTriggers(objects, text) ==
    IF ~IsCommand(text) \/ text.length > 32 THEN <<>>
    ELSE IF text.payload = NoPayload
      THEN GetTriggers(objects, [command |-> text.command, has_command_payload |-> FALSE])
      ELSE GetTriggers(objects, [command |-> text.command, has_command_payload |-> TRUE,
                                 command_payload |-> text.payload])

For(objects, text) == {k \in DOMAIN objects : objects[k].text = <<text>>}

\* Mutant: message triggers in the middle of a flow are found as well.
AnyMessageTriggers(objects, text) ==
    Kept(GetTriggers(objects, [has_message |-> TRUE, has_message_text |-> TRUE]), For(objects, text))
    \o GetTriggers(objects, [has_message |-> TRUE, has_message_text |-> FALSE])

\* _get_message_triggers: those for this text, then those for any.
MessageTriggers(objects, text) ==
    Kept(GetTriggers(objects, [has_message |-> TRUE, has_message_text |-> TRUE,
                               has_target_connections |-> FALSE]), For(objects, text))
    \o GetTriggers(objects, [has_message |-> TRUE, has_message_text |-> FALSE,
                             has_target_connections |-> FALSE])

\* _get_trigger_connections
Triggers(objects, update) ==
    IF HasText(update)
      THEN CommandTriggers(objects, update.text) \o MessageTriggers(objects, update.text)
      ELSE <<>>

\* _get_message_keyboard_button_connections: by its id or by its text, whoever says it.
Buttons(objects, update) ==
    CASE update.is = "callback" -> GetButtons(objects, [id |-> update.button])
      [] update.is = "message" /\ update.text.length <= 512 -> GetButtons(objects, [text |-> <<update.text>>])
      [] OTHER -> <<>>

\* handle_update: the connections of each one found are run, once for each time it is.
Started(objects, expected, update) ==
    ExpectedTrigger(objects, expected, update) \o Triggers(objects, update) \o Buttons(objects, update)
=============================================================================
