------------------------------ MODULE Variables ------------------------------
(***************************************************************************)
(* Where the value of a variable comes from (src/bot/variables.py).  A key *)
(* is the sequence of its parts, the text between its dots.  Data is a     *)
(* tree: a function from the paths of its nodes to their kinds, where a    *)
(* step of a path is a key of an object or a place in a list.              *)
(***************************************************************************)
EXTENDS Integers, Sequences, SequencesExt, TLC, Filters

Digits == {"0", "1"}
Keys == {"name"} \cup Digits
Kinds == {"object", "list", "text", "number"}

\* None is the tree without nodes.
Nothing == [path \in {} |-> "text"]
Leaf(kind) == [path \in {<<>>} |-> kind]

\* What stands under one key of an object, or at one place of a list.
Below(tree, key) ==
    [path \in {Tail(p) : p \in {q \in DOMAIN tree : q # <<>> /\ Head(q) = key}} |-> tree[<<key>> \o path]]

Place(k) == ToString(k - 1)
Listed(trees) ==
    [path \in {<<>>} \cup UNION {{<<Place(k)>> \o p : p \in DOMAIN trees[k]} : k \in DOMAIN trees} |->
        IF path = <<>> THEN "list"
        ELSE trees[CHOOSE k \in DOMAIN trees : Place(k) = Head(path)][Tail(path)]]

\* Mutant: a number is the key of an object as well.
IndexAny(tree, part) == IF tree # Nothing /\ tree[<<>>] = "text" THEN tree ELSE Below(tree, part)

\* data[int(part) if part.isdigit() else part]; a KeyError, an IndexError and a TypeError
\* give None.  A number is the place in a list or in a text (of one character here), and
\* never the key of an object, whose keys are strings.
Index(tree, part) ==
    IF tree = Nothing THEN Nothing
    ELSE CASE tree[<<>>] = "list" /\ part \in Digits      -> Below(tree, part)
           [] tree[<<>>] = "object" /\ part \notin Digits -> Below(tree, part)
           [] tree[<<>>] = "text" /\ part = "0"           -> tree
           [] OTHER                                       -> Nothing

\* _resolve_value
Resolve(tree, path) == FoldLeft(Index, tree, path)

\* External: the service's filter has_data_path.
WithPath(records, path) == Kept(records, {record \in ToSet(records) : path \in DOMAIN record})

\* _resolve_database_value, of the records its search left: the path leads from the list of
\* all of them when there are several.
DatabaseValue(records, path) ==
    LET found == WithPath(records, path) IN
    CASE Len(found) = 0 -> Nothing
      [] Len(found) = 1 -> Resolve(found[1], path)
      [] OTHER          -> Resolve(Listed(found), path)

\* ServiceClient.get_variables: the name is put in params, and params are not sent, so the
\* service answers with every variable of the bot.
GetVariables(variables, name) == variables

\* _resolve_user_value: a single variable is taken whole, whatever follows its name.
UserValue(variables, path) ==
    LET found == GetVariables(variables, Head(path)) IN
    CASE Len(found) = 0 -> Nothing
      [] Len(found) = 1 -> found[1].value
      [] OTHER          -> Resolve(Listed([k \in DOMAIN found |-> found[k].value]), Tail(path))

\* Variables.get.  The store of a flow holds what handlers added, under keys without a dot.
Get(bot, key) ==
    LET prefix == Head(key)
        nested == Tail(key)
        stored == IF prefix \in DOMAIN bot.store THEN bot.store[prefix] ELSE Nothing
    IN
    CASE nested = <<>>            -> stored
      [] prefix = "SYSTEM"        -> IF nested \in bot.system THEN Leaf("text") ELSE Nothing
      [] prefix = "USER"          -> UserValue(bot.variables, nested)
      [] prefix = "TEMPORARY" /\ bot.hasUser -> Resolve(bot.temporary, nested)
      [] prefix = "DATABASE"      -> DatabaseValue(bot.records, nested)
      [] OTHER -> IF stored # Nothing /\ stored[<<>>] \in {"object", "list"}
                    THEN Resolve(stored, nested) ELSE Nothing

-----------------------------------------------------------------------------
(* A reference: what stands at a path, where names lead into objects and   *)
(* numbers into lists.                                                     *)

ReadAt(tree, path) ==
    IF path \in DOMAIN tree /\ \A k \in DOMAIN path :
           path[k] \in Digits <=> tree[SubSeq(path, 1, k - 1)] = "list"
      THEN [rest \in {SubSeq(p, Len(path) + 1, Len(p)) : p \in {q \in DOMAIN tree : IsPrefix(path, q)}}
               |-> tree[path \o rest]]
      ELSE Nothing
=============================================================================
