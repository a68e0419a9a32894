----------------------------- MODULE Conversions -----------------------------
(***************************************************************************)
(* conversions.rs: values between Python and JSON, and the change that     *)
(* push_change makes of a mapping.                                         *)
(*                                                                         *)
(* A Python value is a pair of its type and what it holds; a dict holds a  *)
(* sequence of its items.  A JSON value is such a pair too, its object a   *)
(* function.  Text is a token, and a str that has no UTF-8, a surrogate    *)
(* among its characters, a type of its own; but the keys that              *)
(* json_to_py_snake rewrites are sequences of letters                      *)
(* <<letter, is a capital>>.                                               *)
(* A state is one value on its way through the functions.                  *)
(***************************************************************************)
EXTENDS Integers, Sequences

CONSTANTS
  Half,      \* i64 ends one below this number, u64 one below twice this number
  PyValues,  \* Python values, and the values in them
  Letters,   \* of the keys json_to_py_snake is given
  Trees,     \* JSON values given to it, and the values in them
  Changes,   \* Python values given to source_change_from_py
  Depth(_)   \* how deep a Python or JSON value nests

ASSUME HalfAssumption == Half \in Nat \ {0}

\* "sequence" is what else is a PySequence: bytes, a bytearray, a range, a deque.
SequenceTypes == {"list", "tuple", "sequence"}
Types == {"none", "bool", "str", "surrogates", "int", "float", "dict", "other"}
         \union SequenceTypes
JsonTypes == {"none", "bool", "str", "number", "float", "array", "object"}

\* The values that v, of Python or JSON, holds.
Parts(v) ==
  IF v[1] = "dict" THEN {v[2][i][2] : i \in DOMAIN v[2]}
  ELSE IF v[1] \in SequenceTypes \union {"array", "object"} THEN {v[2][i] : i \in DOMAIN v[2]}
  ELSE {}

\* V has the parts of its values, and none is inside itself.
Nest(V) ==
  /\ UNION {Parts(v) : v \in V} \subseteq V
  /\ \A v \in V : Depth(v) \in Nat /\ \A w \in Parts(v) : Depth(w) < Depth(v)

ASSUME PyValuesAssumption ==
  /\ Nest(PyValues)
  /\ \A v \in PyValues :
       /\ v = <<v[1], v[2]>> /\ v[1] \in Types
       /\ v[1] = "int" => v[2] \in Int
       /\ v[1] \in SequenceTypes \union {"dict"} =>
            Len(v[2]) \in Nat /\ DOMAIN v[2] = 1 .. Len(v[2])

Separator == <<"_", FALSE>>
Signs == (Letters \X BOOLEAN) \union {Separator}
Texts == Seq(Signs)

\* The engine's types have their keys in camelCase; the maps of a GraphSchema have the
\* labels of the application for theirs.
ASSUME TreesAssumption ==
  /\ Nest(Trees)
  /\ \A t \in Trees : t[1] \in JsonTypes
  /\ \A t \in Trees : t[1] = "object" => DOMAIN t[2] \subseteq Texts

ASSUME ChangesAssumption ==
  UNION {{c[2][key] : key \in DOMAIN c[2]} : c \in {c \in Changes : c[1] = "dict"}}
    \subseteq PyValues

VARIABLES
  task,   \* what is asked for: "value", "tree", "change"
  input,  \* what it is asked of
  json,   \* the JSON in between
  output  \* what came of it

conversionVars == <<task, input, json, output>>

I64 == -Half .. Half - 1
\* Mutant of U64: one too many
U64TooWide == 0 .. 2 * Half

U64 == 0 .. 2 * Half - 1

Null == <<"none", 0>>
Nothing == <<"nothing", 0>>
Refused(code) == <<"refused", code>>
IsRefused(v) == v[1] = "refused"

-----------------------------------------------------------------------------
(* Python to JSON and back.  Each conversion is a step, given what the     *)
(* conversion makes of the parts of a value, and the function that has it  *)
(* for its step.                                                           *)

\* A key given twice keeps the last item; a dict cannot, but a mapping may.
Key(v, i) == v[2][i][1][2]
Keys(v) == {Key(v, i) : i \in DOMAIN v[2]}
LastUnder(v, key) ==
  CHOOSE i \in DOMAIN v[2] :
    Key(v, i) = key /\ \A j \in DOMAIN v[2] : Key(v, j) = key => j <= i

FirstRefused(results) ==
  results[CHOOSE i \in DOMAIN results : /\ IsRefused(results[i])
                                        /\ \A j \in 1 .. i - 1 : ~IsRefused(results[j])]
SomeRefused(results) == \E i \in DOMAIN results : IsRefused(results[i])

\* A key is looked at before its item is converted.
ItemToJson(f, item) ==
  CASE item[1][1] = "str"        -> f[item[2]]
    [] item[1][1] = "surrogates" -> Refused("UnicodeEncodeError")
    [] OTHER                     -> Refused("ConfigInvalid")

\* py_to_json.  A Python bool is an int as well, so it is looked at first.
IsInt(v) == v[1] \in {"int", "bool"}
Number(v) == IF v[1] = "bool" THEN (IF v[2] THEN 1 ELSE 0) ELSE v[2]

PyToJson(f, v) ==
  IF v[1] \in {"none", "bool", "str"} THEN v
  ELSE IF v[1] = "surrogates" THEN Refused("UnicodeEncodeError")
  ELSE IF IsInt(v)
  THEN IF v[2] \in I64 \union U64 THEN <<"number", v[2]>> ELSE Refused("ConfigInvalid")
  ELSE IF v[1] = "float"
  THEN IF v[2] \in {"nan", "inf"} THEN Refused("ConfigInvalid") ELSE v
  ELSE IF v[1] = "dict"
  THEN LET values == [i \in DOMAIN v[2] |-> ItemToJson(f, v[2][i])]
       IN IF SomeRefused(values) THEN FirstRefused(values)
          ELSE <<"object", [key \in Keys(v) |-> values[LastUnder(v, key)]]>>
  ELSE IF v[1] \in SequenceTypes
  THEN LET values == [i \in DOMAIN v[2] |-> f[v[2][i]]]
       IN IF SomeRefused(values) THEN FirstRefused(values) ELSE <<"array", values>>
  ELSE Refused("ConfigInvalid")

py_to_json[v \in PyValues] == PyToJson(py_to_json, v)

\* The JSON values there are.
JsonValues ==
  {py_to_json[v] : v \in {v \in PyValues : ~IsRefused(py_to_json[v])}}

\* json_to_py, a dict as the function from its keys.
ScalarToPy(v) == IF v[1] = "number" THEN <<"int", v[2]>> ELSE v
JsonToPy(f, v) ==
  CASE v[1] = "array"  -> <<"list", [i \in DOMAIN v[2] |-> f[v[2][i]]]>>
    [] v[1] = "object" -> <<"dict", [key \in DOMAIN v[2] |-> f[v[2][key]]]>>
    [] OTHER -> ScalarToPy(v)

json_to_py[v \in JsonValues] == JsonToPy(json_to_py, v)

\* camel_to_snake: a capital becomes small, with a separator before it if not first.
Small(letter) == <<letter[1], FALSE>>
CamelToSnake(f, key) ==
  IF key = <<>> THEN <<>>
  ELSE LET init == SubSeq(key, 1, Len(key) - 1)
           last == key[Len(key)]
           before == IF last[2] /\ init # <<>> THEN Append(f[init], Separator) ELSE f[init]
       IN Append(before, Small(last))

camel_to_snake[key \in Texts] == CamelToSnake(camel_to_snake, key)

\* json_to_py_snake; of two keys that become the same, one item is left, the last in
\* the order of the map.
JsonToPySnake(f, v) ==
  CASE v[1] = "array"  -> <<"list", [i \in DOMAIN v[2] |-> f[v[2][i]]]>>
    [] v[1] = "object" ->
         <<"dict", [snake \in {camel_to_snake[key] : key \in DOMAIN v[2]} |->
                      f[v[2][CHOOSE key \in DOMAIN v[2] : camel_to_snake[key] = snake]]]>>
    [] OTHER -> ScalarToPy(v)

json_to_py_snake[v \in Trees] == JsonToPySnake(json_to_py_snake, v)

-----------------------------------------------------------------------------
(* Changes: a mapping is a function from the keys it has                   *)

START_ID_KEYS == <<"start_id", "startId", "in_id", "inId">>
END_ID_KEYS == <<"end_id", "endId", "out_id", "outId">>
EFFECTIVE_FROM_KEYS == <<"effective_from", "effectiveFrom">>

\* The value under the first of the keys that are good.
FirstOf(change, keys, good) ==
  IF good = {} THEN Nothing
  ELSE change[keys[CHOOSE i \in good : \A j \in good : i <= j]]

\* Mutant of Lookup: None shadows the other spellings
LookupShadowed(change, keys) ==
  LET value == FirstOf(change, keys, {i \in DOMAIN keys : keys[i] \in DOMAIN change})
  IN IF value = Null THEN Nothing ELSE value

\* lookup: the first key that holds something other than None.
Lookup(change, keys) ==
  FirstOf(change, keys,
          {i \in DOMAIN keys : keys[i] \in DOMAIN change /\ change[keys[i]] # Null})

\* ChangeOp::parse; blanks around the word and its case do not matter.
ParseOp(text) ==
  CASE text.word \in {"insert", "add"} -> <<"op", "insert">>
    [] text.word = "update" -> <<"op", "update">>
    [] text.word \in {"delete", "remove"} -> <<"op", "delete">>
    [] OTHER -> Refused("UnknownChangeOp")

RequiredStr(change, key, code) ==
  LET value == Lookup(change, <<key>>)
  IN IF value[1] = "str" THEN value ELSE Refused(code)

Op(change) ==
  LET text == RequiredStr(change, "op", "ChangeOpRequired")
  IN IF IsRefused(text) THEN text ELSE ParseOp(text[2])

\* labels: any sequence of strings, and a string is none.
Labels(change) ==
  LET value == Lookup(change, <<"labels">>)
  IN IF value = Nothing THEN <<"labels", <<>>>>
     ELSE IF value[1] \in SequenceTypes /\ \A i \in DOMAIN value[2] : value[2][i][1] = "str"
     THEN <<"labels", [i \in DOMAIN value[2] |-> value[2][i][2]]>>
     ELSE Refused("ConfigInvalid")

EffectiveFrom(change) ==
  LET value == Lookup(change, EFFECTIVE_FROM_KEYS)
  IN IF value = Nothing THEN <<"time", 0>>
     ELSE IF IsInt(value) /\ Number(value) \in U64 THEN <<"time", Number(value)>>
     ELSE Refused("ConfigInvalid")

Properties(change) ==
  LET value == Lookup(change, <<"properties">>)
      object == py_to_json[value]
  IN IF value = Nothing THEN <<"object", [key \in {} |-> 0]>>
     ELSE IF object[1] \in {"object", "refused"} THEN object ELSE Refused("ConfigInvalid")

\* An end of a relation, if the mapping names one.
End(change, keys) ==
  LET value == Lookup(change, keys)
  IN IF value[1] \in {"nothing", "str"} THEN value ELSE Refused("ConfigInvalid")

\* source_change_from_py: the first part that is refused refuses the change.
SourceChange(change) ==
  LET op == Op(change)
      id == RequiredStr(change, "id", "ChangeIdRequired")
      labels == Labels(change)
      time == EffectiveFrom(change)
      start == End(change, START_ID_KEYS)
      end == End(change, END_ID_KEYS)
      ends == IF (start = Nothing) # (end = Nothing)
              THEN Refused("RelationRequiresBothEnds") ELSE <<"ends", 0>>
      metadata == <<op, id, labels, time>>
      parts == <<op, id, labels, time, start, end, ends, Properties(change)>>
  IN IF SomeRefused(metadata) THEN FirstRefused(metadata)
     ELSE IF op[2] = "delete"
     THEN <<"change", [op |-> "delete", id |-> id, labels |-> labels[2], time |-> time[2]]>>
     ELSE IF SomeRefused(parts) THEN FirstRefused(parts)
     ELSE <<"change", [op |-> op[2], id |-> id, labels |-> labels[2], time |-> time[2],
                       start |-> start, end |-> end, properties |-> parts[8]]>>

SourceChangeFromPy(value) ==
  IF value[1] = "dict" THEN SourceChange(value[2]) ELSE Refused("ChangeNotObject")

-----------------------------------------------------------------------------
ConversionsInit ==
  /\ \/ task = "value" /\ input \in PyValues
     \/ task = "tree" /\ input \in Trees
     \/ task = "change" /\ input \in Changes
  /\ json = Nothing
  /\ output = Nothing

ToJson ==
  /\ task = "value" /\ json = Nothing
  /\ json' = py_to_json[input]
  /\ UNCHANGED <<task, input, output>>

ToPython ==
  /\ output = Nothing
  /\ \/ task = "value" /\ json # Nothing /\ ~IsRefused(json) /\ output' = json_to_py[json]
     \/ task = "tree" /\ output' = json_to_py_snake[input]
  /\ UNCHANGED <<task, input, json>>

ToChange ==
  /\ task = "change" /\ output = Nothing
  /\ output' = SourceChangeFromPy(input)
  /\ UNCHANGED <<task, input, json>>

ConversionsNext == ToJson \/ ToPython \/ ToChange
ConversionsSpec == ConversionsInit /\ [][ConversionsNext]_conversionVars

-----------------------------------------------------------------------------
(* What a caller is promised, each said without the functions above        *)

\* A Python value that JSON has a form for, at every depth.
HasForm(f, v) ==
  \/ v[1] \in {"none", "bool", "str"}
  \/ v[1] = "int" /\ v[2] >= -Half /\ v[2] < 2 * Half
  \/ v[1] = "float" /\ v[2] \notin {"nan", "inf"}
  \/ v[1] \in SequenceTypes /\ \A w \in Parts(v) : f[w]
  \/ v[1] = "dict" /\ \A i \in DOMAIN v[2] : v[2][i][1][1] = "str" /\ f[v[2][i][2]]

has_form[v \in PyValues] == HasForm(has_form, v)

\* What v is when it comes back: a sequence is a list, bytes one of integers, and
\* everything else is as it was.
Returned(f, v) ==
  IF v[1] \in SequenceTypes THEN <<"list", [i \in DOMAIN v[2] |-> f[v[2][i]]]>>
  ELSE IF v[1] = "dict" THEN <<"dict", [key \in Keys(v) |-> f[v[2][LastUnder(v, key)][2]]]>>
  ELSE v

returned[v \in PyValues] == Returned(returned, v)

\* Keys that may become the same: one has a separator already, or they differ in
\* whether they begin with a capital.
HasSeparator(key) == \E i \in DOMAIN key : key[i][1] = Separator[1]
Uncapped(key) == [i \in DOMAIN key |-> IF i = 1 THEN Small(key[i]) ELSE key[i]]
Alike(k1, k2) == HasSeparator(k1) \/ HasSeparator(k2) \/ Uncapped(k1) = Uncapped(k2)

\* The dict made of a JSON object has no capital in its keys, nothing that is not the
\* object's, and, at every depth, each of the object's items, save that of items
\* under keys that are alike it may have one.
Rewritten(f, p) ==
  LET v == p[1]
      w == p[2]
  IN IF v[1] = "object"
     THEN /\ w[1] = "dict"
          /\ \A s \in DOMAIN w[2] : \A i \in DOMAIN s : ~s[i][2]
          /\ \E key \in [DOMAIN v[2] -> DOMAIN w[2]] :
               /\ \A k1, k2 \in DOMAIN v[2] : key[k1] = key[k2] => Alike(k1, k2)
               /\ \A s \in DOMAIN w[2] :
                    \E k \in DOMAIN v[2] : key[k] = s /\ f[<<v[2][k], w[2][s]>>]
     ELSE IF v[1] = "array"
     THEN /\ w[1] = "list" /\ DOMAIN w[2] = DOMAIN v[2]
          /\ \A i \in DOMAIN v[2] : f[<<v[2][i], w[2][i]>>]
     ELSE w = ScalarToPy(v)

Snakes == {json_to_py_snake[t] : t \in Trees}
rewritten[p \in Trees \X Snakes] == Rewritten(rewritten, p)

\* What is put into properties or a configuration is what a query or a callback
\* gets out: no True turns into 1 (conversions.rs:43), no integer wraps or loses
\* its sign between the two 64-bit ranges, and what JSON cannot hold, a string that
\* has no UTF-8 included, is refused wherever it is nested.  Keys the engine writes
\* come out in snake case, and of two items one takes the place of the other only
\* where a key has a separator or they differ in the capital they begin with, which
\* keys in camelCase never do and labels may (conversions.rs:147-187).
ValuesSurvive ==
  /\ task = "value" /\ json # Nothing => (IsRefused(json) <=> ~has_form[input])
  /\ task = "value" /\ output # Nothing => output = returned[input]
  /\ task = "tree" /\ output # Nothing => rewritten[<<input, output>>]

\* The values given under any spelling of a field; None is not given.
Given(change, keys) ==
  {change[key] : key \in {keys[i] : i \in DOMAIN keys} \intersect DOMAIN change} \ {Null}
Synonyms == [insert |-> {"insert", "add"}, update |-> {"update"},
             delete |-> {"delete", "remove"}]
Words == UNION {Synonyms[op] : op \in DOMAIN Synonyms}
Strings(values) == \A v \in values : v[1] = "str"

\* A change is what the mapping describes, whichever spelling it uses and with
\* None for what it leaves out (conversions.rs:17-19, 618-622): an accepted change has
\* the operation, the identity and the labels given, it is a relation when both ends
\* are given and a node when neither is, and nothing in it was not given.  A mapping
\* is refused only for what is wrong with it; one that names one end is, unless it
\* deletes, and a delete asks only for what identifies the element.
ChangeFaithful ==
  (task = "change" /\ output # Nothing /\ input[1] = "dict") =>
  LET change == input[2]
      starts == Given(change, START_ID_KEYS)
      ends == Given(change, END_ID_KEYS)
      times == Given(change, EFFECTIVE_FROM_KEYS)
      labels == Given(change, <<"labels">>)
      ops == Given(change, <<"op">>)
      deletes == \E v \in ops : v[1] = "str" /\ v[2].word \in {"delete", "remove"}
  IN IF ~IsRefused(output)
     THEN LET made == output[2] IN
          /\ Given(change, <<"id">>) = {made.id}
          /\ \E v \in ops : v[1] = "str" /\ v[2].word \in Synonyms[made.op]
          /\ labels = {} => made.labels = <<>>
          /\ \A v \in labels : /\ DOMAIN made.labels = DOMAIN v[2]
                               /\ \A i \in DOMAIN v[2] : v[2][i] = <<"str", made.labels[i]>>
          /\ made.time \in {Number(v) : v \in times} \/ (made.time = 0 /\ times = {})
          /\ made.op # "delete" =>
               /\ made.start \in starts \/ (starts = {} /\ made.start = Nothing)
               /\ made.end \in ends \/ (ends = {} /\ made.end = Nothing)
               /\ starts = {} <=> ends = {}
               /\ \A v \in Given(change, <<"properties">>) : json_to_py[made.properties] = returned[v]
     ELSE \/ ops = {} \/ ~Strings(ops) \/ \E v \in ops : v[2].word \notin Words
          \/ Given(change, <<"id">>) = {} \/ ~Strings(Given(change, <<"id">>))
          \/ \E v \in labels :
               v[1] \notin SequenceTypes \/ ~Strings({v[2][i] : i \in DOMAIN v[2]})
          \/ \E v \in times : v[1] \notin {"int", "bool"} \/ Number(v) < 0 \/ Number(v) >= 2 * Half
          \/ /\ ~deletes
             /\ \/ (starts = {}) # (ends = {}) \/ ~Strings(starts \union ends)
                \/ \E v \in Given(change, <<"properties">>) : v[1] # "dict" \/ ~has_form[v]

\* The comment on camel_to_snake (conversions.rs:169-170): a key that contains separators
\* already is left alone.
SeparatedKeysAlone ==
  (task = "tree" /\ output # Nothing /\ input[1] = "object") =>
    \A key \in DOMAIN input[2] : HasSeparator(key) => key \in DOMAIN output[2]

=============================================================================
