---------------------------- MODULE MCConversions ----------------------------
(***************************************************************************)
(* Inputs of Conversions for TLC: integers on both sides of each bound,    *)
(* values nested twice, keys of up to three letters with capitals and      *)
(* separators anywhere, and mappings that use one or two spellings of a    *)
(* field.                                                                  *)
(***************************************************************************)
EXTENDS Conversions, TLC

None == Null
Word(word, written) == <<"str", [word |-> word, written |-> written]>>
Str(word) == Word(word, "plain")
Surrogates == <<"surrogates", "udc80">>
Ints == {<<"int", n>> : n \in -Half - 1 .. 2 * Half}
Scalars == {None, <<"bool", TRUE>>, <<"bool", FALSE>>, Str("a"), <<"float", "1.0">>,
            <<"float", "nan">>, <<"float", "inf">>, <<"other", "module">>, Surrogates}
           \union Ints
SeqsOf(S) == {<<>>} \union {<<x>> : x \in S} \union {<<x, y>> : x \in S, y \in S}
Items(S) == {<<>>} \union {<<<<Str("a"), x>>>> : x \in S}
            \union {<<<<Str("a"), x>>, <<Str("b"), y>>>> : x, y \in S}
            \union {<<<<key, x>>>> : key \in {<<"int", 1>>, Surrogates}, x \in S}
Containers(S) == {<<type, s>> : type \in SequenceTypes, s \in SeqsOf(S)}
                 \union {<<"dict", s>> : s \in Items(S)}
Few == {<<"bool", TRUE>>, <<"int", 2 * Half>>, Surrogates}
Values == Scalars \union Containers(Scalars) \union Containers(Containers(Few))

RECURSIVE MCDepth(_)
MCDepth(v) ==
  LET depths == {MCDepth(w) : w \in Parts(v)}
  IN IF depths = {} THEN 0 ELSE 1 + CHOOSE d \in depths : \A e \in depths : e <= d

\* Labels and camelCase.
MCLetters == {"x", "y"}
Signed == {<<"x", FALSE>>, <<"x", TRUE>>, Separator}
TreeKeys == SeqsOf(Signed \union {<<"y", FALSE>>}) \union {<<f>> \o s : f \in Signed, s \in SeqsOf(Signed)}
Pairs == {{k1, k2} : k1, k2 \in TreeKeys}
Objects(S) == {<<"object", f>> : f \in UNION {[ks -> S] : ks \in Pairs}}
Leaves == {<<"number", 1>>, Str("a")}
Nested == {<<"object", <<<<"y", FALSE>>, <<"x", TRUE>>>> :> leaf>> : leaf \in Leaves}
Arrays == {<<"array", <<tree>>>> : tree \in Nested}
MCTrees == Leaves \union Objects(Leaves) \union Arrays \union Objects(Arrays)

\* A mapping that has the key with one of the values, or not at all.
Maybe(key, S) == {<<>>} \union {key :> v : v \in S}
Merge(S, T) == {f @@ g : f \in S, g \in T}
OneOf(keys, S) == UNION {Maybe(keys[i], S) : i \in DOMAIN keys}

Ops == {None, <<"int", 1>>, Surrogates} \union
       {Word(w, "plain") : w \in {"insert", "add", "update", "delete", "remove", "upsert"}}
       \union {Word("add", "padded"), Word("remove", "capitals")}
Plain == {"op" :> Word(w, "plain") : w \in {"insert", "update", "delete"}}
Id == {"id" :> Str("e")}
Ends == {None, Str("a"), Surrogates, <<"int", 1>>}
Starts(S) == Merge(OneOf(START_ID_KEYS, S), OneOf(START_ID_KEYS, S))
Labelled == {None, <<"list", <<>>>>, <<"tuple", <<Str("L")>>>>,
             <<"sequence", <<Str("L"), Str("a")>>>>, <<"list", <<Str("L"), <<"int", 1>>>>>>,
             <<"tuple", <<Surrogates>>>>, Str("L")}
Times == {None, <<"int", -1>>, <<"int", 2 * Half - 1>>, <<"int", 2 * Half>>,
          <<"bool", TRUE>>, <<"float", "1.0">>}
Props == {None, <<"dict", <<>>>>, <<"dict", <<<<Str("a"), <<"bool", TRUE>>>>>>>>,
          <<"dict", <<<<Str("a"), <<"float", "nan">>>>>>>>, <<"list", <<>>>>,
          <<"dict", <<<<Surrogates, <<"bool", TRUE>>>>>>>>}

MCPyValues == Values \union {Str("b"), Str("e"), Str("L")} \union Ops \union Labelled \union Props
MCChanges ==
  {<<"list", <<>>>>, None} \union
  {<<"dict", f>> : f \in
     Merge(Merge(Maybe("op", Ops), Maybe("id", {None, Str("e"), <<"int", 1>>})),
           Merge(Maybe("start_id", {Str("a")}), Maybe("end_id", {Str("b")})))
     \union Merge(Merge(Plain, Id), Merge(Starts(Ends), OneOf(END_ID_KEYS, Ends)))
     \union Merge(Merge(Merge(Plain, Id), Maybe("labels", Labelled)),
                  Merge(Merge(Maybe("effective_from", Times), Maybe("effectiveFrom", Times)),
                        Maybe("properties", Props)))}

=============================================================================
