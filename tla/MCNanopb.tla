------------------------------ MODULE MCNanopb ------------------------------
(* Descriptors of every kind of field, and the values at their borders.    *)
EXTENDS Nanopb

Scalars == <<PB_REQUIRED_STATIC(1, PB_LTYPE_MAP("INT32"), 4, <<>>),
             PB_OPTIONAL_STATIC(2, PB_LTYPE_MAP("SINT32"), 1, <<>>),
             PB_SINGULAR_STATIC(3, PB_LTYPE_MAP("UINT64"), 8, <<>>),
             PB_OPTIONAL_STATIC(4, PB_LTYPE_MAP("FLOAT"), 4, <<7>>)>>
Arrays == <<PB_REPEATED_STATIC(1, PB_LTYPE_MAP("UINT32"), 4, 2, <<>>),
            PB_REPEATED_STATIC(2, PB_LTYPE_MAP("STRING"), 3, 1, <<>>),
            PB_REPEATED_STATIC(3, PB_LTYPE_MAP("DOUBLE"), 8, 1, <<>>)>>
Callback(tag, funcs, kind) == PB_OPTIONAL_CALLBACK(tag, PB_LTYPE_MAP("UINT64"), funcs, kind)
Inner == <<PB_REPEATED_STATIC(1, PB_LTYPE_MAP("ENUM"), 2, 2, <<>>),
           PB_OPTIONAL_STATIC(2, PB_LTYPE_MAP("BYTES"), 6, <<>>),
           Callback(3, TRUE, "steady")>>
Nested == <<PB_OPTIONAL_STATIC(1, PB_LTYPE_MAP("MESSAGE"), 0, Inner),
            Callback(2, TRUE, "steady"), Callback(4, FALSE, "steady"),
            PB_REPEATED_STATIC(3, PB_LTYPE_MAP("MESSAGE"), 0, 1, SubSeq(Inner, 1, 2)),
            PB_OPTIONAL_STATIC(5, PB_LTYPE_MAP("MESSAGE"), 0, <<Callback(1, TRUE, "fickle")>>)>>
Pair == <<PB_SINGULAR_STATIC(1, PB_LTYPE_MAP("UENUM"), 1, <<>>),
          PB_SINGULAR_STATIC(2, PB_LTYPE_MAP("STRING"), 2, <<>>)>>
OneOf == <<PB_ONEOF_STATIC(1, PB_LTYPE_MAP("UENUM"), 1, <<>>),
           PB_ONEOF_STATIC(2, PB_LTYPE_MAP("MESSAGE"), 0, Pair),
           PB_SINGULAR_STATIC(3, PB_LTYPE_MAP("MESSAGE"), 0, Pair),
           PB_REQUIRED_STATIC(4, PB_LTYPE_MAP("FIXED_LENGTH_BYTES"), 2, <<>>),
           PB_SINGULAR_STATIC(5, PB_LTYPE_MAP("EXTENSION"), 0,
                 <<PB_OPTEXT_STATIC(6, PB_LTYPE_MAP("FIXED32"), 4, <<>>),
                   PB_OPTEXT_STATIC(7, PB_LTYPE_MAP("BOOL"), 1, <<>>)>>)>>
Pointers == <<PB_REQUIRED_POINTER(1, PB_LTYPE_MAP("UINT32"), 4, <<>>),
              PB_OPTIONAL_POINTER(2, PB_LTYPE_MAP("STRING"), 1, <<>>)>>
\* A field no integer type fits: "invalid data_size"
Odd == <<PB_SINGULAR_STATIC(1, PB_LTYPE_MAP("INT32"), 3, <<>>),
         PB_SINGULAR_STATIC(2, PB_LTYPE_MAP("STRING"), 3, <<>>)>>
MCSchemas == {Scalars, Arrays, Nested, OneOf, Pointers, Odd, <<>>}

Message(fields, vals) == [t \in {fields[i].tag : i \in DOMAIN fields} |->
                             vals[CHOOSE i \in DOMAIN fields : fields[i].tag = t]]
InnerMsg(a, b, c) == Message(Inner, <<a, b, c>>)
PairMsg(a, b) == Message(Pair, <<a, b>>)
Exts(a, b) == <<pb_extension(FALSE, a), pb_extension(FALSE, b)>>

MCSamples(fields) ==
    CASE fields = Scalars ->
           {Message(Scalars, <<a, b, c, d>>) :
               a \in {-512, 511}, b \in {<<>>, <<-128>>, <<127>>},
               c \in {0, 2^20 - 1}, d \in {<<>>, <<300>>}}
      [] fields = Arrays ->
           {Message(Arrays, <<a, b, c>>) :
               a \in {<<>>, <<1023>>, <<0, 128>>}, b \in {<<>>, <<<<65, 66>>>>}, c \in {<<>>, <<70000>>}}
      [] fields = Nested ->
           {Message(Nested, <<a, b, <<>>, c, <<>>>>) :
               a \in {<<>>} \cup {<<InnerMsg(x, y, z)>> : x \in {<<-256>>, <<1, 255>>},
                                        y \in {<<>>, <<<<9, 9>>>>}, z \in {<<>>, <<6>>}},
               b \in {<<>>, <<5, 300>>},
               c \in {<<>>, <<Message(SubSeq(Inner, 1, 2), <<<<3>>, <<>>>>)>>}}
           \cup {Message(Nested, <<<<>>, <<>>, <<>>, <<>>, <<Message(<<Callback(1, TRUE, "fickle")>>, <<<<1>>>>)>>>>)}
      [] fields = OneOf ->
           {Message(OneOf, <<u[1], u[2], p, <<1, 2>>, Exts(e, -1)>>) :
               u \in {<<<<>>, <<>>>>, <<<<5>>, <<>>>>, <<<<>>, <<PairMsg(1, <<>>)>>>>,
                      <<<<>>, <<PairMsg(0, <<66>>)>>>>},
               p \in {PairMsg(0, <<>>), PairMsg(2, <<>>)}, e \in {0, 4}}
      [] fields = Pointers ->
           {Message(Pointers, <<a, b>>) : a \in {<<>>, <<9>>}, b \in {<<>>, <<<<65, 66>>>>}}
      [] fields = Odd ->
           {Message(Odd, <<a, b>>) : a \in {0, 1}, b \in {<<>>, <<65, 66>>}}
      [] fields = <<>> -> {Message(<<>>, <<>>)}

MCUnknowns == {<<120, 129, 1>>, <<122, 2, 8, 1>>, <<125, 0, 0, 0, 0>>,
               <<121, 0, 0, 0, 0, 0, 0, 0, 0>>}
\* The last ones announce more bytes than fit a uint32_t with what goes with them.
MCRaw == (UNION {[1..n -> {0, 8, 10, 26, 129}] : n \in 0..3}) \cup UNION {[1..n -> {1, 3, 18}] : n \in 1..2}
         \cup {<<18, 255, 7>>, <<18, 254, 7>>, <<10, 3, 18, 255, 7>>}
=============================================================================
