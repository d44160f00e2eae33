------------------------------- MODULE Nanopb -------------------------------
(***************************************************************************)
(* nanopb 0.3.8 (Pods/nanopb): pb_encode and pb_decode over field          *)
(* descriptors, as this project builds it: PB_FIELD_32BIT, no              *)
(* PB_ENABLE_MALLOC.                                                       *)
(*                                                                         *)
(* A byte is a number below 256 and a varint carries 7 bits a byte, as in  *)
(* the code; the integer types have W8 to W64 bits, few enough to          *)
(* enumerate.  A stream is its bytes w, the bytes consumed `at', and       *)
(* bytes_left.  What a failed call leaves in dest_struct is not modelled.  *)
(* A field is the record pb_field makes: `size' is data_size, `has' says    *)
(* that there is a has_ or a callback, `ptr' is the fields of a submessage *)
(* or the default value.  A message is a function from tags                *)
(* to contents: <<>> or <<v>> for a field with has_ or a pointer, v for one *)
(* without, a sequence for a repeated one, <<>> or <<v>> for the members of a oneof   *)
(* (at most one is not <<>>), and what a callback collected.               *)
(***************************************************************************)
EXTENDS Integers, Sequences, SequencesExt, FiniteSets, FiniteSetsExt

CONSTANTS W8, W16, W32, W64,   \* bits of int_least8_t, int_least16_t, int32_t and int64_t
          WSize                \* bits of size_t
ASSUME WidthAssumption ==
    0 < W8 /\ W8 < W16 /\ W16 < W32 /\ W32 < W64 /\ W64 < 25 /\ WSize \in {W32, W64}

Fail(s) == [ok |-> FALSE, s |-> s, v |-> <<>>]
Done(s, v) == [ok |-> TRUE, s |-> s, v |-> v]
\* Go on with what was read, or return false.
Then(r, F(_, _)) == IF r.ok THEN F(r.s, r.v) ELSE Fail(r.s)

\* What another stream gave, with the stream to go on with.
Result(s, r) == IF r.ok THEN Done(s, r.v) ELSE Fail(s)

Unsigned(v, w) == v % 2^w
Signed(u, w) == IF u % 2^w >= 2^(w - 1) THEN (u % 2^w) - 2^w ELSE u % 2^w

-----------------------------------------------------------------------------
(* Descriptors: a field of a .pb.c file is one of the macros of pb.h.  The *)
(* offsets of the struct are left out.                                     *)

pb_type(atype, htype, ltype) == [at |-> atype, ht |-> htype, lt |-> ltype]
pb_field(tag, type, has, size, array, ptr) ==
    [tag |-> tag, at |-> type.at, ht |-> type.ht, lt |-> type.lt,
     has |-> has, size |-> size, array |-> array, ptr |-> ptr]

\* An integer of any size is one of three LTYPEs, by its sign and coding.
PB_LTYPE_MAP(type) ==
    CASE type \in {"BOOL", "ENUM", "INT32", "INT64"} -> "VARINT"
      [] type \in {"UENUM", "UINT32", "UINT64"} -> "UVARINT"
      [] type \in {"SINT32", "SINT64"} -> "SVARINT"
      [] type \in {"FIXED32", "SFIXED32", "FLOAT"} -> "FIXED32"
      [] type \in {"FIXED64", "SFIXED64", "DOUBLE"} -> "FIXED64"
      [] type = "MESSAGE" -> "SUBMESSAGE"
      [] type \in {"BYTES", "STRING", "EXTENSION", "FIXED_LENGTH_BYTES"} -> type

PB_REQUIRED_STATIC(tag, ltype, size, ptr) ==
    pb_field(tag, pb_type("STATIC", "REQUIRED", ltype), FALSE, size, 0, ptr)
PB_OPTIONAL_STATIC(tag, ltype, size, ptr) ==
    pb_field(tag, pb_type("STATIC", "OPTIONAL", ltype), TRUE, size, 0, ptr)
PB_SINGULAR_STATIC(tag, ltype, size, ptr) ==
    pb_field(tag, pb_type("STATIC", "OPTIONAL", ltype), FALSE, size, 0, ptr)
PB_REPEATED_STATIC(tag, ltype, size, array, ptr) ==
    pb_field(tag, pb_type("STATIC", "REPEATED", ltype), FALSE, size, array, ptr)
PB_REQUIRED_POINTER(tag, ltype, size, ptr) ==
    pb_field(tag, pb_type("POINTER", "REQUIRED", ltype), FALSE, size, 0, ptr)
PB_OPTIONAL_POINTER(tag, ltype, size, ptr) ==
    pb_field(tag, pb_type("POINTER", "OPTIONAL", ltype), FALSE, size, 0, ptr)
\* `funcs': whether the application has set the functions of its
\* pb_callback_s; `ptr' names what they do.
PB_OPTIONAL_CALLBACK(tag, ltype, funcs, ptr) ==
    pb_field(tag, pb_type("CALLBACK", "OPTIONAL", ltype), funcs, 0, 0, ptr)
\* An extension is REQUIRED: OPTIONAL without has_ would be proto3.
PB_OPTEXT_STATIC(tag, ltype, size, ptr) ==
    pb_field(tag, pb_type("STATIC", "REQUIRED", ltype), FALSE, size, 0, ptr)
\* which_ stands for the has_ of all members.
PB_ONEOF_STATIC(tag, ltype, size, ptr) ==
    pb_field(tag, pb_type("STATIC", "ONEOF", ltype), FALSE, size, 0, ptr)

\* The application's list of extensions, one each of the types in ptr.
pb_extension(found, dest) == [found |-> found, dest |-> dest]

-----------------------------------------------------------------------------
(* Input streams.                                                          *)

pb_istream_from_buffer(bytes) == [w |-> bytes, at |-> 0, left |-> Len(bytes)]

\* buf_read and pb_read; a byte is read by the same two steps (pb_readbyte).
pb_read(s, n) ==
    IF s.left < n THEN Fail(s)
    ELSE Done([s EXCEPT !.at = @ + n, !.left = @ - n],
              SubSeq(s.w, s.at + 1, s.at + n))

RECURSIVE VarintFrom(_, _, _, _)
VarintFrom(s, bitpos, result, w) ==
    IF bitpos >= w THEN Fail(s)          \* "varint overflow"
    ELSE Then(pb_read(s, 1), LAMBDA t, b :
           LET value == (result + (b[1] % 128) * 2^bitpos) % 2^w
           IN IF b[1] >= 128 THEN VarintFrom(t, bitpos + 7, value, w)
              ELSE Done(t, value))

pb_decode_varint32(s) == VarintFrom(s, 0, 0, W32)
pb_decode_varint(s) == VarintFrom(s, 0, 0, W64)

pb_decode_svarint(s) ==
    Then(pb_decode_varint(s), LAMBDA t, u :
         Done(t, IF u % 2 = 1 THEN -(u \div 2) - 1 ELSE u \div 2))

\* Little-endian, n bytes.
FromBytes(b) == FoldRight(LAMBDA byte, high : byte + 256 * high, b, 0)
pb_decode_fixed32(s) == Then(pb_read(s, 4), LAMBDA t, b : Done(t, FromBytes(b)))
pb_decode_fixed64(s) == Then(pb_read(s, 8), LAMBDA t, b : Done(t, FromBytes(b)))

RECURSIVE pb_skip_varint(_)
pb_skip_varint(s) ==
    Then(pb_read(s, 1), LAMBDA t, b :
         IF b[1] >= 128 THEN pb_skip_varint(t) ELSE Done(t, <<>>))

pb_skip_string(s) == Then(pb_decode_varint32(s), LAMBDA t, n : pb_read(t, n))

PB_WT_VARINT == 0
PB_WT_64BIT == 1
PB_WT_STRING == 2
PB_WT_32BIT == 5

pb_skip_field(s, wire_type) ==
    CASE wire_type = PB_WT_VARINT -> pb_skip_varint(s)
      [] wire_type = PB_WT_64BIT -> pb_read(s, 8)
      [] wire_type = PB_WT_STRING -> pb_skip_string(s)
      [] wire_type = PB_WT_32BIT -> pb_read(s, 4)
      [] OTHER -> Fail(s)

\* The end of the message is also a zero tag, and a tag cut off by the end.
Eof(s) == [ok |-> FALSE, eof |-> TRUE, s |-> s, tag |-> 0, wt |-> 0]
pb_decode_tag(s) ==
    LET r == pb_decode_varint32(s)
    IN IF ~r.ok THEN [Eof(r.s) EXCEPT !.eof = r.s.left = 0]
       ELSE IF r.v = 0 THEN Eof(r.s)
       ELSE [ok |-> TRUE, eof |-> FALSE, s |-> r.s, tag |-> r.v \div 8, wt |-> r.v % 8]

\* read_raw_value: a scalar with its own bytes as a substream of at most 10.
RECURSIVE RawVarint(_, _)
RawVarint(s, room) ==
    IF room = 0 THEN Fail(s)
    ELSE Then(pb_read(s, 1), LAMBDA t, b :
              IF b[1] >= 128
              THEN Then(RawVarint(t, room - 1), LAMBDA u, rest : Done(u, b \o rest))
              ELSE Done(t, b))
read_raw_value(s, wire_type) ==
    CASE wire_type = PB_WT_VARINT -> RawVarint(s, 10)
      [] wire_type = PB_WT_64BIT -> pb_read(s, 8)
      [] wire_type = PB_WT_32BIT -> pb_read(s, 4)
      [] OTHER -> Fail(s)

\* The substream, with the parent already past it, and back to the parent.
pb_make_string_substream(s) ==
    Then(pb_decode_varint32(s), LAMBDA t, n :
         IF t.left < n THEN Fail(t)
         ELSE Done([t EXCEPT !.left = @ - n], [t EXCEPT !.left = n]))
\* (mutant) What the submessage did not read stays in the parent's way.
CloseWithoutSkipping(parent, sub) == Done([parent EXCEPT !.at = sub.at], <<>>)
pb_close_string_substream(parent, sub) ==
    Then(pb_read(sub, sub.left), LAMBDA t, b : Done([parent EXCEPT !.at = t.at], <<>>))
\* The result r of a substream, once the substream is closed.
Closed(parent, r) ==
    Then(pb_close_string_substream(parent, r.s), LAMBDA t, b : Result(t, r))

-----------------------------------------------------------------------------
(* Field decoders: PB_DECODERS.  `old' is what the destination holds.      *)

\* Width of a field of data_size bytes; other sizes are an "invalid data_size".
ValidSize(f) == f.size \in {1, 2, 4, 8}
Bits(f) == CASE f.size = 1 -> W8 [] f.size = 2 -> W16 [] f.size = 4 -> W32 [] f.size = 8 -> W64

\* The value, if the cast to the field's size leaves it as it is.
Clamp(s, f, value, clamped) ==
    IF ValidSize(f) /\ clamped = value THEN Done(s, value) ELSE Fail(s)

pb_dec_varint(s, f) ==
    Then(pb_decode_varint(s), LAMBDA t, u :
         LET svalue == IF f.size = 8 THEN Signed(u, W64) ELSE Signed(u, W32)
         IN Clamp(t, f, svalue, Signed(svalue, Bits(f))))
pb_dec_uvarint(s, f) ==
    Then(pb_decode_varint(s), LAMBDA t, u : Clamp(t, f, u, Unsigned(u, Bits(f))))
pb_dec_svarint(s, f) ==
    Then(pb_decode_svarint(s), LAMBDA t, v : Clamp(t, f, v, Signed(v, Bits(f))))

\* The bytes n takes with what goes with it: a sum that wraps around is "size
\* too large", one beyond the field's storage an overflow.
ReadSized(s, f, n, alloc) ==
    IF alloc < n \/ alloc > f.size THEN Fail(s) ELSE pb_read(s, n)

\* A size in front, in a size_t.
PB_BYTES_ARRAY_T_ALLOCSIZE(n) == (n + 4) % 2^WSize
pb_dec_bytes(s, f) ==
    Then(pb_decode_varint32(s), LAMBDA t, n : ReadSized(t, f, n, PB_BYTES_ARRAY_T_ALLOCSIZE(n)))

\* Space for null terminator: a sum of uint32_t.
StringAlloc(n) == (n + 1) % 2^W32
pb_dec_string(s, f) ==
    Then(pb_decode_varint32(s), LAMBDA t, n : ReadSized(t, f, n, StringAlloc(n)))

\* An empty string stands for all zeros.
pb_dec_fixed_length_bytes(s, f) ==
    Then(pb_decode_varint32(s), LAMBDA t, n :
         IF n = 0 THEN Done(t, [i \in 1..f.size |-> 0])
         ELSE IF n # f.size THEN Fail(t) ELSE pb_read(t, n))

Packable(f) == f.lt \in {"VARINT", "UVARINT", "SVARINT", "FIXED32", "FIXED64"}

\* pb_field_set_to_default and pb_message_set_to_defaults.
RECURSIVE Default(_), InitData(_), pb_message_set_to_defaults(_)
Zero(f) == CASE Packable(f) -> 0
             [] f.lt \in {"BYTES", "STRING"} -> <<>>
             [] f.lt = "FIXED_LENGTH_BYTES" -> [i \in 1..f.size |-> 0]
InitData(f) == IF f.lt = "SUBMESSAGE" THEN pb_message_set_to_defaults(f.ptr)
               ELSE IF f.ptr # <<>> THEN f.ptr[1] ELSE Zero(f)
Default(f) ==
    CASE f.lt = "EXTENSION" ->
             [i \in DOMAIN f.ptr |-> pb_extension(FALSE, Default(f.ptr[i]))]
      [] f.at # "STATIC" \/ f.has \/ f.ht \in {"REPEATED", "ONEOF"} -> <<>>
      [] OTHER -> InitData(f)
pb_message_set_to_defaults(fields) ==
    [tag \in {fields[i].tag : i \in DOMAIN fields} |->
        Default(CHOOSE f \in Range(fields) : f.tag = tag)]

\* pb_field_iter_find: no field (an empty sequence) or the field with the tag.
pb_field_iter_find(fields, tag) ==
    SelectSeq(fields, LAMBDA f : f.tag = tag /\ f.lt # "EXTENSION")
find_extension_field(fields) == SelectSeq(fields, LAMBDA f : f.lt = "EXTENSION")
pb_required(fields) == {f.tag : f \in {g \in Range(fields) : g.ht = "REQUIRED" /\ g.lt # "EXTENSION"}}

RECURSIVE DecodeFields(_, _, _, _), Dec(_, _, _), PackedItems(_, _, _),
          CallbackItems(_, _), pb_decode_noinit(_, _, _), pb_decode(_, _),
          pb_dec_submessage(_, _, _), DecodePacked(_, _, _),
          decode_static_field(_, _, _, _), decode_callback_field(_, _, _, _),
          decode_field(_, _, _, _), decode_extension(_, _, _, _, _),
          DecodeUnknown(_, _, _, _, _)

pb_decode_noinit(s, fields, msg) == DecodeFields(s, fields, msg, {})
pb_decode(s, fields) == pb_decode_noinit(s, fields, pb_message_set_to_defaults(fields))

\* An array entry is initialised; other submessages already are, and merge.
pb_dec_submessage(s, f, old) ==
    Then(pb_make_string_substream(s), LAMBDA t, sub :
         Closed(t, IF f.ht = "REPEATED" THEN pb_decode(sub, f.ptr)
                   ELSE pb_decode_noinit(sub, f.ptr, old)))

pb_dec_fixed32(s, f) == pb_decode_fixed32(s)
pb_dec_fixed64(s, f) == pb_decode_fixed64(s)

Dec(s, f, old) ==
    CASE f.lt = "VARINT" -> pb_dec_varint(s, f)
      [] f.lt = "UVARINT" -> pb_dec_uvarint(s, f)
      [] f.lt = "SVARINT" -> pb_dec_svarint(s, f)
      [] f.lt = "FIXED32" -> pb_dec_fixed32(s, f)
      [] f.lt = "FIXED64" -> pb_dec_fixed64(s, f)
      [] f.lt = "BYTES" -> pb_dec_bytes(s, f)
      [] f.lt = "STRING" -> pb_dec_string(s, f)
      [] f.lt = "FIXED_LENGTH_BYTES" -> pb_dec_fixed_length_bytes(s, f)
      [] f.lt = "SUBMESSAGE" -> pb_dec_submessage(s, f, old)

\* (mutant) The array may be one entry longer.
HasEntryOffByOne(f, items) == Len(items) <= f.array
HasEntry(f, items) == Len(items) < f.array

\* The entries of a packed array, up to the first that fails.
PackedItems(s, f, items) ==
    IF s.left = 0 \/ ~HasEntry(f, items) THEN Done(s, items)
    ELSE Then(Dec(s, f, Zero(f)), LAMBDA t, v : PackedItems(t, f, Append(items, v)))

AllRead(parent, r) ==
    IF r.s.left # 0 THEN Fail(parent)               \* "array overflow"
    ELSE Closed(parent, r)
DecodePacked(s, f, old) ==
    Then(pb_make_string_substream(s), LAMBDA t, sub :
         AllRead(t, PackedItems(sub, f, old)))

\* What the field holds before the decoder runs: a member of a oneof that is
\* a submessage starts from the defaults, an absent field from its data.
Held(f, old) == IF f.ht = "ONEOF" \/ (f.has /\ old = <<>>) THEN InitData(f)
                ELSE IF f.has THEN old[1] ELSE old

decode_static_field(s, wire_type, f, old) ==
    CASE f.ht = "REPEATED" /\ wire_type = PB_WT_STRING /\ Packable(f) ->
             DecodePacked(s, f, old)
      [] f.ht = "REPEATED" /\ ~(wire_type = PB_WT_STRING /\ Packable(f)) ->
             IF ~HasEntry(f, old) THEN Fail(s)
             ELSE Then(Dec(s, f, <<>>), LAMBDA t, v : Done(t, Append(old, v)))
      [] f.ht \in {"REQUIRED", "OPTIONAL", "ONEOF"} ->
             Then(Dec(s, f, Held(f, old)), LAMBDA t, v :
                  Done(t, IF f.has \/ f.ht = "ONEOF" THEN <<v>> ELSE v))

\* External: a decoding callback that collects varints, one each call.
Collect(s, items) == Then(pb_decode_varint(s), LAMBDA t, v : Done(t, Append(items, v)))

\* Called again while the substream has bytes left.
CallbackItems(s, items) ==
    Then(Collect(s, items), LAMBDA t, more :
         IF t.left = 0 THEN Done(t, more) ELSE CallbackItems(t, more))

Called(parent, r) == IF r.ok THEN Closed(parent, r) ELSE Fail(parent)
decode_callback_field(s, wire_type, f, old) ==
    IF ~f.has THEN Then(pb_skip_field(s, wire_type), LAMBDA t, b : Done(t, old))
    ELSE IF wire_type = PB_WT_STRING
    THEN Then(pb_make_string_substream(s), LAMBDA t, sub :
              Called(t, CallbackItems(sub, old)))
    ELSE Then(read_raw_value(s, wire_type), LAMBDA t, raw :
              Result(t, Collect(pb_istream_from_buffer(raw), old)))

\* Built without PB_ENABLE_MALLOC: "no malloc support".
decode_pointer_field(s, wire_type, f) == Fail(s)

decode_field(s, wire_type, f, old) ==
    CASE f.at = "CALLBACK" -> decode_callback_field(s, wire_type, f, old)
      [] f.at = "STATIC" -> decode_static_field(s, wire_type, f, old)
      [] f.at = "POINTER" -> decode_pointer_field(s, wire_type, f)

\* (mutant) The other members of the oneof stay set.
StoreBeside(msg, f, v, fields) == [msg EXCEPT ![f.tag] = v]
\* which_ has one value: setting a member of a oneof unsets the others.
Store(msg, f, v, fields) ==
    [tag \in DOMAIN msg |->
        IF tag = f.tag THEN v
        ELSE IF f.ht = "ONEOF" /\ tag \in {g.tag : g \in {h \in Range(fields) : h.ht = "ONEOF"}}
        THEN <<>> ELSE msg[tag]]

\* decode_extension with default_extension_decoder: the extensions in turn
\* until one has read something.
decode_extension(s, tag, wire_type, ext, exts) ==
    LET mine == {i \in DOMAIN ext.ptr : ext.ptr[i].tag = tag}
    IN IF mine = {} THEN Done(s, exts)
       ELSE LET i == Min(mine)
            IN Then(decode_field(s, wire_type, ext.ptr[i], exts[i].dest), LAMBDA t, v :
                    Done(t, [exts EXCEPT ![i] = pb_extension(TRUE, v)]))

\* An unknown tag: an extension of the message, or skipped.
DecodeUnknown(s, tag, wire_type, fields, msg) ==
    LET placeholder == find_extension_field(fields)
        skip(t, m) == Then(pb_skip_field(t, wire_type), LAMBDA u, b : Done(u, m))
    IN IF placeholder = <<>> \/ tag < placeholder[1].tag THEN skip(s, msg)
       ELSE LET e == placeholder[1]
            IN Then(decode_extension(s, tag, wire_type, e, msg[e.tag]), LAMBDA t, x :
                    IF t.left # s.left THEN Done(t, [msg EXCEPT ![e.tag] = x])
                    ELSE skip(t, msg))

\* The loop of pb_decode_noinit, and the check for required fields (fewer
\* than 32 of them).
DecodeFields(s, fields, msg, seen) ==
    LET end(t) == IF pb_required(fields) \subseteq seen THEN Done(t, msg) ELSE Fail(t)
        r == pb_decode_tag(s)
        found == pb_field_iter_find(fields, r.tag)
    IN IF s.left = 0 THEN end(s)
       ELSE IF ~r.ok THEN IF r.eof THEN end(r.s) ELSE Fail(r.s)
       ELSE IF found = <<>>
       THEN Then(DecodeUnknown(r.s, r.tag, r.wt, fields, msg), LAMBDA t, m :
                 DecodeFields(t, fields, m, seen))
       ELSE Then(decode_field(r.s, r.wt, found[1], msg[r.tag]), LAMBDA t, v :
                 DecodeFields(t, fields, Store(msg, found[1], v, fields), seen \cup {r.tag}))

pb_decode_delimited(s, fields) ==
    Then(pb_make_string_substream(s), LAMBDA t, sub : Closed(t, pb_decode(sub, fields)))

-----------------------------------------------------------------------------
(* Output streams.  `sizing' is PB_OSTREAM_SIZING: the callback is NULL.   *)

pb_ostream_from_buffer(max) == [sizing |-> FALSE, out |-> <<>>, written |-> 0,
                                max |-> max, ok |-> TRUE]
PB_OSTREAM_SIZING == [pb_ostream_from_buffer(0) EXCEPT !.sizing = TRUE]

Error(o) == [o EXCEPT !.ok = FALSE]
\* Go on writing unless a call has returned false.
And(o, F(_)) == IF o.ok THEN F(o) ELSE o

\* (mutant) A buffer that is filled exactly is refused.
FitsBelow(o, n) == o.written + n < o.max
Fits(o, n) == o.written + n <= o.max

\* Only sizing: n bytes are counted.
Count(o, n) == [o EXCEPT !.written = @ + n]
pb_write(o, bytes) ==
    IF o.sizing THEN Count(o, Len(bytes))
    ELSE IF ~Fits(o, Len(bytes)) THEN Error(o)
    ELSE [Count(o, Len(bytes)) EXCEPT !.out = @ \o bytes]

RECURSIVE VarintBytes(_)
VarintBytes(v) == IF v < 128 THEN <<v>> ELSE <<(v % 128) + 128>> \o VarintBytes(v \div 128)
pb_encode_varint(o, v) == pb_write(o, VarintBytes(v))

pb_encode_svarint(o, v) ==
    pb_encode_varint(o, IF v < 0 THEN Unsigned(-(2 * v) - 1, W64) ELSE Unsigned(2 * v, W64))

ToBytes(v, n) == [i \in 1..n |-> FoldLeft(LAMBDA x, j : x \div 256, v, [j \in 1..i - 1 |-> j]) % 256]
pb_encode_fixed32(o, v) == pb_write(o, ToBytes(v, 4))
pb_encode_fixed64(o, v) == pb_write(o, ToBytes(v, 8))

pb_encode_tag(o, wiretype, tag) == pb_encode_varint(o, tag * 8 + wiretype)
pb_encode_tag_for_field(o, f) ==
    pb_encode_tag(o, CASE f.lt \in {"VARINT", "UVARINT", "SVARINT"} -> PB_WT_VARINT
                       [] f.lt = "FIXED32" -> PB_WT_32BIT
                       [] f.lt = "FIXED64" -> PB_WT_64BIT
                       [] f.lt \in {"BYTES", "STRING", "SUBMESSAGE",
                                   "FIXED_LENGTH_BYTES"} -> PB_WT_STRING, f.tag)

pb_encode_string(o, bytes) ==
    And(pb_encode_varint(o, Len(bytes)), LAMBDA p : pb_write(p, bytes))

RECURSIVE Enc(_, _, _), EncodeFrom(_, _, _, _), EncodeItems(_, _, _, _), IsZero(_, _),
          pb_encode(_, _, _), pb_encode_submessage(_, _, _), EncodeBody(_, _, _, _),
          PackedSize(_, _),
          encode_array(_, _, _), encode_basic_field(_, _, _), encode_field(_, _, _),
          encode_extension_field(_, _, _)

pb_encode(o, fields, msg) == EncodeFrom(o, fields, msg, 1)

\* The size comes first, sets the limit, and is kept by the second pass.
Appended(o, size, sub) ==
    LET after == [Count(o, sub.written) EXCEPT !.out = @ \o sub.out]
    IN IF sub.written # size \/ ~sub.ok THEN Error(after) ELSE after
EncodeBody(o, size, fields, msg) ==
    IF o.sizing THEN Count(o, size)
    ELSE IF ~Fits(o, size) THEN Error(o)
    ELSE Appended(o, size, pb_encode(pb_ostream_from_buffer(size), fields, msg))
EncodeSized(o, sizes, fields, msg) ==
    IF ~sizes.ok THEN Error(o)
    ELSE And(pb_encode_varint(o, sizes.written), LAMBDA p :
             EncodeBody(p, sizes.written, fields, msg))
pb_encode_submessage(o, fields, msg) ==
    EncodeSized(o, pb_encode(PB_OSTREAM_SIZING, fields, msg), fields, msg)

\* External: an encoding callback; a fickle one writes more the second time.
Provide(o, f, items) ==
    LET write(p, v) == And(pb_encode_tag(p, PB_WT_VARINT, f.tag), LAMBDA q : pb_encode_varint(q, v))
        all == IF f.ptr = "fickle" /\ ~o.sizing THEN Append(items, 1) ELSE items
    IN FoldLeft(LAMBDA p, v : And(p, LAMBDA q : write(q, v)), o, all)

encode_callback_field(o, f, items) == IF f.has THEN Provide(o, f, items) ELSE o

Enc(o, f, v) ==
    CASE f.lt \in {"VARINT", "UVARINT", "SVARINT"} /\ ~ValidSize(f) -> Error(o)
      [] f.lt \in {"VARINT", "UVARINT"} /\ ValidSize(f) -> pb_encode_varint(o, Unsigned(v, W64))
      [] f.lt = "SVARINT" /\ ValidSize(f) -> pb_encode_svarint(o, v)
      [] f.lt = "FIXED32" -> pb_encode_fixed32(o, v)
      [] f.lt = "FIXED64" -> pb_encode_fixed64(o, v)
      [] f.lt = "BYTES" -> IF PB_BYTES_ARRAY_T_ALLOCSIZE(Len(v)) > f.size THEN Error(o)
                           ELSE pb_encode_string(o, v)
      [] f.lt \in {"STRING", "FIXED_LENGTH_BYTES"} -> pb_encode_string(o, v)
      [] f.lt = "SUBMESSAGE" -> pb_encode_submessage(o, f.ptr, v)

\* Each entry by itself, with its tag unless it is packed.
EncodeItems(o, f, items, tagged) ==
    IF items = <<>> THEN o
    ELSE And(IF tagged THEN pb_encode_tag_for_field(o, f) ELSE o, LAMBDA p :
             And(Enc(p, f, Head(items)), LAMBDA q : EncodeItems(q, f, Tail(items), tagged)))

PackedSize(f, items) ==
    CASE f.lt = "FIXED32" -> Count(PB_OSTREAM_SIZING, 4 * Len(items))
      [] f.lt = "FIXED64" -> Count(PB_OSTREAM_SIZING, 8 * Len(items))
      [] OTHER -> EncodeItems(PB_OSTREAM_SIZING, f, items, FALSE)

encode_array(o, f, items) ==
    IF items = <<>> THEN o
    ELSE IF Len(items) > f.array THEN Error(o)
    ELSE IF ~Packable(f) THEN EncodeItems(o, f, items, TRUE)
    ELSE And(pb_encode_tag(o, PB_WT_STRING, f.tag), LAMBDA p :
         IF ~PackedSize(f, items).ok THEN Error(p)
         ELSE And(pb_encode_varint(p, PackedSize(f, items).written), LAMBDA q :
                  IF q.sizing THEN Count(q, PackedSize(f, items).written)
                  ELSE EncodeItems(q, f, items, FALSE)))

\* pb_check_proto3_default_value, of a field in a struct of singular fields.
IsZero(f, v) ==
    CASE f.lt \in {"BYTES", "STRING"} -> v = <<>>
      [] f.lt = "FIXED_LENGTH_BYTES" -> f.size = 0
      [] f.lt = "SUBMESSAGE" -> \A g \in Range(f.ptr) : IsZero(g, v[g.tag])
      [] OTHER -> v = 0

\* What is there to encode: the entries of an array, or one value, or none.
Present(f, v) ==
    CASE f.at = "POINTER" \/ f.has \/ f.ht = "ONEOF" -> v
      [] f.ht = "REQUIRED" /\ f.at = "STATIC" -> <<v>>
      [] f.ht = "OPTIONAL" /\ f.at = "STATIC" /\ ~f.has -> IF IsZero(f, v) THEN <<>> ELSE <<v>>

encode_basic_field(o, f, v) ==
    IF f.ht = "REPEATED" THEN encode_array(o, f, v)
    ELSE IF f.ht = "REQUIRED" /\ f.at = "POINTER" /\ v = <<>> THEN Error(o)
    ELSE EncodeItems(o, f, Present(f, v), TRUE)

encode_field(o, f, v) ==
    IF f.at = "CALLBACK" THEN encode_callback_field(o, f, v) ELSE encode_basic_field(o, f, v)

\* Every extension of the list encodes itself, found or not.
encode_extension_field(o, f, exts) ==
    FoldLeft(LAMBDA p, i : And(p, LAMBDA q : encode_field(q, f.ptr[i], exts[i].dest)),
             o, [i \in DOMAIN exts |-> i])

EncodeFrom(o, fields, msg, i) ==
    IF i > Len(fields) THEN o
    ELSE And(IF fields[i].lt = "EXTENSION"
             THEN encode_extension_field(o, fields[i], msg[fields[i].tag])
             ELSE encode_field(o, fields[i], msg[fields[i].tag]),
             LAMBDA p : EncodeFrom(p, fields, msg, i + 1))

\* The size is what was written, when nothing failed.
pb_get_encoded_size(fields, msg) == pb_encode(PB_OSTREAM_SIZING, fields, msg)
pb_encode_delimited(o, fields, msg) == pb_encode_submessage(o, fields, msg)

-----------------------------------------------------------------------------
(* A writer puts messages, with or without a length in front, one after    *)
(* the other on the wire; between them there may be fields the reader does *)
(* not know, a zero, or any bytes.  Then a reader decodes the wire.        *)

CONSTANTS Schemas,      \* descriptors
          Samples(_),   \* the messages written with a descriptor
          Unknowns,     \* fields with a tag no descriptor has
          Raw,          \* any bytes
          Buffers,      \* sizes of the output buffer
          MaxItems

VARIABLES schema, framed, items, wire, size, reader, got
vars == <<schema, framed, items, wire, size, reader, got>>

Idle == [w |-> <<>>, at |-> 0, left |-> 0]
NoSize == [max |-> 0, o |-> pb_ostream_from_buffer(0), of |-> <<>>]
Init ==
    /\ schema \in Schemas /\ framed \in BOOLEAN
    /\ items = <<>> /\ wire = <<>> /\ size = NoSize
    /\ reader = Idle /\ got = <<>>

\* The last of MaxItems items is a message, behind an unknown field.
Writing ==
    /\ reader = Idle /\ size.o.ok /\ Len(items) < MaxItems
    /\ Len(items) = MaxItems - 1 => items[1].kind = "message" /\ Last(items).kind = "unknown"
Item(k, x, bytes) == items' = Append(items, [kind |-> k, x |-> x, end |-> Len(wire) + Len(bytes)])

\* A message that does not fit its buffer is not sent, and the writer stops.
Send(m, max, o) ==
    /\ size' = [max |-> max, o |-> o, of |-> m]
    /\ IF o.ok THEN Item("message", m, o.out) /\ wire' = wire \o o.out
       ELSE UNCHANGED <<items, wire>>
Encoded(o, m) == IF framed THEN pb_encode_delimited(o, schema, m) ELSE pb_encode(o, schema, m)
Write(m, max) ==
    /\ Writing
    /\ Send(m, max, Encoded(pb_ostream_from_buffer(max), m))
    /\ UNCHANGED <<schema, framed, reader, got>>

\* Bytes of another origin: `framed' puts their length in front.
Put(k, bytes) ==
    /\ Writing /\ Len(items) < MaxItems - 1
    /\ LET b == IF framed THEN VarintBytes(Len(bytes)) \o bytes ELSE bytes
       IN Item(k, bytes, b) /\ wire' = wire \o b
    /\ size' = NoSize
    /\ UNCHANGED <<schema, framed, reader, got>>

Open ==
    /\ reader = Idle /\ size.o.ok /\ wire # <<>>
    /\ reader' = pb_istream_from_buffer(wire) /\ size' = NoSize
    /\ UNCHANGED <<schema, framed, items, wire, got>>

Receive(r) == got' = Append(got, [ok |-> r.ok, v |-> r.v]) /\ reader' = r.s
\* One message of the whole wire, or the next of the framed ones until one
\* is refused.
Read ==
    /\ reader # Idle /\ reader.left > 0
    /\ got # <<>> => framed /\ Last(got).ok
    /\ Receive(IF framed THEN pb_decode_delimited(reader, schema) ELSE pb_decode(reader, schema))
    /\ UNCHANGED <<schema, framed, items, wire, size>>

Next ==
    \/ \E m \in Samples(schema), max \in Buffers :
          /\ items # <<>> => max = Max(Buffers) /\ (framed \/ Last(items).kind # "raw")
          /\ Write(m, max)
    \/ ~framed /\ \E b \in Unknowns : Put("unknown", b)
    \/ ~framed /\ Put("zero", <<0>>)
    \/ \E b \in Raw : items = <<>> /\ Put("raw", b)
    \/ Open \/ Read
Spec == Init /\ [][Next]_vars

-----------------------------------------------------------------------------
(* What a message means, apart from its encoding.                          *)

RECURSIVE Apply(_, _, _), Overfull(_, _), WithinBounds(_, _), Fickle(_, _)
\* The message `a' with the fields that `b' has written over it.
Apply(fields, a, b) ==
    [tag \in DOMAIN a |->
       LET f == CHOOSE g \in Range(fields) : g.tag = tag
           over(x, y) == IF f.lt = "SUBMESSAGE" THEN Apply(f.ptr, x, y) ELSE y
           union == {g.tag : g \in {h \in Range(fields) : h.ht = "ONEOF"}}
       IN CASE f.lt = "EXTENSION" ->
                 [i \in DOMAIN b[tag] |-> pb_extension(TRUE, b[tag][i].dest)]
            [] f.lt # "EXTENSION" /\ (f.ht = "REPEATED" \/ f.at = "CALLBACK") -> a[tag] \o b[tag]
            [] f.ht = "ONEOF" -> IF \E t \in union : b[t] # <<>> THEN b[tag] ELSE a[tag]
            [] f.at = "POINTER" -> b[tag]
            [] f.ht = "OPTIONAL" /\ f.at = "STATIC" /\ f.has ->
                 IF b[tag] = <<>> THEN a[tag]
                 ELSE <<over(IF a[tag] = <<>> THEN InitData(f) ELSE a[tag][1], b[tag][1])>>
            [] f.ht = "OPTIONAL" /\ f.at = "STATIC" /\ ~f.has ->
                 IF b[tag] = Default(f) THEN a[tag] ELSE over(a[tag], b[tag])
            [] f.ht = "REQUIRED" /\ f.at = "STATIC" -> over(a[tag], b[tag])]

\* An array holds more than its entries.
Overfull(fields, m) ==
    \E f \in Range(fields) :
        \/ f.ht = "REPEATED" /\ Len(m[f.tag]) > f.array
        \/ f.lt = "SUBMESSAGE" /\ f.has /\ m[f.tag] # <<>> /\ Overfull(f.ptr, m[f.tag][1])

\* A callback in it writes more the second time.
Fickle(fields, m) ==
    \E f \in Range(fields) :
        \/ f.at = "CALLBACK" /\ f.has /\ f.ptr = "fickle"
        \/ f.lt = "SUBMESSAGE" /\ f.has /\ m[f.tag] # <<>> /\ Fickle(f.ptr, m[f.tag][1])

NumberFits(f, v) ==
    CASE Packable(f) /\ f.lt \notin {"FIXED32", "FIXED64"} /\ ~ValidSize(f) -> v = 0
      [] f.lt \in {"VARINT", "SVARINT"} /\ ValidSize(f) -> v \in -(2^(Bits(f) - 1))..(2^(Bits(f) - 1) - 1)
      [] f.lt = "UVARINT" /\ ValidSize(f) -> v \in 0..(2^Bits(f) - 1)
      [] OTHER -> TRUE
ValueFits(f, v) ==
    /\ NumberFits(f, v)
    /\ f.lt = "STRING" => Len(v) + 1 <= f.size
    /\ f.lt = "BYTES" => Len(v) + 4 <= f.size
    /\ f.lt = "SUBMESSAGE" => WithinBounds(f.ptr, v)
WithinBounds(fields, m) ==
    /\ ~Overfull(fields, m)
    /\ \A f \in Range(fields) : f.at = "STATIC" /\ f.lt # "EXTENSION" =>
          IF f.has \/ f.ht \in {"REPEATED", "ONEOF"}
          THEN \A i \in DOMAIN m[f.tag] : ValueFits(f, m[f.tag][i])
          ELSE ValueFits(f, m[f.tag])
    /\ Cardinality({f \in Range(fields) : f.ht = "ONEOF" /\ m[f.tag] # <<>>}) <= 1

\* The messages that end before a zero.
Sent == LET zeros == {i \in DOMAIN items : items[i].kind = "zero"}
            upto == IF zeros = {} THEN items ELSE SubSeq(items, 1, Min(zeros) - 1)
        IN SelectSeq(upto, LAMBDA i : i.kind = "message")
\* This build has no storage for a field with a pointer.
Refused(fields, m) ==
    Overfull(fields, m) \/ \E f \in Range(fields) : f.at = "POINTER" /\ m[f.tag] # <<>>
Sum(s) == FoldLeft(LAMBDA a, i : Apply(schema, a, i.x), pb_message_set_to_defaults(schema), s)

\* Messages one after the other decode to the one that merges them (the last
\* value of a field stays, arrays add up, submessages merge, a oneof has its
\* last member), whatever unknown fields stand between them; a zero ends the
\* message; an array that gets too long, or a required field that never came,
\* is refused (pb_decode_noinit and the field decoders).
MergesInOrder ==
    (~framed /\ got # <<>> /\ \A i \in DOMAIN items : items[i].kind # "raw") =>
        IF Refused(schema, Sum(Sent)) \/ (Sent = <<>> /\ pb_required(schema) # {})
        THEN ~got[1].ok
        ELSE got[1] = [ok |-> TRUE, v |-> Sum(Sent)]

\* Framed messages come back one by one, each by itself, also after a frame
\* with other contents that the decoder accepted, and the reader stands where
\* the frame ends (pb_decode_delimited, pb_close_string_substream).
FramesInStep ==
    (framed /\ got # <<>>) =>
        \A i \in DOMAIN got :
           /\ got[i].ok /\ i = Len(got) => reader.at = items[i].end
           /\ items[i].kind = "message" =>
                 IF Refused(schema, items[i].x) THEN ~got[i].ok
                 ELSE got[i] = [ok |-> TRUE,
                                v |-> Apply(schema, pb_message_set_to_defaults(schema), items[i].x)]

\* Whatever is on the wire, a message that is accepted fits its struct: no
\* array, string or bytes field is longer than its storage, no number was
\* cut, at most one member of a oneof is set, and nothing was read behind the
\* end of the wire.
FitsStruct ==
    /\ reader.at + reader.left <= Len(wire)
    /\ \A i \in DOMAIN got : got[i].ok => WithinBounds(schema, got[i].v)

\* pb_encode succeeds exactly when pb_get_encoded_size succeeds and the size it
\* gives fits the buffer; it then writes that many bytes, and it never writes
\* more than the buffer holds.  Only a submessage with a callback that changes
\* its mind fails though it was announced and fits (pb_encode_submessage).
SizesAgree ==
    LET announced == pb_get_encoded_size(schema, size.of)
        whole == IF framed THEN Len(VarintBytes(announced.written)) + announced.written
                 ELSE announced.written
    IN size.of # <<>> =>
          /\ Len(size.o.out) <= size.max /\ size.o.written = Len(size.o.out)
          /\ size.o.ok <=> announced.ok /\ whole <= size.max /\ ~Fickle(schema, size.of)
          /\ size.o.ok => size.o.written = whole

=============================================================================
