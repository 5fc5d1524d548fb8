------------------------------ MODULE Payloads ------------------------------
(***************************************************************************)
(* The payloads of frames as bytes: what the Codec implementations of       *)
(* frames/payloads.rs write and read.                                       *)
(*                                                                         *)
(* A byte is a number.  Only numbers of several bytes depend on how many    *)
(* values a byte has (Radix, 256 in the code): with a small Radix the       *)
(* limits of the 8-bit and 16-bit lengths are reached by short payloads,    *)
(* while the header and the fixed fields keep the sizes of the code.  Codes *)
(* of enumerations are single bytes.                                        *)
(*                                                                         *)
(* A payload is a record of its fields.  A string and an argument are       *)
(* sequences of bytes; an absent argument and an empty one are written      *)
(* alike and are both << >>.  A HashMap is written in its iteration order,  *)
(* which is arbitrary: here it is a sequence of <<key, value>> pairs before *)
(* it is written, and a function once it has been read.                     *)
(***************************************************************************)
EXTENDS Integers, Sequences, SequencesExt

CONSTANT Radix   \* values of a byte

ASSUME PayloadsAssumption == Radix \in Nat /\ Radix > 4

(* How many numbers one, two, four and eight bytes hold.                    *)
U8 == Radix
U16 == U8 * U8
U32 == U16 * U16
U64 == U32 * U32

FRAME_HEADER_LENGTH == 16
FRAME_MAX_LENGTH == U16 - 2
MAX_FRAME_ARGS == 3
PROTOCOL_VERSION == 2

(* The codes each enumeration or set of flags knows.                        *)
Codes == [Flags |-> 0 .. 3, TraceFlags |-> 0 .. 1, ResponseCode |-> 0 .. 1,
          ErrorCode |-> (0 .. 8) \cup {255}, ChecksumType |-> 0 .. 3]

(* The fields of the payloads in the order they are written.  The fields of *)
(* a call are encoded on their own by the fragmenters and inserted between  *)
(* flags and arguments (CallWithFieldsEncoded).                             *)
CallRequestFields == <<<<"ttl", "u32">>, <<"tracing", "Tracing">>,
                       <<"service", "small_string">>, <<"headers", "small_headers">>>>
CallResponseFields == <<<<"code", "ResponseCode">>, <<"tracing", "Tracing">>,
                        <<"headers", "small_headers">>>>
CallArgs == <<<<"checksum", "checksum">>, <<"args", "args">>>>
CallWithFieldsEncoded(fields) == <<<<"flags", "Flags">>>> \o fields \o CallArgs

Written == [
    InitRequest          |-> <<<<"version", "u16">>, <<"headers", "headers">>>>,
    InitResponse         |-> <<<<"version", "u16">>, <<"headers", "headers">>>>,
    CallRequest          |-> CallWithFieldsEncoded(CallRequestFields),
    CallResponse         |-> CallWithFieldsEncoded(CallResponseFields),
    CallRequestContinue  |-> CallWithFieldsEncoded(<< >>),
    CallResponseContinue |-> CallWithFieldsEncoded(<< >>),
    PingRequest          |-> << >>,
    PingResponse         |-> << >>,
    Error                |-> <<<<"code", "ErrorCode">>, <<"tracing", "Tracing">>,
                               <<"message", "string">>>>]

(* The fields in the order the decode functions of Init, CallRequest,       *)
(* CallResponse, CallContinue and ErrorMsg read them.                       *)
ReadOrder == [
    InitRequest          |-> <<<<"version", "u16">>, <<"headers", "headers">>>>,
    InitResponse         |-> <<<<"version", "u16">>, <<"headers", "headers">>>>,
    CallRequest          |-> <<<<"flags", "Flags">>, <<"ttl", "u32">>, <<"tracing", "Tracing">>,
                               <<"service", "small_string">>, <<"headers", "small_headers">>,
                               <<"checksum", "checksum">>, <<"args", "args">>>>,
    CallResponse         |-> <<<<"flags", "Flags">>, <<"code", "ResponseCode">>,
                               <<"tracing", "Tracing">>, <<"headers", "small_headers">>,
                               <<"checksum", "checksum">>, <<"args", "args">>>>,
    CallRequestContinue  |-> <<<<"flags", "Flags">>, <<"checksum", "checksum">>,
                               <<"args", "args">>>>,
    CallResponseContinue |-> <<<<"flags", "Flags">>, <<"checksum", "checksum">>,
                               <<"args", "args">>>>,
    PingRequest          |-> << >>,
    PingResponse         |-> << >>,
    Error                |-> <<<<"code", "ErrorCode">>, <<"tracing", "Tracing">>,
                               <<"message", "string">>>>]

----------------------------------------------------------------------------
(* Writing.                                                                 *)

(* BytesMut::put_u16, put_u32, put_u64: w bytes, the most significant first.*)
put(n, w) ==
    LET shifted[i \in 0 .. w] == IF i = 0 THEN n ELSE shifted[i - 1] \div Radix
    IN  [i \in 1 .. w |-> shifted[w - i] % Radix]

encode_tracing(t) == put(t.span_id, 8) \o put(t.parent_id, 8) \o put(t.trace_id, 8)
                     \o <<t.trace_flags>>

encode_string_field(s, w) == put(Len(s), w) \o s

encode_header_fields(headers, w) ==
    put(Len(headers), w)
    \o FlattenSeq([i \in DOMAIN headers |->
                     encode_string_field(headers[i][1], w)
                     \o encode_string_field(headers[i][2], w)])

(* The value of a checksum follows unless the type is None (0).             *)
encode_checksum(c) == <<c.type>> \o IF c.type = 0 THEN << >> ELSE put(c.value, 4)

(* The length is cast: arg.len() as u16.                                    *)
encode_args(args) ==
    FlattenSeq([i \in DOMAIN args |-> put(Len(args[i]) % U16, 2) \o args[i]])

EncodeField(kind, v) ==
    CASE kind = "u16" -> put(v, 2)
      [] kind = "u32" -> put(v, 4)
      [] kind = "Tracing" -> encode_tracing(v)
      [] kind = "small_string" -> encode_string_field(v, 1)
      [] kind = "string" -> encode_string_field(v, 2)
      [] kind = "small_headers" -> encode_header_fields(v, 1)
      [] kind = "headers" -> encode_header_fields(v, 2)
      [] kind = "checksum" -> encode_checksum(v)
      [] kind = "args" -> encode_args(v)
      [] OTHER -> <<v>>

encode_bytes(type, body) ==
    LET fields == Written[type]
    IN  FlattenSeq([i \in DOMAIN fields |-> EncodeField(fields[i][2], body[fields[i][1]])])

(* encode_len: a length or a number of headers that its field cannot hold   *)
(* is an error; so is a wrong number of arguments.                          *)
FieldFits(kind, v) ==
    CASE kind = "small_string" -> Len(v) < U8
      [] kind = "string" -> Len(v) < U16
      [] kind = "small_headers" ->
            Len(v) < U8 /\ \A i \in DOMAIN v : \A j \in 1 .. 2 : Len(v[i][j]) < U8
      [] kind = "headers" ->
            Len(v) < U16 /\ \A i \in DOMAIN v : \A j \in 1 .. 2 : Len(v[i][j]) < U16
      [] kind = "args" -> Len(v) \in 1 .. MAX_FRAME_ARGS
      [] OTHER -> TRUE

(* Seeded fault: the length of the payload is not checked.                  *)
PayloadUnchecked(type, body) == TRUE

(* A payload that ends with arguments must not be too long for a frame.     *)
PayloadFits(type, body) ==
    "args" \in DOMAIN body =>
        Len(encode_bytes(type, body)) <= FRAME_MAX_LENGTH - FRAME_HEADER_LENGTH

(* encode returns Ok.                                                       *)
Encodable(type, body) ==
    /\ \A i \in DOMAIN Written[type] :
          FieldFits(Written[type][i][2], body[Written[type][i][1]])
    /\ PayloadFits(type, body)

----------------------------------------------------------------------------
(* Reading.  A read leaves what it got and the bytes that follow; it fails  *)
(* with an error, or with the panic of Bytes::get_* when bytes are missing. *)

Got(v, rest) == [ok |-> TRUE, val |-> v, src |-> rest]
Failed == [ok |-> FALSE, val |-> << >>, src |-> << >>]

Rest(src, n) == SubSeq(src, n + 1, Len(src))

(* Bytes::get_u8, get_u16, get_u32, get_u64.                                *)
get(src, w) ==
    LET number[i \in 0 .. w] == IF i = 0 THEN 0 ELSE number[i - 1] * Radix + src[i]
    IN  IF Len(src) < w THEN Failed ELSE Got(number[w], Rest(src, w))

(* A record, or a HashMap, with one more field or entry.                    *)
insert(m, key, v) == [k \in DOMAIN m \cup {key} |-> IF k = key THEN v ELSE m[k]]

(* A read of one field after another: the record built so far goes along.   *)
Then(c, name, r) == IF c.ok /\ r.ok THEN Got(insert(c.val, name, r.val), r.src) ELSE Failed

decode_bitflag(kind, src) ==
    LET r == get(src, 1) IN IF r.ok /\ r.val \in Codes[kind] THEN r ELSE Failed

decode_tracing(src) ==
    LET span == Then(Got(<< >>, src), "span_id", get(src, 8))
        parent == Then(span, "parent_id", get(span.src, 8))
        trace == Then(parent, "trace_id", get(parent.src, 8))
    IN  Then(trace, "trace_flags", decode_bitflag("TraceFlags", trace.src))

decode_string_field(src, w) ==
    LET n == get(src, w)
    IN  IF n.ok /\ Len(n.src) >= n.val
        THEN Got(SubSeq(n.src, 1, n.val), Rest(n.src, n.val)) ELSE Failed

(* A map of n.val headers; the i-th insertion of headers[i] in the loop.    *)
decode_headers_field(src, w) ==
    LET n == get(src, w)
        headers[i \in 0 .. n.val] ==
            IF i = 0 THEN Got(<< >>, n.src)
            ELSE LET c == headers[i - 1]
                     key == decode_string_field(c.src, w)
                     val == decode_string_field(key.src, w)
                 IN  IF c.ok /\ key.ok /\ val.ok
                     THEN Got(insert(c.val, key.val, val.val), val.src) ELSE Failed
    IN  IF n.ok THEN headers[n.val] ELSE Failed

decode_checksum(src) ==
    LET type == decode_bitflag("ChecksumType", src)
        value == IF type.ok /\ type.val # 0 THEN get(type.src, 4) ELSE Got(0, type.src)
    IN  Then(Then(Got(<< >>, src), "type", type), "value", value)

decode_arg(src) ==
    LET n == get(src, 2)
    IN  IF ~n.ok \/ n.val > (Len(src) % U16) - 2 THEN Failed
        ELSE Got(SubSeq(n.src, 1, n.val), Rest(n.src, n.val))

(* One argument after another, while there are bytes, up to three.          *)
decode_args(src) ==
    LET args[i \in 0 .. MAX_FRAME_ARGS] ==
            IF i = 0 THEN Got(<< >>, src)
            ELSE LET c == args[i - 1]
                     arg == decode_arg(c.src)
                 IN  IF c.src = << >> THEN c
                     ELSE IF arg.ok THEN Got(Append(c.val, arg.val), arg.src) ELSE Failed
        all == args[MAX_FRAME_ARGS]
    IN  IF src # << >> /\ all.src = << >> THEN all ELSE Failed

DecodeField(kind, src) ==
    CASE kind = "u16" -> get(src, 2)
      [] kind = "u32" -> get(src, 4)
      [] kind = "Tracing" -> decode_tracing(src)
      [] kind = "small_string" -> decode_string_field(src, 1)
      [] kind = "string" -> decode_string_field(src, 2)
      [] kind = "small_headers" -> decode_headers_field(src, 1)
      [] kind = "headers" -> decode_headers_field(src, 2)
      [] kind = "checksum" -> decode_checksum(src)
      [] kind = "args" -> decode_args(src)
      [] OTHER -> decode_bitflag(kind, src)

decode(type, src) ==
    LET fields == ReadOrder[type]
        upTo[i \in 0 .. Len(fields)] ==
            IF i = 0 THEN Got(<< >>, src)
            ELSE LET c == upTo[i - 1]
                     r == DecodeField(fields[i][2], c.src)
                 IN  IF c.ok THEN Then(c, fields[i][1], r) ELSE Failed
    IN  upTo[Len(fields)]

----------------------------------------------------------------------------
(* What a field may hold.  The keys of a HashMap differ; a checksum of type *)
(* None has no value.                                                       *)
Number == 0 .. U64 - 1
Tracings == [span_id : Number, parent_id : Number, trace_id : Number,
             trace_flags : Codes.TraceFlags]
Headers == {h \in Seq(Seq(Nat) \X Seq(Nat)) :
              \A i, j \in 1 .. Len(h) : h[i][1] = h[j][1] => i = j}
Checksums == {c \in [type : Codes.ChecksumType, value : 0 .. U32 - 1] :
                c.type = 0 => c.value = 0}

FieldOK(kind, v) ==
    CASE kind = "u16" -> v \in 0 .. U16 - 1
      [] kind = "u32" -> v \in 0 .. U32 - 1
      [] kind = "Tracing" -> v \in Tracings
      [] kind \in {"small_string", "string"} -> v \in Seq(Nat)
      [] kind \in {"small_headers", "headers"} -> v \in Headers
      [] kind = "checksum" -> v \in Checksums
      [] kind = "args" -> v \in Seq(Seq(Nat))
      [] OTHER -> v \in Codes[kind]

(* A payload of a type is a record of the fields that are written.          *)
PayloadOK(type, body) ==
    /\ body = [name \in {field[1] : field \in Range(Written[type])} |-> body[name]]
    /\ \A field \in Range(Written[type]) : FieldOK(field[2], body[field[1]])

(* A payload as it should be read: its headers as a map.                    *)
AsRead(body) ==
    IF "headers" \in DOMAIN body
    THEN [body EXCEPT !["headers"] = [k \in {h[1] : h \in Range(@)} |->
                                        (CHOOSE h \in Range(@) : h[1] = k)[2]]]
    ELSE body
=============================================================================
