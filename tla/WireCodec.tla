------------------------------ MODULE WireCodec ------------------------------
(***************************************************************************)
(* The messages that wire.go and the driver build and take apart, on their *)
(* bytes.  Strings are sequences of bytes.  A decoded value is its Go type *)
(* and its content: <<"int64", <<5>>>>, <<"bool", <<1>>>>, <<"nil", <<>>>>,*)
(* <<"string", text>>, <<"[]byte", bytes>>, <<"float64", text or bits>>.   *)
(* A payload that is shorter than its own counts say panics in the code    *)
(* and is outside of the domains of these operators.                       *)
(***************************************************************************)
EXTENDS Integers, Sequences, SequencesExt

CONSTANTS
    Bits16,  \* width of the counts of parameters and formats, 16 in the code
    IntLen   \* bytes of an int2, int4 and int8: 2, 4 and 8 in the code

ASSUME CodecAssumption == Bits16 \in 1..16 /\ IntLen \in [{"int2", "int4", "int8"} -> 1..8]

\* Big-endian numbers of n bytes.
BE(v, n) == [i \in 1..n |-> (v \div 256^(n - i)) % 256]
Unsigned(b) == FoldLeft(LAMBDA v, x : v * 256 + x, 0, b)
Signed(b) == FoldLeft(LAMBDA v, x : v * 256 + x, IF b # <<>> /\ b[1] >= 128 THEN -1 ELSE 0, b)
BE16(v) == BE(v % 2^Bits16, 2)

From(b, p) == SubSeq(b, p, Len(b))

----------------------------------------------------------------------------
(* Requests *)

frame(typ, payload) == <<typ>> \o BE(Len(payload) + 4, 4) \o payload

startupMessage(user, database) ==
    LET word(s) == s \o <<0>>
        body == BE(196608, 4) \o word(<<117, 115, 101, 114>>) \o word(user)
                \o word(<<100, 97, 116, 97, 98, 97, 115, 101>>) \o word(database) \o <<0>>
    IN  BE(Len(body) + 4, 4) \o body
queryMessage(sql) == frame(81, sql \o <<0>>)
parseMessage(sql) == frame(80, <<0>> \o sql \o <<0>> \o BE16(0))

\* A parameter without the test of isNull, ...
ParamEmptyForNull(p, null) == BE(IF null THEN 0 ELSE Len(p), 4) \o (IF null THEN <<>> ELSE p)
\* ... and with it.
Param(p, null) == IF null THEN <<255, 255, 255, 255>> ELSE BE(Len(p), 4) \o p
bindMessage(params, isNull, formats) ==
    frame(66, <<0, 0>> \o BE16(0)
              \o BE16(Len(params))
              \o FlattenSeq([i \in DOMAIN params |-> Param(params[i], i \in DOMAIN isNull /\ isNull[i])])
              \o BE16(Len(formats))
              \o FlattenSeq([i \in DOMAIN formats |-> BE(formats[i], 2)]))
describeStatementMessage == frame(68, <<83, 0>>)
describePortalMessage == frame(68, <<80, 0>>)
executeMessage == frame(69, <<0, 0, 0, 0, 0>>)
syncMessage == frame(83, <<>>)

binaryOID == {16, 17, 20, 21, 23, 26, 700, 701}
resultFormats(oids) == [i \in DOMAIN oids |-> IF oids[i] \in binaryOID THEN 1 ELSE 0]

\* The two pumps of extendedQuery, and the one of simpleQuery.
Pump1(sql) == parseMessage(sql) \o describeStatementMessage \o syncMessage
Pump2(params, isNull, oids) ==
    bindMessage(params, isNull, resultFormats(oids)) \o describePortalMessage \o executeMessage \o syncMessage

----------------------------------------------------------------------------
(* Replies *)

RECURSIVE Frames(_)
\* The whole messages at the front of a buffer.
Frames(b) ==
    IF Len(b) < 5 THEN <<>>
    ELSE LET n == Unsigned(SubSeq(b, 2, 5))
         IN  IF n + 1 > Len(b) THEN <<>>
             ELSE <<[type |-> b[1], payload |-> SubSeq(b, 6, n + 1)]>> \o Frames(From(b, n + 2))

\* The bytes of p in front of its first zero.
indexZero(p) == LET z == SelectInSeq(p, LAMBDA x : x = 0) IN IF z = 0 THEN Len(p) ELSE z - 1
CString(p) == SubSeq(p, 1, indexZero(p))
AfterCString(p) == From(p, indexZero(p) + 2)

RECURSIVE ColumnsFrom(_, _)
ColumnsFrom(p, n) ==
    IF n = 0 THEN <<>>
    ELSE LET q == AfterCString(p)
         IN  <<[name |-> CString(p), oid |-> Unsigned(SubSeq(q, 7, 10)), format |-> Signed(SubSeq(q, 17, 18))]>>
             \o ColumnsFrom(From(q, 19), n - 1)
decodeRowDesc(p) == ColumnsFrom(From(p, 3), Unsigned(SubSeq(p, 1, 2)))

Digits == 48..57
RECURSIVE Decimal(_)
Decimal(ds) == IF ds = <<>> THEN 0 ELSE Decimal(Front(ds)) * 10 + Last(ds) - 48
\* strconv.ParseInt: an optional sign and digits; the range is left out.
Unsign(s) == IF s # <<>> /\ s[1] \in {43, 45} THEN Tail(s) ELSE s
IsInt(s) == Unsign(s) # <<>> /\ ToSet(Unsign(s)) \subseteq Digits
ParseInt(s) == IF s[1] = 45 THEN -Decimal(Unsign(s)) ELSE Decimal(Unsign(s))
\* What strconv.ParseFloat takes, as far as the server writes it.
NaN == <<78, 97, 78>>
Infinity == <<73, 110, 102, 105, 110, 105, 116, 121>>
IsNumeral(s) == ToSet(s) \subseteq Digits \union {43, 45, 46, 101} /\ ToSet(s) \intersect Digits # {}
IsFloat(s) == IsNumeral(s) \/ s \in {NaN, Infinity, <<45>> \o Infinity}

HexDigits == Digits \union 97..102 \union 65..70
hexVal(c) == IF c \in Digits THEN c - 48 ELSE IF c \in 97..102 THEN c - 87 ELSE c - 55
IsByteaText(s) ==
    Len(s) >= 2 /\ Len(s) % 2 = 0 /\ s[1] = 92 /\ s[2] = 120 /\ ToSet(From(s, 3)) \subseteq HexDigits
decodeByteaText(s) == [i \in 1..((Len(s) \div 2) - 1) |-> hexVal(s[2 * i + 1]) * 16 + hexVal(s[2 * i + 2])]

True == <<116>>
TrueWord == <<116, 114, 117, 101>>
Bit(b) == IF b THEN <<1>> ELSE <<0>>
decodeText(oid, raw) ==
    CASE oid = 16 -> <<"bool", Bit(raw \in {True, TrueWord})>>
      [] oid \in {20, 21, 23, 26} /\ IsInt(raw) -> <<"int64", <<ParseInt(raw)>>>>
      [] oid \in {700, 701} /\ IsFloat(raw) -> <<"float64", raw>>
      [] oid = 17 /\ IsByteaText(raw) -> <<"[]byte", decodeByteaText(raw)>>
      [] OTHER -> <<"string", raw>>

\* An oid read like an int4, ...
OidAsSigned(raw) == Signed(raw)
\* ... and as the unsigned number it is.
OidOf(raw) == Unsigned(raw)
decodeBinary(oid, raw) ==
    CASE oid = 16 -> <<"bool", Bit(raw # <<>> /\ raw[1] # 0)>>
      [] oid = 21 /\ Len(raw) = IntLen["int2"] -> <<"int64", <<Signed(raw)>>>>
      [] oid = 23 /\ Len(raw) = IntLen["int4"] -> <<"int64", <<Signed(raw)>>>>
      [] oid = 20 /\ Len(raw) = IntLen["int8"] -> <<"int64", <<Signed(raw)>>>>
      [] oid = 26 /\ Len(raw) = IntLen["int4"] -> <<"int64", <<OidOf(raw)>>>>
      [] (oid = 700 /\ Len(raw) = 4) \/ (oid = 701 /\ Len(raw) = 8) -> <<"float64", raw>>
      [] oid = 17 -> <<"[]byte", raw>>
      [] OTHER -> <<"string", raw>>

RECURSIVE ValuesFrom(_, _, _)
\* The values of a row, for the columns that are left of the description.
ValuesFrom(p, n, cols) ==
    IF n = 0 THEN <<>>
    ELSE LET l == Signed(SubSeq(p, 1, 4))
             raw == SubSeq(p, 5, 4 + l)
             oid == IF cols = <<>> THEN 0 ELSE cols[1].oid
             binary == cols # <<>> /\ cols[1].format = 1
             others == IF cols = <<>> THEN cols ELSE Tail(cols)
         IN  IF l < 0 THEN <<<<"nil", <<>>>>>> \o ValuesFrom(From(p, 5), n - 1, others)
             ELSE <<IF binary THEN decodeBinary(oid, raw) ELSE decodeText(oid, raw)>>
                  \o ValuesFrom(From(p, 5 + l), n - 1, others)
decodeDataRow(p, cols) == ValuesFrom(From(p, 3), Unsigned(SubSeq(p, 1, 2)), cols)

RECURSIVE FieldsFrom(_)
FieldsFrom(p) ==
    IF p = <<>> \/ p[1] = 0 THEN <<>>
    ELSE <<[code |-> p[1], text |-> CString(Tail(p))]>> \o FieldsFrom(AfterCString(Tail(p)))
decodeError(p) ==
    LET fields == FieldsFrom(p)
        Field(code) == LET i == SelectLastInSeq(fields, LAMBDA f : f.code = code)
                       IN  IF i = 0 THEN <<>> ELSE fields[i].text
    IN  IF Field(83) # <<>> THEN Field(83) \o <<58, 32>> \o Field(77) ELSE Field(77)

\* strings.Fields' last one.
LastField(tag) ==
    LET end == SelectLastInSeq(tag, LAMBDA c : c # 32)
        start == SelectLastInSeq(SubSeq(tag, 1, end), LAMBDA c : c = 32)
    IN  SubSeq(tag, start + 1, end)
affectedFromTag(tag) == IF IsInt(LastField(tag)) THEN ParseInt(LastField(tag)) ELSE 0

NoRows == [Columns |-> <<>>, cols |-> <<>>, Rows |-> <<>>, Command |-> <<>>, AffectedRows |-> 0,
           perr |-> <<>>, tx |-> 0]
ParseFrame(r, f) ==
    CASE f.type = 84 -> LET cols == decodeRowDesc(f.payload)
                        IN  [r EXCEPT !.cols = cols, !.Columns = [i \in DOMAIN cols |-> cols[i].name]]
      [] f.type = 68 -> [r EXCEPT !.Rows = Append(@, decodeDataRow(f.payload, r.cols))]
      [] f.type = 67 -> LET tag == SubSeq(f.payload, 1, SelectLastInSeq(f.payload, LAMBDA c : c # 0))
                        IN  [r EXCEPT !.Command = tag, !.AffectedRows = affectedFromTag(tag)]
      [] f.type = 69 -> [r EXCEPT !.perr = decodeError(f.payload)]
      [] f.type = 90 /\ f.payload # <<>> -> [r EXCEPT !.tx = f.payload[1]]
      [] OTHER -> r
parse(b) == FoldLeft(ParseFrame, NoRows, Frames(b))

\* The OIDs of the last description, and the text of the last error.
Described(r) == [oids |-> [i \in DOMAIN r.cols |-> r.cols[i].oid], errText |-> r.perr]
describeResultOIDs(b) ==
    Described(FoldLeft(ParseFrame, NoRows, SelectSeq(Frames(b), LAMBDA f : f.type \in {84, 69})))

----------------------------------------------------------------------------
(* The driver's arguments *)

RECURSIVE DecimalText(_)
DecimalText(v) == IF v < 10 THEN <<48 + v>> ELSE Append(DecimalText(v \div 10), 48 + (v % 10))
hexdig == [x \in 0..15 |-> IF x < 10 THEN 48 + x ELSE 87 + x]
toHex(b) == FlattenSeq([i \in DOMAIN b |-> <<hexdig[b[i] \div 16], hexdig[b[i] % 16]>>])
\* strconv.FormatFloat: infinities have a short word and always a sign.
Inf == <<73, 110, 102>>
FormatFloat(t) == IF t = Infinity THEN <<43>> \o Inf ELSE IF t = <<45>> \o Infinity THEN <<45>> \o Inf ELSE t
\* time.Format, of hour, minute and the offset of the zone in minutes: the layout
\* has only the hours of the offset.  Date, seconds and fraction are left out.
TwoDigits(n) == <<48 + n \div 10, 48 + (n % 10)>>
FormatTime(t) ==
    TwoDigits(t[1]) \o <<58>> \o TwoDigits(t[2])
        \o (IF t[3] < 0 THEN <<45>> \o TwoDigits((-t[3]) \div 60) ELSE <<43>> \o TwoDigits(t[3] \div 60))

\* The types encodeParams takes, and the text of a value.
Supported == {"nil", "int64", "float64", "bool", "string", "[]byte", "time.Time"}
ParamText(v) ==
    CASE v[1] = "nil" -> <<>>
      [] v[1] = "int64" -> IF v[2][1] < 0 THEN <<45>> \o DecimalText(-v[2][1]) ELSE DecimalText(v[2][1])
      [] v[1] = "bool" -> IF v[2] = <<1>> THEN <<116>> ELSE <<102>>
      [] v[1] = "[]byte" -> <<92, 120>> \o toHex(v[2])
      [] v[1] = "float64" -> FormatFloat(v[2])
      [] v[1] = "time.Time" -> FormatTime(v[2])
      [] OTHER -> v[2]
\* encodeParams: args are pairs of an ordinal and a value, in any order.
encodeParams(args) ==
    LET n == Len(args)
        Of(k) == LET i == SelectLastInSeq(args, LAMBDA a : a.Ordinal = k)
                 IN  IF i = 0 THEN <<"nil", <<>>>> ELSE args[i].Value
        ok == \A k \in 1..n : args[k].Ordinal \in 1..n /\ Of(k)[1] \in Supported
    IN  [ok |-> ok,
         params |-> IF ok THEN [k \in 1..n |-> ParamText(Of(k))] ELSE <<>>,
         isNull |-> IF ok THEN [k \in 1..n |-> Of(k)[1] = "nil"] ELSE <<>>]
\* rows.Next: the row fitted to n columns.
NextRow(row, n) == [i \in 1..n |-> IF i \in DOMAIN row THEN row[i] ELSE <<"nil", <<>>>>]
=============================================================================
