---------------------------- MODULE WireReference ----------------------------
(***************************************************************************)
(* The server's side of the wire protocol, which WireCodec is compared     *)
(* with: what it takes from the bytes of a request, and the bytes it       *)
(* answers with.                                                           *)
(***************************************************************************)
EXTENDS WireCodec

RECURSIVE Taken(_, _), TakenNumbers(_, _)
\* n values with a length each, NULL as <<>> and others as <<text>>, and the rest.
Taken(b, n) ==
    IF n = 0 THEN [vals |-> <<>>, rest |-> b]
    ELSE LET l == Signed(SubSeq(b, 1, 4))
             more == Taken(From(b, IF l < 0 THEN 5 ELSE 5 + l), n - 1)
         IN  [vals |-> <<IF l < 0 THEN <<>> ELSE <<SubSeq(b, 5, 4 + l)>>>> \o more.vals, rest |-> more.rest]
TakenNumbers(b, n) == IF n = 0 THEN <<>> ELSE <<Signed(SubSeq(b, 1, 2))>> \o TakenNumbers(From(b, 3), n - 1)

String(b) == SubSeq(b, 1, SelectInSeq(b, LAMBDA c : c = 0) - 1)
AfterString(b) == From(b, SelectInSeq(b, LAMBDA c : c = 0) + 1)

\* A Bind body behind its two names: format codes, values, result format codes.
BindBody(b) ==
    LET formats == Unsigned(SubSeq(b, 1, 2))
        values == From(b, 3 + 2 * formats)
        taken == Taken(From(values, 3), Unsigned(SubSeq(values, 1, 2)))
        count == Unsigned(SubSeq(taken.rest, 1, 2))
    IN  [values |-> taken.vals, results |-> TakenNumbers(From(taken.rest, 3), count),
         left |-> Len(taken.rest) - 2 - 2 * count]
Understood(type, body) ==
    CASE type = 81 -> <<"Query", String(body), Len(AfterString(body))>>
      [] type = 80 -> <<"Parse", String(body), String(AfterString(body)),
                        Len(AfterString(AfterString(body))) - 2>>
      [] type = 66 -> LET b == BindBody(AfterString(AfterString(body)))
                      IN  <<"Bind", String(body), String(AfterString(body)), b.values, b.results, b.left>>
      [] type = 68 -> <<"Describe", body[1], String(Tail(body)), Len(AfterString(Tail(body)))>>
      [] type = 69 -> <<"Execute", String(body), Signed(AfterString(body)), Len(AfterString(body)) - 4>>
      [] type = 83 -> <<"Sync", Len(body)>>

RECURSIVE ServerReads(_)
\* The messages in the bytes; each ends with the number of bytes it has too many.
ServerReads(b) ==
    IF b = <<>> THEN <<>>
    ELSE LET n == Signed(SubSeq(b, 2, 5))
         IN  <<Understood(b[1], SubSeq(b, 6, n + 1))>> \o ServerReads(From(b, n + 2))

\* What the server takes from the messages of a call is what the caller passed, for
\* SQL without a zero byte and no more parameters and columns than the counts hold.
ServerGets(sql, params, isNull, oids) ==
    (0 \notin ToSet(sql) /\ Len(params) < 2^Bits16 /\ Len(oids) < 2^Bits16) =>
        /\ ServerReads(queryMessage(sql)) = <<<<"Query", sql, 0>>>>
        /\ ServerReads(Pump1(sql)) =
             <<<<"Parse", <<>>, sql, 0>>, <<"Describe", 83, <<>>, 0>>, <<"Sync", 0>>>>
        /\ ServerReads(Pump2(params, isNull, oids)) =
             <<<<"Bind", <<>>, <<>>,
                 [i \in DOMAIN params |-> IF i \in DOMAIN isNull /\ isNull[i] THEN <<>> ELSE <<params[i]>>],
                 [i \in DOMAIN oids |-> IF oids[i] \in {16, 17, 20, 21, 23, 26, 700, 701} THEN 1 ELSE 0], 0>>,
               <<"Describe", 80, <<>>, 0>>, <<"Execute", <<>>, 0, 0>>, <<"Sync", 0>>>>

\* The startup packet: protocol 3.0 and two pairs of name and value.
ServerStarts(user, database) ==
    LET b == startupMessage(user, database)
        v1 == AfterString(From(b, 9))
        v2 == AfterString(AfterString(v1))
    IN  (0 \notin ToSet(user) \union ToSet(database)) =>
            /\ Signed(SubSeq(b, 1, 4)) = Len(b) /\ SubSeq(b, 5, 8) = <<0, 3, 0, 0>>
            /\ String(v1) = user /\ String(v2) = database /\ AfterString(v2) = <<0>>

----------------------------------------------------------------------------
(* Replies.  A column has a name, an oid and a format; a value is the Go value that *)
(* it should arrive as.                                                            *)

IntBytes(oid) == IF oid = 20 THEN IntLen["int8"] ELSE IF oid = 21 THEN IntLen["int2"] ELSE IntLen["int4"]
ServerText(v) ==
    CASE v[1] = "bool" -> IF v[2][1] = 1 THEN <<116>> ELSE <<102>>
      [] v[1] = "int64" -> IF v[2][1] >= 0 THEN DecimalText(v[2][1]) ELSE <<45>> \o DecimalText(-v[2][1])
      [] v[1] = "[]byte" -> <<92, 120>> \o FlattenSeq([i \in DOMAIN v[2] |->
             LET h(x) == CHOOSE c \in Digits \union 97..102 : hexVal(c) = x
             IN  <<h(v[2][i] \div 16), h(v[2][i] % 16)>>])
      [] OTHER -> v[2]
ServerBinary(oid, v) ==
    CASE v[1] = "int64" -> [i \in 1..IntBytes(oid) |-> (v[2][1] \div 256^(IntBytes(oid) - i)) % 256]
      [] OTHER -> v[2]
ServerValue(col, v) ==
    LET raw == IF col.format = 1 THEN ServerBinary(col.oid, v) ELSE ServerText(v)
    IN  IF v[1] = "nil" THEN <<255, 255, 255, 255>> ELSE <<0, 0, 0, Len(raw)>> \o raw

ServerMessage(type, body) == <<type, 0, 0, 0, Len(body) + 4>> \o body
Description(cols) ==
    ServerMessage(84, <<0, Len(cols)>> \o FlattenSeq([i \in DOMAIN cols |->
        cols[i].name \o <<0>> \o <<0, 0, 64, 1>> \o <<0, i>> \o <<0, 0, cols[i].oid \div 256, cols[i].oid % 256>>
        \o <<0, 4>> \o <<255, 255, 255, 255>> \o <<0, cols[i].format>>]))
DataRow(cols, row) ==
    ServerMessage(68, <<0, Len(row)>> \o FlattenSeq([i \in DOMAIN row |-> ServerValue(cols[i], row[i])]))
Complete(tag) == ServerMessage(67, tag \o <<0>>)
ServerError(severity, text) ==
    ServerMessage(69, <<83>> \o severity \o <<0>> \o <<67, 52, 50, 0>> \o <<77>> \o text \o <<0, 0>>)
Ready(status) == ServerMessage(90, <<status>>)

Names(cols) == [i \in DOMAIN cols |-> cols[i].name]
\* The reply to two statements, with a notice between them: the rows of both arrive,
\* each as its own description says, the columns and the tag are those of the last; a
\* message that is not whole is not looked at.
TwoStatements(first, second, row1, row2, rest) ==
    LET select == <<83, 69, 76, 69, 67, 84, 32>>
        b == Description(first) \o DataRow(first, row1) \o Complete(select \o <<49>>)
                   \o ServerMessage(78, <<83, 0, 0>>)
                   \o Description(second) \o DataRow(second, row2) \o DataRow(second, row2)
                   \o Complete(select \o <<49, 50>>) \o Ready(84) \o rest
        Read(r) ==
            /\ r.Rows = <<row1, row2, row2>>
            /\ r.Columns = Names(second) /\ r.Command = select \o <<49, 50>> /\ r.AffectedRows = 12
            /\ r.perr = <<>> /\ r.tx = 84
    IN  Read(parse(b))

\* An error in a reply is what the call returns, with its severity; what Describe
\* tells of the columns arrives.
ErrorArrives(cols, row, severity, text) ==
    LET b == Description(cols) \o DataRow(cols, row) \o ServerError(severity, text) \o Ready(69)
        message == severity \o <<58, 32>> \o text
        Failed(r) == r.perr = message /\ r.tx = 69
    IN  /\ Failed(parse(b))
        /\ describeResultOIDs(b).errText = message
        /\ describeResultOIDs(Description(cols) \o Ready(73))
             = [oids |-> [i \in DOMAIN cols |-> cols[i].oid], errText |-> <<>>]

\* The server knows the short words for infinities too.
ServerTakes(text) ==
    CASE text = <<43>> \o Inf -> Infinity
      [] text = <<45>> \o Inf -> <<45>> \o Infinity
      [] OTHER -> text
\* An argument of a driver call comes back as it was passed when the server takes its
\* text as a value of the type of the column and sends that (the text of a float that
\* comes as bits is not looked at); one of a type that is not supported is refused.
ComesBack(col, v, others) ==
    LET args == <<[Ordinal |-> 2, Value |-> v], [Ordinal |-> 1, Value |-> others]>>
        e == encodeParams(args)
        HasText == v[1] # "nil" /\ ~(v[1] = "float64" /\ col.format = 1)
    IN  /\ e.ok /\ e.isNull = <<others[1] = "nil", v[1] = "nil">>
        /\ HasText => ServerTakes(e.params[2]) = ServerText(v)
        /\ ~encodeParams(<<args[1], [Ordinal |-> 1, Value |-> <<"int32", <<>>>>]>>).ok
        /\ LET row == decodeDataRow(From(DataRow(<<col>>, <<v>>), 6), <<col>>)
           IN  NextRow(row, 2) = <<v, <<"nil", <<>>>>>> /\ NextRow(row, 1) = <<v>>

\* The instant of a time argument, in minutes of the day in UTC, is the one that the
\* server reads, for zones that are whole hours away from UTC.
TimeArrives(hour, minute, zone) ==
    LET v == <<"time.Time", <<hour, minute, zone>>>>
        t == encodeParams(<<[Ordinal |-> 1, Value |-> v]>>).params[1]
        Two(i) == Decimal(SubSeq(t, i, i + 1))
        offset == IF t[6] = 45 THEN -Two(7) ELSE Two(7)
    IN  zone % 60 = 0 => Two(1) * 60 + Two(4) - offset * 60 = hour * 60 + minute - zone
=============================================================================
