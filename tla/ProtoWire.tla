------------------------------ MODULE ProtoWire ------------------------------
(***************************************************************************)
(* The protobuf helpers of the agent (onebot/script.js): the writer that   *)
(* rebuilds a text message in another schema when its content begins with  *)
(* #vN# (buildTextProtoVariant), and the reader that summarises what       *)
(* WeChat encoded, for the diagnostics (summarizeProtoShape).              *)
(*                                                                         *)
(* A varint is a sequence of digits in base Radix (128), all but the last  *)
(* with Radix added.  A string is the sequence of its bytes.               *)
(***************************************************************************)
EXTENDS Naturals, Sequences, SequencesExt

CONSTANTS
  Radix,          \* 128 in the code
  VarintBytes,    \* longest varint that is read: 10
  MaxFields,      \* fields the summary lists: 64
  Word,           \* 2^32, what >>> 0 reduces to
  Bytes,          \* bytes to try the reader on
  MaxBytes,       \* bound: how many of them
  Texts,          \* strings to build messages from
  Stamps          \* values of the time stamp and of the message id

VARIABLES input, output

vars == <<input, output>>

-----------------------------------------------------------------------------
(* Writing *)

\* Power[k] is the first number that has more than k digits.
Power[k \in Nat] == IF k = 0 THEN 1 ELSE Radix * Power[k - 1]

\* pbVarint64
Digits64[v \in Nat] ==
  IF v < Radix THEN <<v>> ELSE <<Radix + (v % Radix)>> \o Digits64[v \div Radix]

\* pbVarint works on 32 bits.
PbVarint(v) == Digits64[v % Word]

\* A tag that is always one byte.
PbTagOneByte(field, wire) == <<(field * 8 + wire) % (2 * Radix)>>

PbTag(field, wire) == PbVarint(field * 8 + wire)

PbString(field, str) == PbTag(field, 2) \o PbVarint(Len(str)) \o str

PbVarintField(field, v) == PbTag(field, 0) \o Digits64[v]

\* A field to be written: a string, or a number.
Str(field, s) == [field |-> field, wire |-> 2, str |-> s, num |-> 0]
Num(field, n) == [field |-> field, wire |-> 0, str |-> <<>>, num |-> n]

Write(f) == IF f.wire = 2 THEN PbString(f.field, f.str) ELSE PbVarintField(f.field, f.num)

Encode(fields) == FlattenSeq([i \in DOMAIN fields |-> Write(fields[i])])

\* buildTextProtoVariant: the fields of schema 2 to 5; the nested message of
\* schema 4 is a string of its own.
Nested(receiver, content, xml, ts, id) ==
  <<Str(1, receiver), Str(2, content), Num(3, 1), Num(4, ts), Num(5, id), Str(6, xml)>>

Variant(n, receiver, content, xml, ts, id) ==
  CASE n = 2 -> <<Str(1, content), Num(2, 1), Str(37, receiver), Str(38, xml), Str(39, <<>>)>>
    [] n = 3 -> <<Str(1, content), Num(2, 1), Num(33, ts), Num(34, id), Str(37, receiver)>>
    [] n = 4 -> <<Num(1, 1),
                  Str(2, Encode(Nested(receiver, content, xml, ts, id)))>>
    [] n = 5 -> <<Str(1, content), Num(2, 1), Str(37, receiver), Str(38, xml),
                  Num(33, ts), Num(34, id)>>

-----------------------------------------------------------------------------
(* Reading *)

None == [value |-> 0, next |-> 0]

\* The number whose digits are the bytes of b from i up to j (both counted
\* from 0, j not included), the lowest first.
Number(b, i, j) ==
  LET last[k \in 0 .. j] == IF k = 0 THEN 0 ELSE (b[j + 1 - k] % Radix) + Radix * last[k - 1]
  IN  last[j - i]

\* One byte more than there is room for.
ReadProtoVarintLong(b, offset) ==
  LET ends == {i \in offset .. offset + VarintBytes : i < Len(b) /\ b[i + 1] < Radix}
      last == CHOOSE i \in ends : \A j \in ends : i <= j
  IN  IF ends = {} THEN None
      ELSE [value |-> Number(b, offset, last + 1), next |-> last + 1]

\* readProtoVarint: the number at offset (counted from 0) and where it ends;
\* no number if it is cut off or too long.
ReadProtoVarint(b, offset) ==
  LET ends == {i \in offset .. offset + VarintBytes - 1 : i < Len(b) /\ b[i + 1] < Radix}
      last == CHOOSE i \in ends : \A j \in ends : i <= j
  IN  IF ends = {} THEN None
      ELSE [value |-> Number(b, offset, last + 1), next |-> last + 1]

Listed(field, wire, size, nested) ==
  [field |-> field, wire |-> wire, size |-> size, nested |-> nested]

Error == Listed(0, 9, 0, <<>>)

\* One turn of the loop of summarizeProtoShape over b: the field at the offset,
\* with its bytes if it is to be opened, as strings in field 2 are.
Turn(b, at) ==
  LET key   == ReadProtoVarint(b, at.offset)
      field == key.value \div 8
      wire  == key.value % 8
      arg   == ReadProtoVarint(b, key.next)
      end   == CASE wire = 0 -> arg.next
                 [] wire = 1 -> key.next + 8
                 [] wire = 2 -> arg.next + arg.value
                 [] wire = 5 -> key.next + 4
                 [] OTHER -> 0
      bad   == \/ key = None \/ key.value = 0 \/ wire \notin {0, 1, 2, 5}
               \/ wire \in {0, 2} /\ (arg = None \/ end > Len(b))
      entry == Listed(field, wire, IF wire = 2 THEN arg.value ELSE 0,
                      IF wire = 2 /\ field = 2 THEN SubSeq(b, arg.next + 1, end) ELSE <<>>)
  IN  IF at.failed \/ at.offset >= Len(b) THEN at
      ELSE IF bad THEN [at EXCEPT !.fields = Append(@, Error), !.failed = TRUE]
      ELSE [offset |-> end,
            fields |-> at.fields \o (IF end > Len(b) THEN <<entry, Error>> ELSE <<entry>>),
            failed |-> end > Len(b)]

Start == [offset |-> 0, fields |-> <<>>, failed |-> FALSE]

Walk(b) ==
  LET at[n \in 0 .. MaxFields] == IF n = 0 THEN Start ELSE Turn(b, at[n - 1])
  IN  at[MaxFields].fields

\* summarizeProtoShape, one level deep
Shape(b) == LET top == Walk(b) IN [i \in DOMAIN top |-> [top[i] EXCEPT !.nested = Walk(@)]]

-----------------------------------------------------------------------------
Variants == [kind : {"variant"}, n : 2 .. 5, receiver : Texts, content : Texts, xml : Texts,
             ts : Stamps, id : Stamps]

Raw == [kind : {"raw"}, bytes : UNION {[1 .. k -> Bytes] : k \in 0 .. MaxBytes}]

Fields(v) == Variant(v.n, v.receiver, v.content, v.xml, v.ts, v.id)

Init == input \in Variants \cup Raw /\ output = <<>>

\* A variant is built, given to WeChat, and summarised like everything else.
Build ==
  /\ input.kind = "variant"
  /\ output = <<>>
  /\ output' = Shape(Encode(Fields(input)))
  /\ UNCHANGED input

Summarise ==
  /\ input.kind = "raw"
  /\ output = <<>>
  /\ output' = Shape(input.bytes)
  /\ UNCHANGED input

Next == Build \/ Summarise

Spec == Init /\ [][Next]_vars

-----------------------------------------------------------------------------
(* Properties *)

ListedAs(f, e) == e.field = f.field /\ e.wire = f.wire /\ e.size = Len(f.str)

\* What is written in any of the schemas reads back field by field, numbers
\* beyond one digit and empty strings included, and the message nested in
\* schema 4 is the only one opened (script.js:942, 1275).
ReadsBack ==
  input.kind = "variant" /\ output # <<>> =>
    /\ Len(output) = Len(Fields(input))
    /\ \A i \in DOMAIN output : ListedAs(Fields(input)[i], output[i])
    /\ input.n = 4 => Len(output[2].nested) = 6 /\ \A i \in 1 .. 6 : output[2].nested[i].field = i

\* A varint of b from i up to j (both counted from 0, j not included).
IsVarint(b, i, j) ==
  /\ i < j /\ j <= Len(b) /\ j - i <= VarintBytes
  /\ \A k \in i + 1 .. j : (b[k] < Radix) = (k = j)

IsField(b, i, j) ==
  \E k \in i + 1 .. j :
    /\ IsVarint(b, i, k) /\ Number(b, i, k) # 0
    /\ \/ Number(b, i, k) % 8 = 0 /\ IsVarint(b, k, j)
       \/ Number(b, i, k) % 8 = 1 /\ j = k + 8
       \/ Number(b, i, k) % 8 = 5 /\ j = k + 4
       \/ Number(b, i, k) % 8 = 2 /\ \E l \in k + 1 .. j : IsVarint(b, k, l) /\ j = l + Number(b, k, l)

\* b is a message: it can be cut into n fields, for some n.
IsMessage(b) ==
  LET cuts[n \in 0 .. Len(b)] ==
        IF n = 0 THEN {0}
        ELSE UNION {{j \in i + 1 .. Len(b) : IsField(b, i, j)} : i \in cuts[n - 1]}
  IN  \E n \in 0 .. Len(b) : Len(b) \in cuts[n]

\* On any bytes WeChat may encode, the summary reports an error only for bytes
\* that are no message, and misses one only behind the last field it lists
\* (script.js:942).
ErrorsAreReal ==
  input.kind = "raw" /\ output # <<>> =>
    LET bad == output[Len(output)] = Error
    IN  /\ bad => ~IsMessage(input.bytes)
        /\ ~bad /\ Len(output) < MaxFields => IsMessage(input.bytes)
=============================================================================
