----------------------------- MODULE WireCodec -----------------------------
(***************************************************************************)
(* How values become bytes and bytes values (codec.rs of component-utils   *)
(* and what the derive macro of codec-derive makes of structs and enums).  *)
(* A type is a record of its kind and what it is made of; Decode answers   *)
(* the value and the bytes that are left, or that there is none.           *)
(*                                                                         *)
(* Numbers are cut into digits of seven bits, up to ten for a u64: here    *)
(* into digits of DigitBits, up to worst_case_size for WordBits.  A byte   *)
(* has one bit more than a digit.  Strings are bytes (whether they are     *)
(* UTF-8 is left out), and a field that is marked to be ignored is no      *)
(* field.  RECURSIVE operators follow the structure of types.              *)
(***************************************************************************)
EXTENDS Integers, Sequences, SequencesExt, FiniteSets

CONSTANTS DigitBits, WordBits,
          MaxWire           \* bound: bytes that come from elsewhere

ASSUME CodecAssumption == DigitBits \in 1 .. 7 /\ WordBits \in DigitBits .. 15 /\ MaxWire \in Nat

VARIABLES codec,            \* the type, by its place in CodecTypes
          value, wire, tail, decoded

codecVars == <<codec, value, wire, tail, decoded>>

Digit == 2 ^ DigitBits
Octet == 0 .. 2 * Digit - 1

Yields(v, rest) == [ok |-> TRUE, v |-> v, rest |-> rest]
Fails == [ok |-> FALSE]

-----------------------------------------------------------------------------
(* Types: numbers (u16 to u128), bytes and strings, lists, and what is       *)
(* derived.                                                                  *)

int(bits)  == [kind |-> "int", bits |-> bits]
byte       == [kind |-> "byte"]
bool       == [kind |-> "bool"]
bytes      == [kind |-> "bytes"]
vec(of)    == [kind |-> "vec", of |-> of]
option(of) == [kind |-> "option", of |-> of]
struct(of) == [kind |-> "struct", of |-> of]
enum(of)   == [kind |-> "enum", of |-> of]
reminder   == [kind |-> "rest"]
array(of, size)   == [kind |-> "array", of |-> of, size |-> size]
arrayvec(of, cap) == [kind |-> "arrayvec", of |-> of, cap |-> cap]
result(of, err)   == [kind |-> "result", of |-> of, err |-> err]
hashmap(key, of)  == [kind |-> "map", key |-> key, of |-> of]

-----------------------------------------------------------------------------
(* Numbers *)

RECURSIVE Base128Encode(_)
Base128Encode(n) == IF n < Digit THEN <<n>>
                    ELSE <<(n % Digit) + Digit>> \o Base128Encode(n \div Digit)

\* Mutant of worst_case_size: whole digits only.
worst_case_size_floor == WordBits \div DigitBits

worst_case_size == (WordBits + DigitBits - 1) \div DigitBits

\* Up to the first byte without the highest bit; what is shifted out of the word is lost.
Base128Decode(b) ==
    LET ends == {i \in 1 .. worst_case_size : i <= Len(b) /\ b[i] < Digit}
        last == CHOOSE i \in ends : \A j \in ends : i <= j
        sum[i \in 0 .. Len(b)] == IF i = 0 THEN 0
                                  ELSE sum[i - 1] + (b[i] % Digit) * Digit ^ (i - 1)
    IN  IF ends = {} THEN Fails
        ELSE Yields(sum[last] % 2 ^ WordBits, SubSeq(b, last + 1, Len(b)))

\* The first byte, if it is one of allowed.
TakeByte(b, allowed) ==
    IF b # <<>> /\ Head(b) \in allowed THEN Yields(Head(b), Tail(b)) ELSE Fails

-----------------------------------------------------------------------------

\* A HashMap of what is inserted: of two entries with one key the later one stays.
FromPairs(ps) == [k \in {ps[i][1] : i \in DOMAIN ps} |->
                    ps[CHOOSE i \in DOMAIN ps : ps[i][1] = k /\ \A j \in DOMAIN ps : ps[j][1] = k => j <= i][2]]

RECURSIVE Encode(_, _)
Encode(t, v) ==
    LET Each(of, vs) == FlattenSeq([i \in DOMAIN vs |-> Encode(of, vs[i])])
        Fields(of, vs) == FlattenSeq([i \in DOMAIN of |-> Encode(of[i], vs[i])])
    IN  CASE t.kind = "byte"   -> <<v>>
          [] t.kind = "bool"   -> <<IF v THEN 1 ELSE 0>>
          [] t.kind = "int"    -> Base128Encode(v % 2 ^ WordBits)
          [] t.kind = "bytes"  -> Base128Encode(Len(v)) \o v
          [] t.kind = "rest"   -> v
          [] t.kind \in {"vec", "arrayvec"} -> Base128Encode(Len(v)) \o Each(t.of, v)
          [] t.kind = "array"  -> Each(t.of, v)
          [] t.kind = "option" -> IF v = <<>> THEN <<0>> ELSE <<1>> \o Encode(t.of, v[1])
          [] t.kind = "result" -> IF v.ok # <<>> THEN <<1>> \o Encode(t.of, v.ok[1])
                                  ELSE <<0>> \o Encode(t.err, v.err[1])
          [] t.kind = "map"    -> Base128Encode(Cardinality(DOMAIN v)) \o
                                  LET ks == SetToSeq(DOMAIN v)
                                  IN  FlattenSeq([i \in DOMAIN ks |-> Encode(t.key, ks[i]) \o Encode(t.of, v[ks[i]])])
          [] t.kind = "struct" -> Fields(t.of, v)
          [] t.kind = "enum"   -> <<v.index>> \o Fields(t.of[v.index + 1], v.fields)

RECURSIVE Decode(_, _)
Decode(t, b) ==
    LET \* The values of the types of a sequence, one after the other, the first failure ends it.
        InTurn(ts, from) ==
            FoldLeft(LAMBDA acc, of : IF ~acc.ok THEN acc
                         ELSE LET d == Decode(of, acc.rest)
                              IN  IF d.ok THEN Yields(Append(acc.v, d.v), d.rest) ELSE Fails,
                     Yields(<<>>, from), ts)
        Repeat(of, n) == [i \in 1 .. n |-> of]
        Then(d, F(_)) == IF d.ok THEN F(d) ELSE Fails
        len  == Base128Decode(b)
        flag == TakeByte(b, {0, 1})
    IN  CASE t.kind = "byte"   -> TakeByte(b, Octet)
          [] t.kind = "bool"   -> Then(flag, LAMBDA d : Yields(d.v = 1, d.rest))
          [] t.kind = "int"    -> Then(len, LAMBDA d : Yields(d.v % 2 ^ t.bits, d.rest))
          [] t.kind = "bytes"  -> Then(len, LAMBDA d : IF Len(d.rest) < d.v THEN Fails
                                     ELSE Yields(SubSeq(d.rest, 1, d.v), SubSeq(d.rest, d.v + 1, Len(d.rest))))
          [] t.kind = "rest"   -> Yields(b, <<>>)
          [] t.kind = "vec"    -> Then(len, LAMBDA d : IF d.v > Len(d.rest) THEN Fails
                                     ELSE InTurn(Repeat(t.of, d.v), d.rest))
          [] t.kind = "arrayvec" -> Then(len, LAMBDA d : IF d.v > t.cap THEN Fails
                                     ELSE InTurn(Repeat(t.of, d.v), d.rest))
          [] t.kind = "array"  -> InTurn(Repeat(t.of, t.size), b)
          [] t.kind = "option" -> Then(flag, LAMBDA d : IF d.v = 0 THEN Yields(<<>>, d.rest)
                                     ELSE InTurn(<<t.of>>, d.rest))
          [] t.kind = "result" -> Then(flag, LAMBDA d : IF d.v = 1
                                     THEN Then(InTurn(<<t.of>>, d.rest), LAMBDA e : Yields([ok |-> e.v, err |-> <<>>], e.rest))
                                     ELSE Then(InTurn(<<t.err>>, d.rest), LAMBDA e : Yields([ok |-> <<>>, err |-> e.v], e.rest)))
          [] t.kind = "map"    -> Then(len, LAMBDA d : IF d.v * 2 > Len(d.rest) THEN Fails
                                     ELSE Then(InTurn(Repeat(struct(<<t.key, t.of>>), d.v), d.rest),
                                               LAMBDA e : Yields(FromPairs(e.v), e.rest)))
          [] t.kind = "struct" -> InTurn(t.of, b)
          [] t.kind = "enum"   -> Then(TakeByte(b, 0 .. Len(t.of) - 1), LAMBDA d :
                                     Then(InTurn(t.of[d.v + 1], d.rest),
                                          LAMBDA e : Yields([index |-> d.v, fields |-> e.v], e.rest)))
-----------------------------------------------------------------------------
(* Values of the shapes that messages have. *)

CodecTypes == <<
    int(WordBits), int(WordBits - 1), int(WordBits + 1),
    struct(<<int(WordBits), byte>>),
    struct(<<bytes, bool, bytes>>),
    vec(struct(<<bool, int(WordBits - 1)>>)),
    vec(vec(byte)),
    struct(<<arrayvec(int(WordBits), 2), reminder>>),
    array(option(bytes), 2),
    struct(<<result(vec(bool), byte), bool>>),
    hashmap(bool, bytes),
    vec(enum(<<<<>>, <<bytes>>, <<byte, option(bool)>>>>)) >>

SomeBytes == {0, 2 * Digit - 1}

RECURSIVE Values(_)
Values(t) ==
    LET Lists(of, n) == UNION {[1 .. l -> Values(of)] : l \in 0 .. n}
        Structs(of) == FoldLeft(LAMBDA fs, t1 : {Append(f, v) : f \in fs, v \in Values(t1)}, {<<>>}, of)
    IN  CASE t.kind = "byte"   -> SomeBytes
          [] t.kind = "bool"   -> BOOLEAN
          [] t.kind = "int"    -> 0 .. 2 ^ t.bits - 1
          [] t.kind \in {"bytes", "rest"} -> UNION {[1 .. l -> SomeBytes] : l \in 0 .. 2}
          [] t.kind = "vec"    -> Lists(t.of, 2)
          [] t.kind = "arrayvec" -> Lists(t.of, t.cap)
          [] t.kind = "array"  -> [1 .. t.size -> Values(t.of)]
          [] t.kind = "option" -> {<<>>} \cup {<<v>> : v \in Values(t.of)}
          [] t.kind = "result" -> {[ok |-> <<v>>, err |-> <<>>] : v \in Values(t.of)}
                                  \cup {[ok |-> <<>>, err |-> <<v>>] : v \in Values(t.err)}
          [] t.kind = "map"    -> UNION {[ks -> Values(t.of)] : ks \in SUBSET Values(t.key)}
          [] t.kind = "struct" -> Structs(t.of)
          [] t.kind = "enum"   -> UNION {{[index |-> i - 1, fields |-> f] : f \in Structs(t.of[i])} : i \in DOMAIN t.of}

-----------------------------------------------------------------------------

Shape == CodecTypes[codec]

CodecInit == /\ codec \in DOMAIN CodecTypes
             /\ value = <<>> /\ wire = <<>> /\ tail = <<>> /\ decoded = [stage |-> "none"]

\* A value is written, and other fields of the message after it.
Write(v, after) ==
    /\ Shape.kind = "struct" /\ reminder \in Range(Shape.of) => after = <<>>
    /\ value' = v /\ tail' = after /\ wire' = Encode(Shape, v) \o after
    /\ decoded' = [stage |-> "written"]
    /\ UNCHANGED codec

\* Bytes come from elsewhere.
Receive(b) ==
    /\ wire' = b /\ decoded' = [stage |-> "received"]
    /\ UNCHANGED <<codec, value, tail>>

Read ==
    /\ decoded.stage \in {"written", "received"}
    /\ decoded' = [stage |-> IF decoded.stage = "written" THEN "own" ELSE "other",
                   result |-> Decode(Shape, wire)]
    /\ UNCHANGED <<codec, value, wire, tail>>

CodecNext ==
    \/ /\ decoded.stage = "none"
       /\ \E v \in Values(Shape), after \in {<<>>, <<0>>, <<2 * Digit - 1>>} : Write(v, after)
    \/ /\ decoded.stage = "none"
       /\ \E b \in UNION {[1 .. n -> Octet] : n \in 0 .. MaxWire} : Receive(b)
    \/ Read

\* What was written is read as it was, and the fields after it are left where they are, for
\* every combination of numbers, lists, options, maps and enums that messages are made of
\* (Codec::encode and Codec::decode); only a number wider than a u64 is cut.  Whatever bytes
\* come from elsewhere, what is read of them is written in no more bytes than it took, and is
\* then read as the same.
ReadsWhatWasWritten ==
    /\ decoded.stage = "own" =>
          \/ decoded.result = Yields(value, tail)
          \/ Shape.kind = "int" /\ Shape.bits > WordBits
             /\ decoded.result = Yields(value % 2 ^ WordBits, tail)
    /\ decoded.stage = "other" /\ decoded.result.ok =>
          LET again == Encode(Shape, decoded.result.v) \o decoded.result.rest
          IN  Len(again) <= Len(wire) /\ Decode(Shape, again) = decoded.result
=============================================================================
