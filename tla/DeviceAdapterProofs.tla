------------------------ MODULE DeviceAdapterProofs ------------------------
(***************************************************************************)
(* Proofs about DeviceAdapter, for every firmware profile, every integer a *)
(* caller may ask for and every set of signals it may read.                *)
(***************************************************************************)
EXTENDS DeviceAdapter, SequenceTheorems, TLAPS

-----------------------------------------------------------------------------
(* Encoding: what is put into a payload comes out of it. *)

LEMMA DivMod ==
  ASSUME NEW v \in Int
  PROVE  /\ v \div 256 \in Int /\ v % 256 \in 0..255
         /\ v = 256 * (v \div 256) + (v % 256)
<1>1. v \div 256 \in Int
  OBVIOUS
<1>2. v % 256 \in 0..255
  OBVIOUS
<1>3. v = 256 * (v \div 256) + (v % 256)
  OBVIOUS
<1> QED BY <1>1, <1>2, <1>3

LEMMA LowByte == \A w \in Int : w % 256 \in 0..255 /\ (0 <= w /\ w <= 255 => w % 256 = w)
<1>1. ASSUME NEW w \in Int PROVE w % 256 \in 0..255
  OBVIOUS
<1>2. ASSUME NEW w \in Int, 0 <= w, w <= 255 PROVE w % 256 = w
  BY <1>2
<1> QED BY <1>1, <1>2

\* The widths of the wire, named: the provers see a literal as its successors.
U16Max == 65535
I16Min == -32768
I16Max == 32767

\* append_u16_le and read_u16_le.
LEMMA U16 ==
  ASSUME NEW v \in Int
  PROVE  /\ v % 256 \in 0..255 /\ (v \div 256) % 256 \in 0..255
         /\ 0 <= v /\ v <= U16Max => (v % 256) + 256 * ((v \div 256) % 256) = v
<1> DEFINE q == v \div 256
           r == v % 256
           p == q % 256
<1>1. q \in Int /\ r \in Int /\ 0 <= r /\ r <= 255 /\ v = 256 * q + r
  BY DivMod
<1>2. p \in 0..255 /\ (0 <= q /\ q <= 255 => p = q)
  <2> HIDE DEF q
  <2> QED BY <1>1, LowByte
<1>3. 0 <= v /\ v <= U16Max => 0 <= q /\ q <= 255
  <2> HIDE DEF q, r
  <2> QED BY SMT, <1>1 DEF U16Max
<1>4. 0 <= v /\ v <= U16Max => r + 256 * p = v
  <2> HIDE DEF q, r, p
  <2> QED BY <1>1, <1>2, <1>3
<1> QED BY <1>1, <1>2, <1>4, DivMod

\* append_i16_le and read_i16_le: the two's complement of 16 bits.
LEMMA I16 ==
  ASSUME NEW v \in Int
  PROVE  /\ v % 65536 \in Int /\ 0 <= v % 65536 /\ v % 65536 <= U16Max
         /\ I16Min <= v /\ v <= I16Max =>
               v = IF v % 65536 < 32768 THEN v % 65536 ELSE (v % 65536) - 65536
<1>1. v % 65536 \in Int /\ 0 <= v % 65536 /\ v % 65536 <= U16Max
  BY SMT DEF U16Max
<1>2. 0 <= v /\ v <= I16Max => v % 65536 = v
  BY SMT DEF I16Max
<1>3. I16Min <= v /\ v < 0 => v % 65536 = v + 65536
  <2>1. v \div 65536 \in Int /\ v = 65536 * (v \div 65536) + (v % 65536)
    BY SMT
  <2> QED BY SMT, <1>1, <2>1 DEF U16Max, I16Min
<1> QED BY SMT, <1>1, <1>2, <1>3 DEF U16Max, I16Min, I16Max

\* llround is the nearest tenth of a degree, within the range of the wire.
LEMMA Rounding ==
  ASSUME NEW v \in Int
  PROVE  /\ llround(v) \in Int /\ Nearest(v, llround(v))
         /\ 10 * I16Min <= v /\ v <= 10 * I16Max => I16Min <= llround(v) /\ llround(v) <= I16Max
<1>1. ASSUME NEW u \in Int
      PROVE  u \div 10 \in Int /\ 10 * (u \div 10) <= u /\ u < 10 * (u \div 10) + 10
  OBVIOUS
<1>2. CASE v >= 0
  <2> DEFINE q == (v + 5) \div 10
  <2>1. q \in Int /\ 10 * q <= v + 5 /\ v + 5 < 10 * q + 10 /\ llround(v) = q
    BY <1>1, <1>2 DEF llround
  <2> HIDE DEF q
  <2> QED BY SMT, <1>2, <2>1 DEF Nearest, I16Min, I16Max
<1>3. CASE v < 0
  <2> DEFINE q == (-v + 5) \div 10
  <2>1. q \in Int /\ 10 * q <= -v + 5 /\ -v + 5 < 10 * q + 10 /\ llround(v) = -q
    BY <1>1, <1>3 DEF llround
  <2> HIDE DEF q
  <2> QED BY SMT, <1>3, <2>1 DEF Nearest, I16Min, I16Max
<1> QED BY <1>2, <1>3

\* Two payloads one after the other.
LEMMA Join1 == ASSUME NEW a, NEW b PROVE <<a>> \o <<b>> = <<a, b>>
<1> DEFINE s == <<a>> \o <<b>>
           t == <<a, b>>
<1>1. <<a>> \in Seq({a, b}) /\ <<b>> \in Seq({a, b}) /\ t \in Seq({a, b})
  OBVIOUS
<1>2. /\ s \in Seq({a, b}) /\ Len(s) = 2 /\ Len(t) = 2
      /\ s[1] = t[1] /\ s[2] = t[2]
  BY <1>1
<1>3. \A i \in 1..Len(s) : s[i] = t[i]
  <2>1. \A i \in 1..2 : i = 1 \/ i = 2
    OBVIOUS
  <2> QED BY <1>2, <2>1
<1> QED BY <1>1, <1>2, <1>3, SeqEqual

LEMMA Join2 ==
  ASSUME NEW a, NEW b, NEW c, NEW d PROVE <<a, b>> \o <<c, d>> = <<a, b, c, d>>
<1> DEFINE S == {a, b, c, d}
           s == <<a, b>> \o <<c, d>>
           t == <<a, b, c, d>>
<1>1. <<a, b>> \in Seq(S) /\ <<c, d>> \in Seq(S) /\ t \in Seq(S)
  OBVIOUS
<1>2. /\ s \in Seq(S) /\ Len(s) = 4 /\ Len(t) = 4
      /\ s[1] = t[1] /\ s[2] = t[2] /\ s[3] = t[3] /\ s[4] = t[4]
  BY <1>1
<1>3. \A i \in 1..Len(s) : s[i] = t[i]
  <2>1. \A i \in 1..4 : i = 1 \/ i = 2 \/ i = 3 \/ i = 4
    OBVIOUS
  <2> QED BY <1>2, <2>1
<1> QED BY <1>1, <1>2, <1>3, SeqEqual

LEMMA Halves ==
  ASSUME NEW a, NEW b, NEW c, NEW d, NEW s, s = <<a, b, c, d>>
  PROVE  /\ Len(s) = 4
         /\ SubSeq(s, 1, 2)[1] = a /\ SubSeq(s, 1, 2)[2] = b
         /\ SubSeq(s, 3, 4)[1] = c /\ SubSeq(s, 3, 4)[2] = d
<1>1. s \in Seq({a, b, c, d}) /\ Len(s) = 4
  OBVIOUS
<1>2. s[1] = a /\ s[2] = b /\ s[3] = c /\ s[4] = d
  OBVIOUS
<1> QED BY <1>1, <1>2

\* A payload is bytes and, of values within bounds, decodes to them.
Carries(fr, v, lo, hi) ==
  /\ \A i \in DOMAIN fr.bytes : fr.bytes[i] \in 0..255
  /\ (\A i \in 1..2 : lo <= v[i] /\ v[i] <= hi) => \A i \in 1..2 : Decode(fr)[i] = v[i]

\* Decode undoes the encodings, a value at a time.
LEMMA DecodeU8 ==
  ASSUME NEW v \in Int \X Int
  PROVE  \A fr : fr.bytes = append_u8(v[1]) \o append_u8(v[2]) => Carries(fr, v, 0, 255)
<1>1. SUFFICES ASSUME NEW fr, fr.bytes = append_u8(v[1]) \o append_u8(v[2])
      PROVE  Carries(fr, v, 0, 255)
  BY Zenon
<1>2. fr.bytes = <<v[1] % 256, v[2] % 256>> /\ v[1] \in Int /\ v[2] \in Int
  BY <1>1, Join1 DEF append_u8
<1>3. Decode(fr) = <<v[1] % 256, v[2] % 256>>
  BY <1>2 DEF Decode
<1>4. DOMAIN fr.bytes = 1..2 /\ \A i \in 1..2 : i = 1 \/ i = 2
  BY <1>2
<1> QED BY <1>2, <1>3, <1>4, LowByte DEF Carries

LEMMA DecodeU16 ==
  ASSUME NEW v \in Int \X Int
  PROVE  \A fr : /\ fr.bytes = append_u16_le(v[1]) \o append_u16_le(v[2])
                 /\ fr.fn \notin (IF kind = "Rlht" THEN {2} ELSE {1, 4})
           => Carries(fr, v, 0, U16Max)
<1> DEFINE lo(w) == w % 256
           hi(w) == (w \div 256) % 256
<1>1. SUFFICES ASSUME NEW fr, fr.bytes = append_u16_le(v[1]) \o append_u16_le(v[2]),
                      fr.fn \notin (IF kind = "Rlht" THEN {2} ELSE {1, 4})
      PROVE  Carries(fr, v, 0, U16Max)
  BY Zenon
<1>2. fr.bytes = <<lo(v[1]), hi(v[1]), lo(v[2]), hi(v[2])>>
  BY <1>1, Join2 DEF append_u16_le
<1>3. \A i \in DOMAIN fr.bytes : fr.bytes[i] \in 0..255
  <2>1. DOMAIN fr.bytes = 1..4 /\ \A i \in 1..4 : i = 1 \/ i = 2 \/ i = 3 \/ i = 4
    <3> HIDE DEF lo, hi
    <3> QED BY <1>2
  <2>2. lo(v[1]) \in 0..255 /\ hi(v[1]) \in 0..255 /\ lo(v[2]) \in 0..255 /\ hi(v[2]) \in 0..255
    BY U16
  <2> HIDE DEF lo, hi
  <2> QED BY <1>2, <2>1, <2>2
<1>4. Decode(fr) = <<lo(v[1]) + 256 * hi(v[1]), lo(v[2]) + 256 * hi(v[2])>>
  <2>1. fr.fn \notin (IF kind = "Rlht" THEN {2} ELSE {1, 4})
    BY <1>1
  <2> HIDE DEF lo, hi
  <2> QED BY SMT, <2>1, <1>2, Halves DEF Decode, read_u16_le
<1>5. /\ 0 <= v[1] /\ v[1] <= U16Max => lo(v[1]) + 256 * hi(v[1]) = v[1]
      /\ 0 <= v[2] /\ v[2] <= U16Max => lo(v[2]) + 256 * hi(v[2]) = v[2]
  BY U16
<1>6. (\A i \in 1..2 : 0 <= v[i] /\ v[i] <= U16Max) => \A i \in 1..2 : Decode(fr)[i] = v[i]
  <2>1. \A i \in 1..2 : i = 1 \/ i = 2
    OBVIOUS
  <2> HIDE DEF lo, hi
  <2> QED BY SMT, <1>4, <1>5, <2>1
<1> QED BY <1>3, <1>6, Zenon DEF Carries

LEMMA DecodeI16 ==
  ASSUME NEW v, v[1] \in Int, v[2] \in Int
  PROVE  \A fr : /\ fr.bytes = append_i16_le(v[1]) \o append_i16_le(v[2])
                 /\ fr.fn \in (IF kind = "Rlht" THEN {2} ELSE {1, 4})
           => Carries(fr, v, I16Min, I16Max)
<1> DEFINE w(i) == v[i] % 65536
           lo(u) == u % 256
           hi(u) == (u \div 256) % 256
           signed(u) == IF u < 32768 THEN u ELSE u - 65536
<1>0. SUFFICES ASSUME NEW fr, fr.bytes = append_i16_le(v[1]) \o append_i16_le(v[2]),
                      fr.fn \in (IF kind = "Rlht" THEN {2} ELSE {1, 4})
      PROVE  Carries(fr, v, I16Min, I16Max)
  BY Zenon
<1>1. /\ w(1) \in Int /\ 0 <= w(1) /\ w(1) <= U16Max
      /\ w(2) \in Int /\ 0 <= w(2) /\ w(2) <= U16Max
  BY I16
<1>2. fr.bytes = <<lo(w(1)), hi(w(1)), lo(w(2)), hi(w(2))>>
  BY SMT, <1>0, Join2 DEF append_i16_le, append_u16_le
<1>3. \A i \in DOMAIN fr.bytes : fr.bytes[i] \in 0..255
  <2>1. DOMAIN fr.bytes = 1..4 /\ \A i \in 1..4 : i = 1 \/ i = 2 \/ i = 3 \/ i = 4
    BY <1>2
  <2>2. lo(w(1)) \in 0..255 /\ hi(w(1)) \in 0..255 /\ lo(w(2)) \in 0..255 /\ hi(w(2)) \in 0..255
    <3>1. \A u \in Int : u % 256 \in 0..255 /\ (u \div 256) % 256 \in 0..255
      BY U16
    <3> HIDE DEF w
    <3> QED BY <3>1, <1>1
  <2> HIDE DEF lo, hi, w
  <2> QED BY <1>2, <2>1, <2>2
<1>4. Decode(fr) = <<signed(lo(w(1)) + 256 * hi(w(1))), signed(lo(w(2)) + 256 * hi(w(2)))>>
  <2>1. fr.fn \in (IF kind = "Rlht" THEN {2} ELSE {1, 4})
    BY <1>0
  <2> HIDE DEF lo, hi, w
  <2> QED BY SMT, <2>1, <1>2, Halves DEF Decode, read_i16_le, read_u16_le
<1>5. lo(w(1)) + 256 * hi(w(1)) = w(1) /\ lo(w(2)) + 256 * hi(w(2)) = w(2)
  <2> HIDE DEF w
  <2> QED BY <1>1, U16
<1>6. Decode(fr)[1] = signed(w(1)) /\ Decode(fr)[2] = signed(w(2))
  <2> HIDE DEF lo, hi, w, signed
  <2> QED BY <1>4, <1>5
<1>7. \A i \in 1..2 : i = 1 \/ i = 2
  OBVIOUS
<1> QED BY SMT, <1>3, <1>6, <1>7, I16 DEF Carries

-----------------------------------------------------------------------------
(* build_frame: what it accepts, and what the device makes of it. *)

LEMMA ArgumentFacts ==
  ASSUME NEW a \in Arguments
  PROVE  /\ a.v \in Int \X Int /\ a.v[1] \in Int /\ a.v[2] \in Int
         /\ a.t = "mode" => a.m \in Modes
<1>1. <<0, 0>> \in Int \X Int
  OBVIOUS
<1>2. CASE \E v \in Values : a = Arg("pair", "", v)
  <2>1. PICK v \in Values : a = Arg("pair", "", v)
    BY <1>2
  <2>2. v \in Int \X Int /\ a.v = v /\ a.t = "pair"
    BY <2>1, AdapterAssumption DEF Arg, AdapterAssumption
  <2> QED BY <2>2
<1>3. CASE \E m \in Modes : a = Arg("mode", m, <<0, 0>>)
  BY <1>1, <1>3 DEF Arg
<1>4. CASE a = NoArg
  BY <1>1, <1>4 DEF Arg, NoArg
<1> QED BY <1>2, <1>3, <1>4 DEF Arguments

LEMMA NoBytes == \A s : s = <<>> => \A i \in DOMAIN s : s[i] \in 0..255
<1>1. DOMAIN <<>> = {}
  OBVIOUS
<1> QED BY <1>1

\* Both channel values are there and lie within bounds.
Within(a, lo, hi) == a.t = "pair" /\ \A i \in 1..2 : lo <= a.v[i] /\ a.v[i] <= hi

\* A frame is built of exactly the values within the bounds, and decodes to them.
Exact(fn, a, fr, lo, hi) ==
  /\ fr.code \in {"OK", "INVALID_ARGUMENT", "OUT_OF_RANGE"}
  /\ fr.code = "OK" <=> Within(a, lo, hi)
  /\ \A i \in DOMAIN fr.bytes : fr.bytes[i] \in 0..255
  /\ fr.code = "OK" => fr.fn = fn /\ \A i \in 1..2 : Decode(fr)[i] = a.v[i]

\* A frame is built of the values within the bounds, or refused.
Filtered(fn, a, lo, hi, bytes, fr) ==
  /\ fr.code \in {"OK", "INVALID_ARGUMENT", "OUT_OF_RANGE"}
  /\ fr.code = "OK" <=> Within(a, lo, hi)
  /\ fr.code = "OK" => fr.fn = fn /\ fr.bytes = bytes
  /\ fr.code # "OK" => fr.bytes = <<>>

\* The bounds imply the type.
LEMMA CheckedFacts ==
  ASSUME NEW fn \in Nat, NEW a \in Arguments, NEW type,
         NEW lo \in Int, NEW hi \in Int, NEW bytes,
         type = "uint64" => 0 <= lo, type = "bool" => lo = 0 /\ hi = 1
  PROVE  \A fr : fr = Checked(fn, a, type, lo, hi, bytes) =>
                   Filtered(fn, a, lo, hi, bytes, fr)
<1>1. SUFFICES ASSUME NEW fr, fr = Checked(fn, a, type, lo, hi, bytes)
      PROVE  Filtered(fn, a, lo, hi, bytes, fr)
  BY Zenon
<1>2. Within(a, lo, hi) => HasType(a, type)
  BY ArgumentFacts DEF Within, HasType
<1>3. CASE Within(a, lo, hi)
  <2>1. fr = [code |-> "OK", fn |-> fn, m |-> "", bytes |-> bytes]
    BY Zenon, <1>1, <1>2, <1>3 DEF Checked, Within, Success
  <2>2. fr.code = "OK" /\ fr.fn = fn /\ fr.bytes = bytes
    BY <2>1
  <2> QED BY <1>3, <2>2 DEF Filtered
<1>4. CASE ~Within(a, lo, hi)
  <2>1. PICK c \in {"INVALID_ARGUMENT", "OUT_OF_RANGE"} :
           fr = [code |-> c, fn |-> 0, m |-> "", bytes |-> <<>>]
    BY Zenon, <1>1, <1>4 DEF Checked, Within, HasType, Failure
  <2>2. /\ fr.code \in {"INVALID_ARGUMENT", "OUT_OF_RANGE"} /\ fr.code # "OK"
        /\ fr.bytes = <<>>
    BY <2>1
  <2> QED BY <1>4, <2>2 DEF Filtered
<1> QED BY <1>3, <1>4

LEMMA CheckedU8 ==
  ASSUME NEW fn \in Nat, NEW a \in Arguments, NEW type \in {"uint64", "bool"},
         NEW lo \in Int, NEW hi \in Int,
         0 <= lo, hi <= 255,
         type = "bool" => lo = 0 /\ hi = 1
  PROVE  \A fr : fr = Checked(fn, a, type, lo, hi, append_u8(a.v[1]) \o append_u8(a.v[2]))
                   => Exact(fn, a, fr, lo, hi)
<1> DEFINE bytes == append_u8(a.v[1]) \o append_u8(a.v[2])
<1>1. SUFFICES ASSUME NEW fr, fr = Checked(fn, a, type, lo, hi, bytes)
      PROVE  Exact(fn, a, fr, lo, hi)
  BY Zenon
<1>2. Filtered(fn, a, lo, hi, bytes, fr)
  <2> HIDE DEF bytes
  <2>1. (type = "uint64" => 0 <= lo) /\ (type = "bool" => lo = 0 /\ hi = 1)
    BY SMT
  <2> QED BY Zenon, <1>1, <2>1, CheckedFacts
<1>3. CASE fr.code = "OK"
  <2>1. \A i \in 1..2 : 0 <= a.v[i] /\ a.v[i] <= 255
    BY SMT, <1>2, <1>3, ArgumentFacts DEF Filtered, Within, U16Max, I16Min, I16Max
  <2>2. a.v \in Int \X Int /\ a.v[1] \in Int /\ a.v[2] \in Int
    BY ArgumentFacts
  <2>3. fr.fn = fn /\ fr.bytes = bytes
    BY <1>2, <1>3 DEF Filtered
  <2>4. Carries(fr, a.v, 0, 255)
    BY Zenon, <2>2, <2>3, DecodeU8
  <2> QED BY Zenon, <1>2, <1>3, <2>1, <2>3, <2>4 DEF Exact, Carries, Filtered
<1>4. CASE fr.code # "OK"
  BY Zenon, <1>2, <1>4, NoBytes DEF Exact, Filtered
<1> QED BY Zenon, <1>3, <1>4

LEMMA CheckedU16 ==
  ASSUME NEW fn \in Nat, NEW a \in Arguments, NEW lo \in Int, NEW hi \in Int,
         0 <= lo, hi <= U16Max,
         fn \notin (IF kind = "Rlht" THEN {2} ELSE {1, 4})
  PROVE  \A fr : fr = Checked(fn, a, "uint64", lo, hi, append_u16_le(a.v[1]) \o append_u16_le(a.v[2]))
                   => Exact(fn, a, fr, lo, hi)
<1> DEFINE bytes == append_u16_le(a.v[1]) \o append_u16_le(a.v[2])
<1>1. SUFFICES ASSUME NEW fr, fr = Checked(fn, a, "uint64", lo, hi, bytes)
      PROVE  Exact(fn, a, fr, lo, hi)
  BY Zenon
<1>2. Filtered(fn, a, lo, hi, bytes, fr)
  <2> HIDE DEF bytes
  <2>1. ("uint64" = "uint64" => 0 <= lo) /\ ("uint64" = "bool" => lo = 0 /\ hi = 1)
    BY SMT
  <2> QED BY Zenon, <1>1, <2>1, CheckedFacts
<1>3. CASE fr.code = "OK"
  <2>1. \A i \in 1..2 : 0 <= a.v[i] /\ a.v[i] <= U16Max
    BY SMT, <1>2, <1>3, ArgumentFacts DEF Filtered, Within, U16Max, I16Min, I16Max
  <2>2. a.v \in Int \X Int /\ a.v[1] \in Int /\ a.v[2] \in Int
    BY ArgumentFacts
  <2>3. fr.fn = fn /\ fr.bytes = bytes
    BY <1>2, <1>3 DEF Filtered
  <2>4. Carries(fr, a.v, 0, U16Max)
    BY Zenon, <2>2, <2>3, DecodeU16
  <2> QED BY Zenon, <1>2, <1>3, <2>1, <2>3, <2>4 DEF Exact, Carries, Filtered
<1>4. CASE fr.code # "OK"
  BY Zenon, <1>2, <1>4, NoBytes DEF Exact, Filtered
<1> QED BY Zenon, <1>3, <1>4

LEMMA CheckedI16 ==
  ASSUME NEW fn \in Nat, NEW a \in Arguments, NEW lo \in Int, NEW hi \in Int,
         I16Min <= lo, hi <= I16Max,
         fn \in (IF kind = "Rlht" THEN {2} ELSE {1, 4})
  PROVE  \A fr : fr = Checked(fn, a, "int64", lo, hi, append_i16_le(a.v[1]) \o append_i16_le(a.v[2]))
                   => Exact(fn, a, fr, lo, hi)
<1> DEFINE bytes == append_i16_le(a.v[1]) \o append_i16_le(a.v[2])
<1>1. SUFFICES ASSUME NEW fr, fr = Checked(fn, a, "int64", lo, hi, bytes)
      PROVE  Exact(fn, a, fr, lo, hi)
  BY Zenon
<1>2. Filtered(fn, a, lo, hi, bytes, fr)
  <2> HIDE DEF bytes
  <2>1. ("int64" = "uint64" => 0 <= lo) /\ ("int64" = "bool" => lo = 0 /\ hi = 1)
    BY SMT
  <2> QED BY Zenon, <1>1, <2>1, CheckedFacts
<1>3. CASE fr.code = "OK"
  <2>1. \A i \in 1..2 : I16Min <= a.v[i] /\ a.v[i] <= I16Max
    BY SMT, <1>2, <1>3, ArgumentFacts DEF Filtered, Within, U16Max, I16Min, I16Max
  <2>2. a.v \in Int \X Int /\ a.v[1] \in Int /\ a.v[2] \in Int
    BY ArgumentFacts
  <2>3. fr.fn = fn /\ fr.bytes = bytes
    BY <1>2, <1>3 DEF Filtered
  <2>4. Carries(fr, a.v, I16Min, I16Max)
    BY Zenon, <2>2, <2>3, DecodeI16
  <2> QED BY Zenon, <1>2, <1>3, <2>1, <2>3, <2>4 DEF Exact, Carries, Filtered
<1>4. CASE fr.code # "OK"
  BY Zenon, <1>2, <1>4, NoBytes DEF Exact, Filtered
<1> QED BY Zenon, <1>3, <1>4
\* Every function that takes channel values, but the RLHT's setpoints, is built
\* of exactly the values the inventory declares.
LEMMA ExactFrame ==
  ASSUME NEW fn \in 1..7, NEW a \in Arguments, kind \in {"Rlht", "Dcmt"},
         ~IsSetMode(fn), fn # ClearTrip, kind = "Rlht" => fn # 2
  PROVE  Exact(fn, a, build_frame(fn, a), Declared(fn)[1], Declared(fn)[2])
<1> DEFINE lo == Declared(fn)[1]
           hi == Declared(fn)[2]
           fr == build_frame(fn, a)
<1> SUFFICES Exact(fn, a, fr, lo, hi)
  OBVIOUS
<1>1. fn \in Nat
  OBVIOUS
<1>2. \/ kind = "Rlht" /\ fn \in {3, 5, 6}
      \/ kind = "Rlht" /\ fn = 4
      \/ kind = "Dcmt" /\ fn = 2
      \/ kind = "Dcmt" /\ fn \in {5, 7}
      \/ kind = "Dcmt" /\ fn \in {1, 4}
  BY SMT DEF IsSetMode, ClearTrip
<1>3. CASE kind = "Rlht" /\ fn \in {3, 5, 6}
  <2>1. lo \in Int /\ hi \in Int /\ 0 <= lo /\ hi <= 255
    BY SMT, <1>3 DEF Declared, build_rlht_capabilities
  <2>2. fr = Checked(fn, a, "uint64", lo, hi, append_u8(a.v[1]) \o append_u8(a.v[2]))
    <3>1. CASE fn = 3
      BY SMT, <1>3, <3>1 DEF build_frame, rlht_build_frame, Both, Declared, build_rlht_capabilities
    <3>2. CASE fn = 5
      BY SMT, <1>3, <3>2 DEF build_frame, rlht_build_frame, Both, Declared, build_rlht_capabilities
    <3>3. CASE fn = 6
      BY SMT, <1>3, <3>3 DEF build_frame, rlht_build_frame, Both, Declared, build_rlht_capabilities
    <3> QED BY Zenon, <1>3, <3>1, <3>2, <3>3
  <2>3. "uint64" \in {"uint64", "bool"} /\ "uint64" # "bool"
    OBVIOUS
  <2> HIDE DEF lo, hi, fr
  <2> QED BY Zenon, <1>1, <2>1, <2>2, <2>3, CheckedU8
<1>4. CASE kind = "Rlht" /\ fn = 4
  <2>1. lo \in Int /\ hi \in Int /\ 0 <= lo /\ hi <= U16Max
    BY SMT, <1>4 DEF Declared, build_rlht_capabilities, U16Max
  <2>2. fr = Checked(fn, a, "uint64", lo, hi, append_u16_le(a.v[1]) \o append_u16_le(a.v[2]))
    BY SMT, <1>4 DEF build_frame, rlht_build_frame, Both, Declared, build_rlht_capabilities
  <2>3. fn \notin (IF kind = "Rlht" THEN {2} ELSE {1, 4})
    BY <1>4
  <2> HIDE DEF lo, hi, fr
  <2> QED BY Zenon, <1>1, <2>1, <2>2, <2>3, CheckedU16
<1>5. CASE kind = "Dcmt" /\ fn = 2
  <2>1. lo \in Int /\ hi \in Int /\ 0 <= lo /\ hi <= 255 /\ lo = 0 /\ hi = 1
    BY SMT, <1>5 DEF Declared, build_dcmt_capabilities
  <2>2. fr = Checked(fn, a, "bool", lo, hi, append_u8(a.v[1]) \o append_u8(a.v[2]))
    BY SMT, <1>5 DEF build_frame, dcmt_build_frame, Both, Declared, build_dcmt_capabilities
  <2>3. "bool" \in {"uint64", "bool"}
    OBVIOUS
  <2> HIDE DEF lo, hi, fr
  <2> QED BY Zenon, <1>1, <2>1, <2>2, <2>3, CheckedU8
<1>6. CASE kind = "Dcmt" /\ fn \in {5, 7}
  <2>1. lo \in Int /\ hi \in Int /\ 0 <= lo /\ hi <= U16Max
    BY SMT, <1>6 DEF Declared, build_dcmt_capabilities, U16Max
  <2>2. fr = Checked(fn, a, "uint64", lo, hi, append_u16_le(a.v[1]) \o append_u16_le(a.v[2]))
    <3>1. CASE fn = 5
      BY SMT, <1>6, <3>1 DEF build_frame, dcmt_build_frame, Both, Declared, build_dcmt_capabilities
    <3>2. CASE fn = 7
      BY SMT, <1>6, <3>2 DEF build_frame, dcmt_build_frame, Both, Declared, build_dcmt_capabilities
    <3> QED BY Zenon, <1>6, <3>1, <3>2
  <2>3. fn \notin (IF kind = "Rlht" THEN {2} ELSE {1, 4})
    BY <1>6
  <2> HIDE DEF lo, hi, fr
  <2> QED BY Zenon, <1>1, <2>1, <2>2, <2>3, CheckedU16
<1>7. CASE kind = "Dcmt" /\ fn \in {1, 4}
  <2>1. lo \in Int /\ hi \in Int /\ I16Min <= lo /\ hi <= I16Max
    BY SMT, <1>7 DEF Declared, build_dcmt_capabilities, I16Min, I16Max
  <2>2. fr = Checked(fn, a, "int64", lo, hi, append_i16_le(a.v[1]) \o append_i16_le(a.v[2]))
    <3>1. CASE fn = 1
      BY SMT, <1>7, <3>1 DEF build_frame, dcmt_build_frame, Both, Declared, build_dcmt_capabilities
    <3>2. CASE fn = 4
      BY SMT, <1>7, <3>2 DEF build_frame, dcmt_build_frame, Both, Declared, build_dcmt_capabilities
    <3> QED BY Zenon, <1>7, <3>1, <3>2
  <2>3. fn \in (IF kind = "Rlht" THEN {2} ELSE {1, 4})
    BY <1>7
  <2> HIDE DEF lo, hi, fr
  <2> QED BY Zenon, <1>1, <2>1, <2>2, <2>3, CheckedI16
<1> QED BY <1>2, <1>3, <1>4, <1>5, <1>6, <1>7

\* set_setpoints of the RLHT: what it declares, rounded to the wire's tenths.
Rounded(fn, a, fr, lo, hi) ==
  /\ fr.code \in {"OK", "INVALID_ARGUMENT", "OUT_OF_RANGE"}
  /\ fr.code = "OK" <=> Within(a, lo, hi)
  /\ \A i \in DOMAIN fr.bytes : fr.bytes[i] \in 0..255
  /\ fr.code = "OK" => fr.fn = fn /\ \A i \in 1..2 : Nearest(a.v[i], Decode(fr)[i])

LEMMA SetpointFrame ==
  ASSUME NEW a \in Arguments, kind = "Rlht"
  PROVE  Rounded(2, a, build_frame(2, a), Declared(2)[1], Declared(2)[2])
<1> DEFINE lo == Declared(2)[1]
           hi == Declared(2)[2]
           fr == build_frame(2, a)
           w == [i \in 1..2 |-> llround(a.v[i])]
           bytes == append_i16_le(w[1]) \o append_i16_le(w[2])
<1> SUFFICES Rounded(2, a, fr, lo, hi)
  OBVIOUS
<1>1. w[1] = llround(a.v[1]) /\ w[2] = llround(a.v[2]) /\ w[1] \in Int /\ w[2] \in Int
  BY ArgumentFacts, Rounding
<1>2. lo \in Int /\ hi \in Int /\ lo = 10 * I16Min /\ hi = 10 * I16Max
  BY SMT DEF Declared, build_rlht_capabilities, I16Min, I16Max
<1>3. fr = Checked(2, a, "double", lo, hi, bytes)
  BY SMT DEF build_frame, rlht_build_frame, Both, Declared, build_rlht_capabilities
<1>4. Filtered(2, a, lo, hi, bytes, fr)
  <2>1. 2 \in Nat /\ "double" # "uint64" /\ "double" # "bool"
    OBVIOUS
  <2> HIDE DEF lo, hi, fr, bytes
  <2> QED BY Zenon, <1>2, <1>3, <2>1, CheckedFacts
<1> HIDE DEF lo, hi, fr
<1>5. CASE fr.code = "OK"
  <2>1. \A i \in 1..2 : lo <= a.v[i] /\ a.v[i] <= hi
    BY <1>4, <1>5 DEF Filtered, Within
  <2>2. \A i \in 1..2 : I16Min <= w[i] /\ w[i] <= I16Max /\ Nearest(a.v[i], w[i])
    <3>1. \A i \in 1..2 : i = 1 \/ i = 2
      OBVIOUS
    <3> HIDE DEF w
    <3> QED BY SMT, <3>1, <1>1, <1>2, <2>1, ArgumentFacts, Rounding
  <2>3. fr.fn = 2 /\ fr.bytes = bytes /\ fr.fn \in (IF kind = "Rlht" THEN {2} ELSE {1, 4})
    BY <1>4, <1>5 DEF Filtered
  <2> HIDE DEF w
  <2>4. Carries(fr, w, I16Min, I16Max)
    BY Zenon, <1>1, <2>3, DecodeI16
  <2> QED BY Zenon, <1>4, <1>5, <2>2, <2>3, <2>4 DEF Rounded, Filtered, Carries
<1>6. CASE fr.code # "OK"
  BY Zenon, <1>4, <1>6, NoBytes DEF Rounded, Filtered
<1> QED BY <1>5, <1>6
\* The modes a device has.
OwnModes == IF kind = "Rlht" THEN {"open_loop", "closed_loop"}
            ELSE {"open_loop", "closed_position", "closed_speed"}

ModeOK(fn, a, fr) ==
  /\ fr.code \in {"OK", "INVALID_ARGUMENT"} /\ fr.bytes = <<>>
  /\ fr.code = "OK" <=> a.t = "mode" /\ a.m \in OwnModes
  /\ fr.code = "OK" => fr.fn = fn /\ fr.m = a.m

LEMMA ModeFrame ==
  ASSUME NEW fn \in 1..7, NEW a \in Arguments, kind \in {"Rlht", "Dcmt"}, IsSetMode(fn)
  PROVE  ModeOK(fn, a, build_frame(fn, a))
<1>1. SUFFICES ASSUME NEW fr, fr = build_frame(fn, a)
      PROVE  ModeOK(fn, a, fr)
  BY Zenon
<1>2. fr = CheckedMode(fn, a, OwnModes)
  <2>1. CASE kind = "Rlht"
    BY SMT, <1>1, <2>1 DEF IsSetMode, build_frame, rlht_build_frame, OwnModes
  <2>2. CASE kind = "Dcmt"
    BY SMT, <1>1, <2>2 DEF IsSetMode, build_frame, dcmt_build_frame, OwnModes
  <2> QED BY <2>1, <2>2
<1>3. CASE a.t = "mode" /\ a.m \in OwnModes
  <2>1. fr = [code |-> "OK", fn |-> fn, m |-> a.m, bytes |-> <<>>]
    BY Zenon, <1>2, <1>3 DEF CheckedMode, Success
  <2>2. fr.code = "OK" /\ fr.fn = fn /\ fr.m = a.m /\ fr.bytes = <<>>
    BY <2>1
  <2> QED BY <1>3, <2>2 DEF ModeOK
<1>4. CASE ~(a.t = "mode" /\ a.m \in OwnModes)
  <2>1. fr = [code |-> "INVALID_ARGUMENT", fn |-> 0, m |-> "", bytes |-> <<>>]
    BY Zenon, <1>2, <1>4 DEF CheckedMode, Failure
  <2>2. fr.code = "INVALID_ARGUMENT" /\ fr.bytes = <<>>
    BY <2>1
  <2> QED BY <1>4, <2>2 DEF ModeOK
<1> QED BY <1>3, <1>4

Bare(fn, fr) == fr.code = "OK" /\ fr.bytes = <<>> /\ fr.fn = fn

LEMMA ClearTripFrame ==
  ASSUME NEW fn \in 1..7, NEW a, kind \in {"Rlht", "Dcmt"}, fn = ClearTrip
  PROVE  Bare(fn, build_frame(fn, a))
<1>1. SUFFICES ASSUME NEW fr, fr = build_frame(fn, a)
      PROVE  Bare(fn, fr)
  BY Zenon
<1>2. fr = Success(fn, "", <<>>)
  <2>1. CASE kind = "Rlht"
    <3>1. fn = 7
      BY <2>1 DEF ClearTrip
    <3>2. build_frame(7, a) = Success(7, "", <<>>)
      BY SMT, <2>1 DEF build_frame, rlht_build_frame
    <3> QED BY Zenon, <1>1, <3>1, <3>2
  <2>2. CASE kind = "Dcmt"
    <3>1. fn = 6
      BY <2>2 DEF ClearTrip
    <3>2. build_frame(6, a) = Success(6, "", <<>>)
      BY SMT, <2>2 DEF build_frame, dcmt_build_frame
    <3> QED BY Zenon, <1>1, <3>1, <3>2
  <2> QED BY <2>1, <2>2
<1>3. fr = [code |-> "OK", fn |-> fn, m |-> "", bytes |-> <<>>]
  BY Zenon, <1>2 DEF Success
<1> QED BY <1>3 DEF Bare

LEMMA NoFrame ==
  ASSUME NEW a, kind \in {"Rlht", "Dcmt"}
  PROVE  build_frame(8, a) = Failure("NOT_FOUND")
<1>1. CASE kind = "Rlht"
  BY SMT, <1>1 DEF build_frame, rlht_build_frame
<1>2. CASE kind = "Dcmt"
  BY SMT, <1>2 DEF build_frame, dcmt_build_frame
<1> QED BY <1>1, <1>2

LEMMA NotFoundFacts ==
  \A fr : fr = Failure("NOT_FOUND") => fr.code = "NOT_FOUND" /\ fr.bytes = <<>>
<1>1. SUFFICES ASSUME NEW fr, fr = Failure("NOT_FOUND")
      PROVE  fr.code = "NOT_FOUND" /\ fr.bytes = <<>>
  BY Zenon
<1>2. fr = [code |-> "NOT_FOUND", fn |-> 0, m |-> "", bytes |-> <<>>]
  BY Zenon, <1>1 DEF Failure
<1> QED BY <1>2

\* What build_frame makes of a call: bytes; of a function that exists a frame of
\* that function as asked, if the argument is declared, and otherwise, but for a
\* mode, a refusal.
FrameOK(fn, a, fr) ==
  /\ fr.code \in {"OK", "INVALID_ARGUMENT", "OUT_OF_RANGE", "NOT_FOUND"}
  /\ \A i \in DOMAIN fr.bytes : fr.bytes[i] \in 0..255
  /\ fr.code = "OK" => fr.fn = fn
  /\ fr.code = "OK" =>
        IF IsSetMode(fn) THEN fr.m = a.m /\ a.m \in OwnModes
        ELSE fn = ClearTrip \/ \A i \in 1..2 :
                IF kind = "Rlht" /\ fn = 2 THEN Nearest(a.v[i], Decode(fr)[i])
                                          ELSE Decode(fr)[i] = a.v[i]
  /\ fn \in 1..7 /\ InDeclared(fn, a) => fr.code = "OK"
  /\ fn \in 1..7 /\ ~InDeclared(fn, a) /\ ~IsSetMode(fn) =>
        fr.code \in {"INVALID_ARGUMENT", "OUT_OF_RANGE"}
  /\ fn \in 1..7 => fr.code # "NOT_FOUND"

LEMMA FrameFacts ==
  ASSUME NEW fn \in 1..8, NEW a \in Arguments, kind \in {"Rlht", "Dcmt"}
  PROVE  FrameOK(fn, a, build_frame(fn, a))
<1> DEFINE fr == build_frame(fn, a)
           lo == Declared(fn)[1]
           hi == Declared(fn)[2]
<1>1. SUFFICES FrameOK(fn, a, fr)
  OBVIOUS
<1>2. CASE fn = 8
  <2>1. fr = Failure("NOT_FOUND")
    BY <1>2, NoFrame
  <2> HIDE DEF fr
  <2>2. fr.code = "NOT_FOUND" /\ fr.bytes = <<>>
    BY Zenon, <2>1, NotFoundFacts
  <2>3. fn \notin 1..7
    BY <1>2
  <2> QED BY Zenon, <2>2, <2>3, NoBytes DEF FrameOK
<1>3. CASE fn \in 1..7 /\ IsSetMode(fn)
  <2>1. ModeOK(fn, a, fr)
    BY Zenon, <1>3, ModeFrame
  <2>2. fn # ClearTrip
    BY SMT, <1>3 DEF IsSetMode, ClearTrip
  <2>3. InDeclared(fn, a) => a.t = "mode" /\ a.m \in OwnModes
    BY Zenon, <1>3, <2>2 DEF InDeclared, DeclaredModes, OwnModes
  <2> HIDE DEF fr
  <2> QED BY Zenon, <1>3, <2>1, <2>2, <2>3, NoBytes DEF FrameOK, ModeOK
<1>4. CASE fn \in 1..7 /\ fn = ClearTrip
  <2>1. Bare(fn, fr)
    BY <1>4, ClearTripFrame
  <2>2. ~IsSetMode(fn)
    BY SMT, <1>4 DEF IsSetMode, ClearTrip
  <2>3. InDeclared(fn, a)
    BY Zenon, <1>4 DEF InDeclared
  <2> HIDE DEF fr
  <2> QED BY Zenon, <1>4, <2>1, <2>2, <2>3, NoBytes DEF FrameOK, Bare
<1>5. CASE fn \in 1..7 /\ ~IsSetMode(fn) /\ fn # ClearTrip
  <2>1. InDeclared(fn, a) <=> Within(a, lo, hi)
    BY Zenon, <1>5 DEF InDeclared, Within
  <2>2. CASE kind = "Rlht" /\ fn = 2
    <3>1. Rounded(fn, a, fr, lo, hi)
      BY Zenon, <2>2, SetpointFrame
    <3> HIDE DEF fr, lo, hi
    <3> QED BY Zenon, <1>5, <2>1, <2>2, <3>1 DEF FrameOK, Rounded
  <2>3. CASE ~(kind = "Rlht" /\ fn = 2)
    <3>1. Exact(fn, a, fr, lo, hi)
      BY Zenon, <1>5, <2>3, ExactFrame
    <3> HIDE DEF fr, lo, hi
    <3> QED BY Zenon, <1>5, <2>1, <2>3, <3>1 DEF FrameOK, Exact
  <2> QED BY <2>2, <2>3
<1>6. fn = 8 \/ fn \in 1..7
  OBVIOUS
<1> QED BY Zenon, <1>2, <1>3, <1>4, <1>5, <1>6
-----------------------------------------------------------------------------
(* What a step of the handlers leaves alone: the device and its firmware. *)

LEMMA Same ==
  ASSUME UNCHANGED config
  PROVE  /\ \A fn, a : build_frame(fn, a)' = build_frame(fn, a)
         /\ \A fn : Offered(fn)' <=> Offered(fn)
         /\ \A fr : Decode(fr)' = Decode(fr)
         /\ \A fr : Driven(fr)' = Driven(fr)
         /\ \A fr : AllowedMode(fr)' <=> AllowedMode(fr)
         /\ \A fr, on : Command(fr, on)' = Command(fr, on)
         /\ set_confirmation' = set_confirmation
<1>0. kind' = kind /\ encoders' = encoders /\ flags' = flags /\ acks' = acks
  BY DEF config
<1>1. \A fn, a : build_frame(fn, a)' = build_frame(fn, a)
  BY <1>0, Zenon DEF build_frame
<1>2. \A fn : Offered(fn)' <=> Offered(fn)
  <2>1. OfferedFlags' = OfferedFlags /\ ClearTrip' = ClearTrip
    BY <1>0, Zenon DEF ClearTrip, OfferedFlags
  <2> QED BY <1>0, <2>1 DEF Offered
<1>3. \A fr : Decode(fr)' = Decode(fr)
  BY <1>0, Zenon DEF Decode
<1>4. \A fr : Driven(fr)' = Driven(fr)
  BY <1>0, <1>3, Zenon DEF Driven
<1>5. \A fr : AllowedMode(fr)' <=> AllowedMode(fr)
  BY <1>0, Zenon DEF AllowedMode, IsSetMode
<1>6. \A fr, on : Command(fr, on)' = Command(fr, on)
  BY <1>3, Zenon DEF Command
<1>7. set_confirmation' = set_confirmation
  BY <1>0, Zenon DEF set_confirmation
<1> QED BY <1>1, <1>2, <1>3, <1>4, <1>5, <1>6, <1>7, Zenon

-----------------------------------------------------------------------------
(* The invariant. *)

LEMMA EventFacts ==
  ASSUME events \in 0..MaxEvents, Event
  PROVE  events' \in 0..MaxEvents /\ events' # 0
BY AdapterAssumption DEF Event, AdapterAssumption

\* Nothing that a read's answer rests on has changed.
LEMMA SameReplies ==
  ASSUME UNCHANGED config, mode' = mode, sentinel' = sentinel
  PROVE  States' = States /\ (\A r : parse_state(kind, flags, r)' <=> parse_state(kind, flags, r))
         /\ (\A r, i : Serve(kind, flags, r, i)' = Serve(kind, flags, r, i))
<1>1. kind' = kind /\ flags' = flags
  BY DEF config
<1> QED BY <1>1, Zenon DEF States

LEMMA InitInvariant == Init => Inv
<1> SUFFICES ASSUME Init PROVE Inv
  OBVIOUS
<1> USE DEF Init
<1>1. 0 \in 0..MaxEvents /\ 0 \in 0..8
  BY AdapterAssumption DEF AdapterAssumption
<1>2. TypeOK
  <2>1. frame.code = "NOT_FOUND" /\ frame.bytes = <<>>
    BY Zenon, NotFoundFacts
  <2>2. flags \subseteq Flags
    BY AdapterAssumption DEF AdapterAssumption
  <2>3. arg \in Arguments
    BY Zenon DEF Arguments
  <2> QED BY Zenon, <1>1, <2>1, <2>2, <2>3, NoBytes DEF TypeOK, Codes, Modes
<1>3. CallInv /\ RefusalInv /\ BrakeInv
  BY Zenon DEF CallInv, RefusalInv, BrakeInv, Returned, BrakedIsRefused
<1>4. ModeInv
  BY Zenon DEF ModeInv, NoLoopWithoutEncoders
<1>5. ReadInv
  BY Zenon DEF ReadInv
<1> QED BY Zenon, <1>2, <1>3, <1>4, <1>5 DEF Inv

LEMMA CallInvariant ==
  ASSUME Inv, NEW fn \in 1..8, NEW a \in Arguments, Call(fn, a)
  PROVE  Inv'
<1>1. /\ UNCHANGED config /\ UNCHANGED <<kind, encoders, flags, acks, session>>
      /\ UNCHANGED <<mode, brakes, sentinel, applied>>
      /\ UNCHANGED <<ids, reply, values, rejected>> /\ events' = events
  BY Zenon DEF Call, config, device, read
<1>2. /\ pc = "idle" /\ f' = fn /\ arg' = a /\ braked' = FALSE /\ blind' = FALSE
      /\ frame' = build_frame(fn, a)
  BY Zenon DEF Call
<1>3. fn \in 0..8 /\ fn # 0
  BY SMT
<1>4. FrameOK(fn, a, frame')
  <2>1. kind \in {"Rlht", "Dcmt"}
    BY DEF Inv, TypeOK
  <2> QED BY Zenon, <1>2, <2>1, FrameFacts
<1>5. \/ ~Offered(fn) /\ pc' = "returned" /\ code' = "NOT_FOUND"
      \/ Offered(fn) /\ frame'.code # "OK" /\ pc' = "returned" /\ code' = frame'.code
      \/ /\ Offered(fn) /\ frame'.code = "OK"
         /\ (pc' = "check" /\ code' = "OK") \/ (pc' = "returned" /\ code' = "UNAVAILABLE")
  BY Zenon DEF Call, Answer
<1>6. applied = NoCommand /\ reply = NoState /\ values = {} /\ ids = {} /\ ~rejected
  BY Zenon, <1>2 DEF Inv, CallInv, ReadInv
<1>7. TypeOK'
  <2>1. frame'.code \in Codes /\ \A i \in DOMAIN frame'.bytes : frame'.bytes[i] \in 0..255
    BY Zenon, <1>4 DEF FrameOK, Codes
  <2>2. code' \in Codes /\ pc' \in {"idle", "check", "send", "returned"}
    BY Zenon, <1>5, <2>1 DEF Codes
  <2>3. reply' \in States' \cup {NoState} /\ ids' \in Requests \cup {{}} /\ ~rejected'
    BY Zenon, <1>1, <1>6
  <2> QED BY Zenon, <1>1, <1>2, <1>3, <2>1, <2>2, <2>3 DEF Inv, TypeOK
<1>8. CallInv'
  BY Zenon, <1>1, <1>2, <1>3, <1>5, <1>6, Same DEF CallInv, Returned
<1>9. RefusalInv'
  BY Zenon, <1>1, <1>2, <1>5, <1>6, Same DEF RefusalInv, Returned
<1>10. ModeInv'
  BY Zenon, <1>1 DEF Inv, ModeInv, NoLoopWithoutEncoders
<1>11. BrakeInv'
  BY Zenon, <1>1, <1>5, <1>6 DEF BrakeInv, BrakedIsRefused, Returned
<1>12. ReadInv'
  BY Zenon, <1>1, <1>6 DEF ReadInv
<1> QED BY Zenon, <1>7, <1>8, <1>9, <1>10, <1>11, <1>12 DEF Inv

LEMMA CheckInvariant ==
  ASSUME Inv, Check
  PROVE  Inv'
<1>1. /\ UNCHANGED config /\ UNCHANGED <<kind, encoders, flags, acks, session>>
      /\ UNCHANGED <<mode, brakes, sentinel, applied>> /\ UNCHANGED <<f, arg, frame, braked>>
      /\ UNCHANGED <<ids, reply, values, rejected>>
  BY Zenon DEF Check, config, device, read
<1>2. /\ pc = "check" /\ f # 0 /\ Offered(f) /\ frame.code = "OK" /\ applied = NoCommand
      /\ frame = build_frame(f, arg)
  BY Zenon DEF Check, Inv, CallInv
<1>3. reply = NoState /\ values = {} /\ ids = {} /\ ~rejected
  BY Zenon, <1>2 DEF Inv, ReadInv
\* A motor command has no mode.
<1>4. Driven(frame) # {} => AllowedMode(frame)
  <2>1. (\E i \in 1..2 : kind = "Dcmt" /\ frame.fn \in {1, 4}) => ~IsSetMode(frame.fn)
    BY DEF IsSetMode
  <2> QED BY Zenon, <2>1 DEF Driven, AllowedMode
<1>5. \/ AllowedMode(frame) /\ pc' = "send" /\ blind' = blind /\ code' = code
         /\ Driven(frame) \cap brakes = {}
      \/ AllowedMode(frame) /\ pc' = "send" /\ blind' = TRUE /\ code' = code
      \/ ~AllowedMode(frame) /\ pc' = "returned" /\ code' = "INVALID_ARGUMENT"
         /\ blind' = blind
      \/ pc' = "returned" /\ code' = "FAILED_PRECONDITION" /\ blind' = blind
  <2>1. CASE /\ Driven(frame) = {}
             /\ IF AllowedMode(frame) THEN pc' = "send" /\ UNCHANGED code
                                      ELSE Answer("INVALID_ARGUMENT")
             /\ UNCHANGED <<blind, events>>
    BY Zenon, <2>1 DEF Answer
  <2>2. CASE /\ Driven(frame) # {} /\ UNCHANGED events
             /\ \E r \in States :
                  IF ~parse_state(kind, flags, r)
                  THEN pc' = "send" /\ blind' = TRUE /\ UNCHANGED code
                  ELSE /\ IF Braked(frame) THEN Answer("FAILED_PRECONDITION")
                                           ELSE pc' = "send" /\ UNCHANGED code
                       /\ UNCHANGED blind
    BY Zenon, <1>4, <2>2 DEF Answer, Braked
  <2>3. CASE /\ Driven(frame) # {} /\ Event
             /\ pc' = "send" /\ blind' = TRUE /\ UNCHANGED code
    BY Zenon, <1>4, <2>3
  <2> QED BY Zenon, <2>1, <2>2, <2>3 DEF Check
<1>6. events' \in 0..MaxEvents
  BY Zenon, EventFacts DEF Check, Inv, TypeOK
<1>7. TypeOK'
  <2>1. code' \in Codes /\ pc' \in {"idle", "check", "send", "returned"} /\ blind' \in BOOLEAN
    BY Zenon, <1>5 DEF Codes, Inv, TypeOK
  <2>2. reply' \in States' \cup {NoState} /\ ids' \in Requests \cup {{}} /\ ~rejected'
    BY Zenon, <1>1, <1>3
  <2> QED BY Zenon, <1>1, <1>6, <2>1, <2>2 DEF Inv, TypeOK
<1>8. CallInv'
  BY Zenon, <1>1, <1>2, <1>5, Same DEF CallInv, Returned
<1>9. RefusalInv'
  BY Zenon, <1>1, <1>2, <1>5, Same DEF RefusalInv, Returned
<1>10. ModeInv'
  BY Zenon, <1>1 DEF Inv, ModeInv, NoLoopWithoutEncoders
<1>11. BrakeInv'
  BY Zenon, <1>1, <1>2, <1>5, Same DEF BrakeInv, BrakedIsRefused, Returned
<1>12. ReadInv'
  BY Zenon, <1>1, <1>3 DEF ReadInv
<1> QED BY Zenon, <1>7, <1>8, <1>9, <1>10, <1>11, <1>12 DEF Inv

LEMMA ErrorFacts ==
  \A e \in SessionErrors :
     error_from_session(e) \in {"DEADLINE_EXCEEDED", "INTERNAL", "UNAVAILABLE"}
BY DEF SessionErrors, error_from_session

\* What a device that applies the frame is left with.
LEMMA ApplyFacts ==
  ASSUME Inv, pc = "send", Apply(frame)
  PROVE  /\ applied' = Command(frame, {1, 2})
         /\ mode' = mode \/ (IsSetMode(frame.fn) /\ mode' = frame.m /\ mode' \in OwnModes)
         /\ sentinel' \subseteq 1..2 /\ brakes' \subseteq 1..2
         /\ Driven(frame) # {} => brakes' = brakes
<1>1. /\ frame = build_frame(f, arg) /\ f # 0 /\ f \in 0..8 /\ arg \in Arguments
      /\ kind \in {"Rlht", "Dcmt"} /\ frame.code = "OK" /\ AllowedMode(frame)
  BY Zenon DEF Inv, TypeOK, CallInv
<1>2. f \in 1..8
  BY <1>1
<1>3. FrameOK(f, arg, frame)
  BY Zenon, <1>1, <1>2, FrameFacts
<1>4. frame.fn = f /\ (IsSetMode(f) => frame.m \in OwnModes)
  BY Zenon, <1>1, <1>3 DEF FrameOK
<1>5. applied' = Command(frame, {1, 2})
  BY Zenon DEF Apply
<1>6. mode' = mode \/ (IsSetMode(frame.fn) /\ mode' = frame.m /\ mode' \in OwnModes)
  BY Zenon, <1>1, <1>4 DEF Apply
<1>7. sentinel' \subseteq 1..2 /\ brakes' \subseteq 1..2
  BY Zenon DEF Apply, Inv, TypeOK
<1>8. Driven(frame) # {} => brakes' = brakes
  <2>1. frame.fn \in {1, 4} => frame.fn # 2
    OBVIOUS
  <2>2. Driven(frame) # {} => frame.fn \in {1, 4}
    BY Zenon DEF Driven
  <2> QED BY Zenon, <2>1, <2>2 DEF Apply
<1> QED BY Zenon, <1>5, <1>6, <1>7, <1>8

LEMMA SendInvariant ==
  ASSUME Inv, Send
  PROVE  Inv'
<1>1. /\ UNCHANGED config /\ UNCHANGED <<kind, encoders, flags, acks, session>>
      /\ UNCHANGED <<f, arg, frame, braked, blind>>
      /\ UNCHANGED <<ids, reply, values, rejected>>
  BY Zenon DEF Send, config, read
<1>2. /\ pc = "send" /\ f # 0 /\ Offered(f) /\ frame.code = "OK" /\ AllowedMode(frame)
      /\ frame = build_frame(f, arg)
  BY Zenon DEF Send, Inv, CallInv
<1>3. reply = NoState /\ values = {} /\ ids = {} /\ ~rejected
  BY Zenon, <1>2 DEF Inv, ReadInv
<1>4. /\ pc' = "returned" /\ code' \in Codes
      /\ events' \in 0..MaxEvents /\ (code' = "OK" \/ events' # 0)
      /\ code' = "OK" /\ set_confirmation = "Acknowledged" => Apply(frame)
      /\ Apply(frame) \/ ApplyOne(frame) \/ UNCHANGED <<mode, brakes, sentinel, applied>>
  <2>1. CASE Apply(frame) /\ Answer("OK") /\ UNCHANGED events
    BY Zenon, <2>1 DEF Answer, Codes, Inv, TypeOK
  <2>2. ASSUME Event PROVE events' \in 0..MaxEvents /\ events' # 0
    BY Zenon, <2>2, EventFacts DEF Inv, TypeOK
  <2>3. CASE /\ Event
             /\ set_confirmation # "Acknowledged" /\ Answer("OK")
             /\ ApplyOne(frame) \/ UNCHANGED device
    BY Zenon, <2>2, <2>3 DEF Answer, Codes, device
  <2>4. CASE /\ Event
             /\ IF set_confirmation = "Unconfirmed"
                THEN \E e \in SessionErrors : Answer(error_from_session(e))
                ELSE Answer("UNAVAILABLE")
             /\ Apply(frame) \/ ApplyOne(frame) \/ UNCHANGED device
    <3>1. pc' = "returned" /\ code' \in {"DEADLINE_EXCEEDED", "INTERNAL", "UNAVAILABLE"}
      BY Zenon, <2>4, ErrorFacts DEF Answer
    <3> QED BY Zenon, <2>2, <2>4, <3>1 DEF Codes, device
  <2>5. CASE /\ Event
             /\ set_confirmation = "Acknowledged"
             /\ \E c \in refusal_for : Answer(c)
             /\ ApplyOne(frame) \/ UNCHANGED device
    <3>1. pc' = "returned" /\ code' \in refusal_for
      BY Zenon, <2>5 DEF Answer
    <3> QED BY Zenon, <2>2, <2>5, <3>1 DEF Codes, refusal_for, device
  <2>6. CASE /\ Event
             /\ set_confirmation # "Unconfirmed" /\ Answer("INTERNAL")
             /\ UNCHANGED device
    BY Zenon, <2>2, <2>6 DEF Answer, Codes, device
  <2> QED BY Zenon, <2>1, <2>3, <2>4, <2>5, <2>6 DEF Send
<1>5. /\ code' = "OK" /\ set_confirmation = "Acknowledged" =>
             applied' = Command(frame, {1, 2})
      /\ applied' # NoCommand => \E on \in SUBSET (1..2) : applied' = Command(frame, on)
      /\ mode' = mode \/ (IsSetMode(frame.fn) /\ mode' = frame.m /\ mode' \in OwnModes)
      /\ sentinel' \subseteq 1..2 /\ brakes' \subseteq 1..2
      /\ Driven(frame) # {} => brakes' = brakes
  <2>1. CASE Apply(frame)
    <3>1. {1, 2} \in SUBSET (1..2)
      OBVIOUS
    <3> QED BY Zenon, <1>2, <2>1, <3>1, ApplyFacts
  <2>2. CASE ApplyOne(frame) /\ ~Apply(frame)
    <3>1. \A i \in 1..2 : {i} \in SUBSET (1..2)
      BY Zenon
    <3> QED BY Zenon, <1>4, <2>2, <3>1 DEF ApplyOne, Inv, TypeOK
  <2>3. CASE UNCHANGED <<mode, brakes, sentinel, applied>> /\ ~Apply(frame)
    BY Zenon, <1>2, <1>4, <2>3 DEF Inv, TypeOK, CallInv
  <2> QED BY Zenon, <1>4, <2>1, <2>2, <2>3
<1>6. TypeOK'
  <2>1. mode' \in Modes
    BY Zenon, <1>5 DEF Inv, TypeOK, OwnModes, Modes
  <2>2. reply' \in States' \cup {NoState} /\ ids' \in Requests \cup {{}} /\ ~rejected'
    BY Zenon, <1>1, <1>3
  <2> QED BY Zenon, <1>1, <1>4, <1>5, <2>1, <2>2 DEF Inv, TypeOK
<1>7. CallInv'
  BY Zenon, <1>1, <1>2, <1>4, <1>5, Same DEF CallInv, Returned
<1>8. RefusalInv'
  <2>1. "OK" \notin {"INVALID_ARGUMENT", "OUT_OF_RANGE", "NOT_FOUND"}
    OBVIOUS
  <2> QED BY Zenon, <1>1, <1>2, <1>4, <2>1, Same DEF RefusalInv, Returned
<1>9. ModeInv'
  BY Zenon, <1>1, <1>2, <1>5 DEF Inv, TypeOK, ModeInv, NoLoopWithoutEncoders, AllowedMode, OwnModes
<1>10. BrakeInv'
  <2>1. ~braked /\ ~blind => Driven(frame) \cap brakes = {}
    BY Zenon, <1>2 DEF Inv, BrakeInv
  <2>2. ~braked /\ ~blind => Driven(frame) \cap brakes' = {}
    BY Zenon, <1>5, <2>1
  <2> QED BY Zenon, <1>1, <1>4, <2>2, Same DEF BrakeInv, BrakedIsRefused, Returned
<1>11. ReadInv'
  BY Zenon, <1>1, <1>3 DEF ReadInv
<1> QED BY Zenon, <1>6, <1>7, <1>8, <1>9, <1>10, <1>11 DEF Inv

LEMMA ReadInvariant ==
  ASSUME Inv, NEW req \in Requests, Read(req)
  PROVE  Inv'
<1>1. /\ UNCHANGED config /\ UNCHANGED <<kind, encoders, flags, acks, session>>
      /\ UNCHANGED <<mode, brakes, sentinel, applied>>
      /\ UNCHANGED <<f, arg, frame, braked, blind>> /\ ids' = req
  BY Zenon DEF Read, config, device
<1>2. pc = "idle" /\ f = 0 /\ applied = NoCommand
  BY Zenon DEF Read, Inv, CallInv
<1>3. /\ pc' = "returned" /\ code' \in Codes /\ events' \in 0..MaxEvents
      /\ rejected' => code' = "INTERNAL" /\ values' = {}
      /\ \/ reply' = NoState /\ values' = {}
         \/ reply' \in States /\ values' = {} /\ code' # "OK"
         \/ /\ reply' \in States /\ parse_state(kind, flags, reply')
            /\ values' = Serve(kind, flags, reply', req)
  <2>1. CASE ~session /\ Result("UNAVAILABLE", NoState, {}, FALSE) /\ UNCHANGED events
    BY Zenon, <2>1 DEF Result, Answer, Codes, Inv, TypeOK
  <2>2. CASE /\ session /\ Event
             /\ \E e \in SessionErrors : Result(error_from_session(e), NoState, {}, FALSE)
    <3>1. /\ pc' = "returned" /\ code' \in {"DEADLINE_EXCEEDED", "INTERNAL", "UNAVAILABLE"}
          /\ reply' = NoState /\ values' = {} /\ ~rejected'
      BY Zenon, <2>2, ErrorFacts DEF Result, Answer
    <3>2. events' \in 0..MaxEvents
      BY Zenon, <2>2, EventFacts DEF Inv, TypeOK
    <3> QED BY Zenon, <3>1, <3>2 DEF Codes
  <2>3. CASE session /\ Event /\ Result("INTERNAL", NoState, {}, TRUE)
    <3>1. events' \in 0..MaxEvents
      BY Zenon, <2>3, EventFacts DEF Inv, TypeOK
    <3> QED BY Zenon, <2>3, <3>1 DEF Result, Answer, Codes
  <2>4. CASE /\ session /\ UNCHANGED events
             /\ \E r \in States :
                   IF parse_state(kind, flags, r)
                   THEN Result("OK", r, Serve(kind, flags, r, req), FALSE)
                   ELSE Result("INTERNAL", r, {}, TRUE)
    <3>1. events' \in 0..MaxEvents
      BY Zenon, <2>4 DEF Inv, TypeOK
    <3>2. PICK r \in States :
                   IF parse_state(kind, flags, r)
                   THEN Result("OK", r, Serve(kind, flags, r, req), FALSE)
                   ELSE Result("INTERNAL", r, {}, TRUE)
      BY Zenon, <2>4
    <3>3. CASE parse_state(kind, flags, r)
      BY Zenon, <3>1, <3>2, <3>3 DEF Result, Answer, Codes
    <3>4. CASE ~parse_state(kind, flags, r)
      BY Zenon, <3>1, <3>2, <3>4 DEF Result, Answer, Codes
    <3> QED BY Zenon, <3>3, <3>4
  <2> QED BY Zenon, <2>1, <2>2, <2>3, <2>4 DEF Read
<1>4. TypeOK'
  <2>1. reply' \in States' \cup {NoState}
    BY Zenon, <1>1, <1>3, SameReplies
  <2> QED BY Zenon, <1>1, <1>3, <2>1 DEF Inv, TypeOK
<1>5. CallInv'
  BY Zenon, <1>1, <1>2, <1>3 DEF CallInv, Returned
<1>6. RefusalInv' /\ BrakeInv'
  BY Zenon, <1>1, <1>2, <1>3 DEF RefusalInv, BrakeInv, BrakedIsRefused, Returned
<1>7. ModeInv'
  BY Zenon, <1>1 DEF Inv, ModeInv, NoLoopWithoutEncoders
<1>8. ReadInv'
  BY Zenon, <1>1, <1>2, <1>3, SameReplies DEF ReadInv, Served
<1> QED BY Zenon, <1>4, <1>5, <1>6, <1>7, <1>8 DEF Inv

LEMMA DoneInvariant ==
  ASSUME Inv, Done
  PROVE  Inv'
<1>1. /\ UNCHANGED config /\ UNCHANGED <<kind, encoders, flags, acks, session>>
      /\ UNCHANGED <<mode, brakes, sentinel, events>>
  BY Zenon DEF Done, config
<1>2. /\ applied' = NoCommand /\ pc' = "idle" /\ f' = 0 /\ arg' = NoArg
      /\ frame' = Failure("NOT_FOUND") /\ code' = "OK"
      /\ braked' = FALSE /\ blind' = FALSE
      /\ ids' = {} /\ reply' = NoState /\ values' = {} /\ rejected' = FALSE
  BY Zenon DEF Done
<1>3. TypeOK'
  <2>1. frame'.code = "NOT_FOUND" /\ frame'.bytes = <<>>
    BY Zenon, <1>2, NotFoundFacts
  <2>2. 0 \in 0..8 /\ arg' \in Arguments
    BY <1>2 DEF Arguments
  <2> QED BY Zenon, <1>1, <1>2, <2>1, <2>2, NoBytes DEF Inv, TypeOK, Codes
<1>4. CallInv' /\ RefusalInv' /\ BrakeInv'
  BY Zenon, <1>2 DEF CallInv, RefusalInv, BrakeInv, BrakedIsRefused, Returned
<1>5. ModeInv'
  BY Zenon, <1>1 DEF Inv, ModeInv, NoLoopWithoutEncoders
<1>6. ReadInv'
  BY Zenon, <1>2 DEF ReadInv
<1> QED BY Zenon, <1>3, <1>4, <1>5, <1>6 DEF Inv

LEMMA EngageBrakesInvariant ==
  ASSUME Inv, EngageBrakes
  PROVE  Inv'
<1>1. /\ UNCHANGED config /\ UNCHANGED <<kind, encoders, flags, acks, session>>
      /\ UNCHANGED <<mode, sentinel, applied, pc, f, arg, frame, code, blind>>
      /\ UNCHANGED <<ids, reply, values, rejected>>
      /\ brakes' = {1, 2} /\ braked' = TRUE
  BY Zenon DEF EngageBrakes, config, read
<1>2. events' \in 0..MaxEvents /\ events' # 0
  BY Zenon, EventFacts DEF EngageBrakes, Inv, TypeOK
<1>3. States' = States
  BY Zenon, <1>1, SameReplies
<1>4. TypeOK'
  <2>1. {1, 2} \subseteq 1..2
    OBVIOUS
  <2> QED BY Zenon, <1>1, <1>2, <1>3, <2>1 DEF Inv, TypeOK
<1>5. CallInv'
  BY Zenon, <1>1, Same DEF Inv, CallInv, Returned
<1>6. RefusalInv'
  BY Zenon, <1>1, <1>2, Same DEF Inv, RefusalInv, Returned
<1>7. BrakeInv'
  BY Zenon, <1>1 DEF BrakeInv, BrakedIsRefused, Returned
<1>8. ModeInv'
  BY Zenon, <1>1 DEF Inv, ModeInv, NoLoopWithoutEncoders
<1>9. ReadInv'
  BY Zenon, <1>1, SameReplies DEF Inv, ReadInv, Served
<1> QED BY Zenon, <1>4, <1>5, <1>6, <1>7, <1>8, <1>9 DEF Inv

LEMMA StutterInvariant ==
  ASSUME Inv, UNCHANGED vars
  PROVE  Inv'
<1>1. /\ UNCHANGED config /\ UNCHANGED <<kind, encoders, flags, acks, session>>
      /\ UNCHANGED <<mode, brakes, sentinel, applied>>
      /\ UNCHANGED <<pc, f, arg, frame, code, braked, blind>>
      /\ UNCHANGED <<ids, reply, values, rejected>> /\ events' = events
  BY Zenon DEF vars, config, device, call, read
<1>2. States' = States
  BY Zenon, <1>1, SameReplies
<1>3. TypeOK'
  <2>1. /\ frame'.code \in Codes
        /\ \A i \in DOMAIN frame'.bytes : frame'.bytes[i] \in 0..255
    BY Zenon, <1>1 DEF Inv, TypeOK
  <2>2. ids' \in Requests \cup {{}} /\ reply' \in States' \cup {NoState}
    BY Zenon, <1>1, <1>2 DEF Inv, TypeOK
  <2>3. rejected' => code' = "INTERNAL" /\ values' = {}
    BY Zenon, <1>1 DEF Inv, TypeOK
  <2> QED BY Zenon, <1>1, <2>1, <2>2, <2>3 DEF Inv, TypeOK
<1>4. CallInv'
  BY Zenon, <1>1, Same DEF Inv, CallInv, Returned
<1>5. RefusalInv'
  BY Zenon, <1>1, Same DEF Inv, RefusalInv, Returned
<1>6. BrakeInv'
  BY Zenon, <1>1, Same DEF Inv, BrakeInv, BrakedIsRefused, Returned
<1>7. ModeInv'
  BY Zenon, <1>1 DEF Inv, ModeInv, NoLoopWithoutEncoders
<1>8. ReadInv'
  BY Zenon, <1>1, SameReplies DEF Inv, ReadInv, Served
<1> QED BY Zenon, <1>3, <1>4, <1>5, <1>6, <1>7, <1>8 DEF Inv

-----------------------------------------------------------------------------
(* The theorems. *)

\* The invariant holds of every call, read, brake engaged and failure of the bus.
THEOREM Invariance == Spec => []Inv
<1>1. Inv /\ [Next]_vars => Inv'
  <2> SUFFICES ASSUME Inv, [Next]_vars PROVE Inv'
    OBVIOUS
  <2>1. ASSUME NEW fn \in 1..8, NEW a \in Arguments, Call(fn, a) PROVE Inv'
    BY Zenon, <2>1, CallInvariant
  <2>2. ASSUME NEW req \in Requests, Read(req) PROVE Inv'
    BY Zenon, <2>2, ReadInvariant
  <2> QED BY Zenon, <2>1, <2>2, CheckInvariant, SendInvariant, DoneInvariant,
             EngageBrakesInvariant, StutterInvariant DEF Next
<1> QED BY InitInvariant, <1>1, PTL DEF Spec

\* The adapters' type invariant: in particular every payload is of bytes.
THEOREM TypeCorrect == Spec => []TypeOK
<1>1. Inv => TypeOK
  BY Zenon DEF Inv
<1> QED BY <1>1, Invariance, PTL

\* No call takes a DCMT configured without encoders into a closed loop (#179).
THEOREM LoopCorrect == Spec => []NoLoopWithoutEncoders
<1>1. Inv => NoLoopWithoutEncoders
  BY Zenon DEF Inv, ModeInv
<1> QED BY <1>1, Invariance, PTL

\* A motor command answered OK or applied drives no motor braked when the call
\* began.
THEOREM BrakeCorrect == Spec => []BrakedIsRefused
<1>1. Inv => BrakedIsRefused
  BY Zenon DEF Inv, BrakeInv
<1> QED BY <1>1, Invariance, PTL

\* A call has the frame that FrameFacts is about.
LEMMA ReturnedFrame ==
  ASSUME Inv, Returned
  PROVE  FrameOK(f, arg, frame)
<1>1. /\ f # 0 /\ f \in 0..8 /\ arg \in Arguments /\ kind \in {"Rlht", "Dcmt"}
      /\ frame = build_frame(f, arg)
  BY Zenon DEF Inv, TypeOK, CallInv, Returned
<1>2. f \in 1..8
  BY <1>1
<1> QED BY Zenon, <1>1, <1>2, FrameFacts

LEMMA CommandFields ==
  ASSUME NEW n, NEW m, NEW v, NEW on, NEW c, c = [fn |-> n, m |-> m, v |-> v, on |-> on]
  PROVE  c.fn = n /\ c.m = m /\ c.v = v /\ c.on = on
OBVIOUS

\* What a call puts on the device is what its caller asked for: no width, sign,
\* byte order or rounding of build_frame changes a value, whatever integer it is,
\* and an OK of acknowledging firmware says that it is there.
THEOREM AskedCorrect == Spec => []AppliedIsAsked
<1>1. Inv => AppliedIsAsked
  <2> SUFFICES ASSUME Inv, Returned PROVE AppliedIsAsked
    BY Zenon DEF AppliedIsAsked
  <2>1. ASSUME NEW on, applied = Command(frame, on)
        PROVE  /\ applied.fn = frame.fn /\ applied.m = frame.m
               /\ applied.v = Decode(frame) /\ applied.on = on
    BY Zenon, <2>1, CommandFields DEF Command
  <2>2. FrameOK(f, arg, frame)
    BY Zenon, ReturnedFrame
  <2>3. ASSUME applied # NoCommand
        PROVE  /\ applied.fn = f
               /\ IF IsSetMode(f) THEN applied.m = arg.m
                  ELSE f = ClearTrip \/ \A i \in applied.on :
                         IF kind = "Rlht" /\ f = 2 THEN Nearest(arg.v[i], applied.v[i])
                                                  ELSE applied.v[i] = arg.v[i]
    <3>1. PICK on \in SUBSET (1..2) : applied = Command(frame, on)
      BY Zenon, <2>3 DEF Inv, CallInv
    <3>2. frame.code = "OK"
      BY Zenon, <2>3 DEF Inv, CallInv
    <3>3. /\ applied.fn = frame.fn /\ applied.m = frame.m
          /\ applied.v = Decode(frame) /\ applied.on = on
      BY Zenon, <2>1, <3>1
    <3>4. \A i \in applied.on : i \in 1..2
      BY Zenon, <3>3
    <3> QED BY Zenon, <2>2, <3>2, <3>3, <3>4 DEF FrameOK
  <2>4. code = "OK" /\ set_confirmation = "Acknowledged" => applied.on = {1, 2}
    BY Zenon, <2>1 DEF Inv, CallInv
  <2> QED BY Zenon, <2>3, <2>4 DEF AppliedIsAsked
<1> QED BY <1>1, Invariance, PTL

\* The inventory and build_frame agree: a declared argument is taken, and a
\* channel value that is not declared never reaches the bus.
THEOREM DeclaredCorrect == Spec => []DeclaredIsAccepted
<1>1. Inv => DeclaredIsAccepted
  <2> DEFINE refused == code \in {"INVALID_ARGUMENT", "OUT_OF_RANGE", "NOT_FOUND"}
  <2>0. SUFFICES ASSUME Inv, Returned, Offered(f)
        PROVE  /\ InDeclared(f, arg) /\ events = 0 => ~refused
               /\ ~IsSetMode(f) /\ ~InDeclared(f, arg) => refused /\ applied = NoCommand
    BY Zenon DEF DeclaredIsAccepted
  <2>1. f \in 1..7
    BY SMT, <2>0 DEF Offered, ClearTrip, Inv, TypeOK
  <2>2. FrameOK(f, arg, frame)
    BY Zenon, <2>0, ReturnedFrame
  <2>3. \/ frame.code # "OK" /\ code = frame.code /\ applied = NoCommand
        \/ /\ frame.code = "OK"
           /\ ~refused \/ events # 0 \/ ~AllowedMode(frame)
    BY Zenon, <2>0 DEF Inv, RefusalInv
  \* A mode that is declared needs no encoders that are not there.
  <2>4. InDeclared(f, arg) /\ frame.code = "OK" => AllowedMode(frame)
    <3>1. SUFFICES ASSUME InDeclared(f, arg), frame.code = "OK", ~encoders, kind = "Dcmt",
                          IsSetMode(frame.fn)
          PROVE  frame.m = "open_loop"
      BY Zenon DEF AllowedMode
    <3>2. frame.fn = f /\ IsSetMode(f) /\ frame.m = arg.m
      BY Zenon, <3>1, <2>2 DEF FrameOK
    <3>3. f # ClearTrip
      BY SMT, <3>1, <3>2 DEF IsSetMode, ClearTrip
    <3>4. arg.m \in DeclaredModes
      BY Zenon, <3>1, <3>2, <3>3 DEF InDeclared
    <3>5. "position" \notin OfferedFlags /\ "speed" \notin OfferedFlags
      BY <3>1 DEF OfferedFlags, Loops
    <3>6. DeclaredModes = {"open_loop"}
      BY <3>1, <3>5 DEF DeclaredModes
    <3> QED BY Zenon, <3>2, <3>4, <3>6
  <2>5. CASE InDeclared(f, arg)
    BY Zenon, <2>1, <2>2, <2>3, <2>4, <2>5 DEF FrameOK
  <2>6. CASE ~InDeclared(f, arg)
    BY Zenon, <2>1, <2>2, <2>3, <2>6 DEF FrameOK
  <2> QED BY Zenon, <2>5, <2>6
<1> QED BY <1>1, Invariance, PTL

LEMMA ValueFields ==
  ASSUME NEW i, NEW d, NEW q, NEW v, v = [id |-> i, field |-> d, q |-> q]
  PROVE  v.id = i /\ v.field = d /\ v.q = q
OBVIOUS

\* The signals a read serves are those both the adapter and the request name.
LEMMA ServedValues ==
  ASSUME NEW r, NEW req
  PROVE  LET S == Readable(kind, flags) \cap should_include(kind, req)
             V == Serve(kind, flags, r, req)
         IN  /\ {v.id : v \in V} = S
             /\ \A v \in V : v.id \in S /\ v.field = Field(kind, v.id, r.mode)
                                       /\ v.q = quality(kind, v.id, r)
<1> DEFINE S == Readable(kind, flags) \cap should_include(kind, req)
           V == Serve(kind, flags, r, req)
           val(x) == [id |-> x, field |-> Field(kind, x, r.mode), q |-> quality(kind, x, r)]
<1>1. V = {val(x) : x \in S}
  BY Zenon DEF Serve
<1>2. \A x : /\ val(x).id = x /\ val(x).field = Field(kind, x, r.mode)
             /\ val(x).q = quality(kind, x, r)
  BY Zenon, ValueFields
<1> HIDE DEF S, V, val
<1>3. {v.id : v \in V} = S
  BY Zenon, <1>1, <1>2
<1>4. \A v \in V : v.id \in S /\ v.field = Field(kind, v.id, r.mode)
                             /\ v.q = quality(kind, v.id, r)
  <2> TAKE v \in V
  <2>1. PICK x \in S : v = val(x)
    BY Zenon, <1>1
  <2>2. v.id = x /\ v.field = Field(kind, x, r.mode) /\ v.q = quality(kind, x, r)
    BY Zenon, <1>2, <2>1
  <2> QED BY Zenon, <2>2
<1> QED BY Zenon, <1>3, <1>4 DEF S, V

\* The adapter serves exactly the signals the inventory declares.
LEMMA ReadableIsDeclared ==
  ASSUME kind \in {"Rlht", "Dcmt"}
  PROVE  Readable(kind, flags) = DeclaredSignals(kind, OfferedFlags)
<1>1. CASE kind = "Dcmt"
  BY <1>1 DEF Readable, DeclaredSignals, DcmtSignals, Pair
<1>2. CASE kind = "Rlht"
  <2>1. "estop_count" \in OfferedFlags <=> "estop_count" \in flags
    BY DEF OfferedFlags, Loops
  <2> HIDE DEF OfferedFlags
  <2> QED BY <1>2, <2>1 DEF Readable, DeclaredSignals, RlhtSignals, Pair
<1> QED BY <1>1, <1>2

\* A read is answered with what was asked for and declared, on every firmware.
THEOREM ReadCorrect == Spec => []ReadAsDeclared
<1>1. Inv => ReadAsDeclared
  <2> DEFINE got == {v.id : v \in values}
             known == DeclaredSignals(kind, OfferedFlags)
  <2>0. SUFFICES ASSUME Inv, pc = "returned", code = "OK", reply # NoState
        PROVE  IF ids = {} THEN got # {} /\ got \subseteq known ELSE got = ids \cap known
    BY Zenon DEF ReadAsDeclared
  <2>1. values = Serve(kind, flags, reply, ids) /\ kind \in {"Rlht", "Dcmt"}
    BY Zenon, <2>0 DEF Inv, TypeOK, ReadInv, Served
  <2>2. got = known \cap should_include(kind, ids)
    BY Zenon, <2>1, ServedValues, ReadableIsDeclared
  <2>3. is_default_signal(kind) \cap known # {}
    <3>1. CASE kind = "Dcmt"
      BY <3>1 DEF is_default_signal, DeclaredSignals, DcmtSignals, Pair
    <3>2. CASE kind = "Rlht"
      BY <3>2 DEF is_default_signal, DeclaredSignals, RlhtSignals, Pair
    <3> QED BY <2>1, <3>1, <3>2
  <2> HIDE DEF got, known
  <2> QED BY <2>2, <2>3 DEF should_include
<1> QED BY <1>1, Invariance, PTL

\* The fields of a DCMT's reply that hold no value, when the reply is parsed.
LEMMA DcmtField ==
  ASSUME Inv, kind = "Dcmt", reply \in States, parse_state(kind, flags, reply),
         NEW x \in Readable(kind, flags)
  PROVE  Field(kind, x, reply.mode) \notin reply.invalid
<1>1. mode \in {"open_loop", "closed_position", "closed_speed"}
  BY Zenon DEF Inv, TypeOK, ModeInv, Modes
<1>2. PICK u \in SUBSET Pair("spd1", "spd2"), md \in {mode, "unknown"} :
         \E n \in {FullLength - 1, FullLength} :
           reply = [mode |-> md, length |-> n, invalid |-> Unused(mode, sentinel) \cup u,
                    tc |-> <<1, 2>>]
  <2>1. reply \in DcmtReplies(mode, sentinel)
    BY DEF States, StateReplies
  <2>2. PICK u \in SUBSET Pair("spd1", "spd2") :
           reply \in UNION {{Reply(m, n, Unused(mode, sentinel) \cup u, <<1, 2>>) :
                               n \in {FullLength - 1, FullLength}} :
                            m \in {mode, "unknown"}}
    BY Zenon, <2>1 DEF DcmtReplies
  <2>3. PICK md \in {mode, "unknown"} :
           reply \in {Reply(md, n, Unused(mode, sentinel) \cup u, <<1, 2>>) :
                        n \in {FullLength - 1, FullLength}}
    BY Zenon, <2>2
  <2>4. PICK n \in {FullLength - 1, FullLength} :
           reply = [mode |-> md, length |-> n, invalid |-> Unused(mode, sentinel) \cup u,
                    tc |-> <<1, 2>>]
    BY Zenon, <2>3 DEF Reply
  <2> QED BY Zenon, <2>4
<1>3. reply.mode = mode /\ reply.invalid = Unused(mode, sentinel) \cup u
  <2>1. reply.mode = md /\ reply.invalid = Unused(mode, sentinel) \cup u
    BY <1>2
  <2>2. reply.mode \in {"open_loop", "closed_position", "closed_speed"}
    BY Zenon DEF parse_state, dcmt_parse_state
  <2> QED BY <2>1, <2>2
<1>4. /\ reply.invalid \subseteq (SignedFields \ Meaningful(mode)) \cup {"spd1", "spd2", "sp1", "sp2"}
      /\ SignedFields \subseteq {"m1_pwm", "m2_pwm", "sp1", "sp2", "pos1", "pos2", "spd1", "spd2"}
  <2>1. u \subseteq {"spd1", "spd2"}
    BY DEF Pair
  <2>2. {IF i = 1 THEN "sp1" ELSE "sp2" : i \in sentinel} \subseteq {"sp1", "sp2"}
    BY Zenon
  <2>3. SignedFields = Meaningful("open_loop") \cup Meaningful("closed_position")
                       \cup Meaningful("closed_speed")
    BY Zenon DEF SignedFields
  <2>4. /\ Meaningful("open_loop") = {"m1_pwm", "m2_pwm"}
        /\ Meaningful("closed_position") = {"sp1", "sp2", "pos1", "pos2"}
        /\ Meaningful("closed_speed") = {"sp1", "sp2", "spd1", "spd2"}
    BY DEF Meaningful, Pair
  <2>5. SignedFields \subseteq {"m1_pwm", "m2_pwm", "sp1", "sp2", "pos1", "pos2", "spd1", "spd2"}
    BY Zenon, <2>3, <2>4
  <2> QED BY Zenon, <1>3, <2>1, <2>2, <2>5 DEF Unused
<1>5. x \in {"mode", "motor1_target", "motor2_target", "motor1_value", "motor2_value",
             "motor1_brake", "motor2_brake", "estop", "estop_count"}
  BY DEF Readable
<1>6. CASE x \in {"mode", "motor1_brake", "motor2_brake", "estop", "estop_count"}
  <2>1. Field(kind, x, reply.mode) = x
    BY <1>6 DEF Field, Pair
  <2> QED BY <1>4, <1>6, <2>1
<1>7. CASE x \in {"motor1_target", "motor2_target", "motor1_value", "motor2_value"}
  <2>1. CASE mode = "open_loop"
    <3>1. Field(kind, x, reply.mode) \in {"m1_pwm", "m2_pwm"}
      BY <1>3, <1>7, <2>1 DEF Field, Pair
    <3>2. Meaningful(mode) = {"m1_pwm", "m2_pwm"}
      BY <2>1 DEF Meaningful, Pair
    <3> QED BY <1>4, <3>1, <3>2
  <2>2. CASE mode = "closed_position"
    <3>1. Field(kind, x, reply.mode) \in {"sp1", "sp2", "pos1", "pos2"}
      BY <1>3, <1>7, <2>2 DEF Field, Pair
    <3>2. Meaningful(mode) = {"sp1", "sp2", "pos1", "pos2"}
      BY <2>2 DEF Meaningful, Pair
    <3>3. reply.invalid \cap {"sp1", "sp2"} = {}
      BY <1>3, <2>2 DEF parse_state, dcmt_parse_state, Pair
    <3> QED BY <1>4, <3>1, <3>2, <3>3
  <2>3. CASE mode = "closed_speed"
    <3>1. Field(kind, x, reply.mode) \in {"sp1", "sp2", "spd1", "spd2"}
      BY <1>3, <1>7, <2>3 DEF Field, Pair
    <3>2. reply.invalid \cap {"sp1", "sp2"} = {} /\ reply.invalid \cap {"spd1", "spd2"} = {}
      BY <1>3, <2>3 DEF parse_state, dcmt_parse_state, Pair
    <3> QED BY <3>1, <3>2
  <2> QED BY <1>1, <2>1, <2>2, <2>3
<1> QED BY <1>5, <1>6, <1>7

\* The qualities of an RLHT's values.
LEMMA RlhtField ==
  ASSUME kind = "Rlht", parse_state(kind, flags, reply),
         NEW x \in Readable(kind, flags), quality(kind, x, reply) = "OK"
  PROVE  /\ Field(kind, x, reply.mode) \notin reply.invalid
         /\ x = "estop_count" => reply.length = FullLength
         /\ x = "channel1_thermocouple" => reply.tc[1] \in 1..2
         /\ x = "channel2_thermocouple" => reply.tc[2] \in 1..2
<1>1. x \notin {"motor1_target", "motor2_target", "motor1_value", "motor2_value"}
  BY DEF Readable
<1>2. Field(kind, x, reply.mode) = x
  BY <1>1 DEF Field, Pair
<1>3. x \notin reply.invalid
  BY Zenon DEF quality
<1>4. x = "estop_count" => reply.length = FullLength
  BY DEF Readable, parse_state, rlht_parse_state
<1>5. /\ x = "channel1_thermocouple" => reply.tc[1] \in 1..2
      /\ x = "channel2_thermocouple" => reply.tc[2] \in 1..2
  BY Zenon DEF quality, Selection, Pair
<1> QED BY <1>2, <1>3, <1>4, <1>5

\* A value of quality OK is one the device has.
THEOREM ValueCorrect == Spec => []NoFabricatedValue
<1>1. Inv => NoFabricatedValue
  <2>0. SUFFICES ASSUME Inv, NEW v \in values, v.q = "OK"
        PROVE  /\ v.field \notin reply.invalid
               /\ v.id = "estop_count" => reply.length = FullLength
               /\ v.id = "channel1_thermocouple" => reply.tc[1] \in 1..2
               /\ v.id = "channel2_thermocouple" => reply.tc[2] \in 1..2
    BY Zenon DEF NoFabricatedValue
  <2>1. Served /\ kind \in {"Rlht", "Dcmt"}
    BY Zenon, <2>0 DEF Inv, TypeOK, ReadInv
  <2>2. /\ v.id \in Readable(kind, flags) /\ v.field = Field(kind, v.id, reply.mode)
        /\ quality(kind, v.id, reply) = "OK"
    BY Zenon, <2>0, <2>1, ServedValues DEF Served
  <2>3. CASE kind = "Dcmt"
    <3>1. v.field \notin reply.invalid
      BY Zenon, <2>0, <2>1, <2>2, <2>3, DcmtField DEF Served
    <3>2. reply.length = FullLength
      BY Zenon, <2>1, <2>3 DEF Served, parse_state, dcmt_parse_state
    <3>3. v.id # "channel1_thermocouple" /\ v.id # "channel2_thermocouple"
      BY <2>2, <2>3 DEF Readable
    <3> QED BY Zenon, <3>1, <3>2, <3>3
  <2>4. CASE kind = "Rlht"
    BY Zenon, <2>1, <2>2, <2>4, RlhtField DEF Served
  <2> QED BY Zenon, <2>1, <2>3, <2>4
<1> QED BY <1>1, Invariance, PTL
=============================================================================
