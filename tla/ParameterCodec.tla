---------------------------- MODULE ParameterCodec ----------------------------
(***************************************************************************)
(* How a parameter vector travels: the vendor's codecs (parameter_codec.py *)
(* and the modules of the models verified on hardware) over tables of real *)
(* models, and a board that keeps what was written.  A user chooses an     *)
(* option of what the entity shows, the hub reads the frame, replaces one  *)
(* value, checks and writes the whole, reads it back; the vendor's app     *)
(* writes frames of its own in between.  The exchanges themselves, their   *)
(* lock and their faults, are ParameterTransaction's.                      *)
(*                                                                         *)
(* A wire value is the sequence of its digits, <<>> an empty field.  Field *)
(* labels, which no decoder of the tables reads, and constant suffixes are *)
(* left out.  Entries are counted from 1.                                  *)
(***************************************************************************)
EXTENDS Integers, Sequences, FiniteSetsExt, SequencesExt, TLC

CONSTANTS
  Chosen,        \* names of the models to try
  Tried,         \* options a user tries, of those an entry has
  Shared,        \* models whose board the vendor's app writes too
  MaxWrites,     \* bound: calls of async_set_parameter on a model of Shared;
                 \* one on the others, whose tables never switch
  MaxAppFrames   \* bound: frames of the app

ASSUME WritesAssumption == MaxWrites \in Nat \ {0} /\ MaxAppFrames \in Nat

None == <<>>
HallMode == 2

-----------------------------------------------------------------------------
(* Schemas: one entry per parameter *)

\* An entry with n options.  wide: the vendor's greatest wire value has two
\* digits; bit: the bit of its owner's value it carries; bits: how many fields
\* it takes.
Entry(n, off, wide) ==
  [values |-> 0..n-1, off |-> off, wide |-> wide, kind |-> "edit",
   owner |-> 0, bit |-> -1, bits |-> 0, big |-> FALSE]
Opt(n) == Entry(n, 0, n > 10)
OptFrom(n, off, hint) == Entry(n, off, hint > 9)
OptBit(n, bit) == [Opt(n) EXCEPT !.bit = bit]
Bits(n, width, big) == [Opt(n) EXCEPT !.bits = width, !.big = big]
Num(low, high, step) ==
  [Opt(1) EXCEPT !.values = {v \in low..high : (v - low) % step = 0}, !.kind = "number"]
Row(owner, bit) == [Opt(1) EXCEPT !.kind = "row", !.owner = owner, !.bit = bit]
As(kind, entry) == [entry EXCEPT !.kind = kind]

OnOff(n) == [k \in 1..n |-> Opt(2)]
Options(counts) == [k \in DOMAIN counts |-> Opt(counts[k])]

Current == OptFrom(4, 1, 99)
HallCurrent == OptFrom(36, 5, 99)

Table(codec, uart, skips, entries) ==
  [codec |-> codec, uart |-> uart, skips |-> skips, entries |-> entries]

\* Models of the vendor's generic codecs.
P710 == Table("plain", 0, {11, 13}, Options(<<5, 5, 5, 5, 3, 2, 9, 4, 3, 10, 7, 7, 2>>))
PS19091 == Table("plain", 1, {8, 9, 11, 13}, Options(<<2, 9, 10, 2, 2, 2, 2, 6, 6, 6, 6>>))
PS18001 == Table("plain", 1, {}, <<OptFrom(4, 1, 4), OptFrom(4, 1, 4), HallCurrent, HallCurrent>>)
PS18074 ==
  Table("plain", 1, {},
        <<Opt(2), Opt(1), Num(5, 70, 1), Num(5, 70, 1), Num(5, 50, 5), Num(5, 50, 5),
          Num(50, 100, 1), Num(50, 100, 1), Num(0, 40, 1), Num(0, 10, 1), Num(0, 10, 1),
          Num(0, 6, 1)>> \o Options(<<3, 3, 4, 3, 7, 2, 4, 2, 4, 4, 2, 4, 2, 3>>))
Level == OptFrom(100, 0, 99)
A510 == Table("plain", 0, {}, OnOff(2) \o <<As("split", Opt(4)), Opt(2), As("spaced", Opt(2)),
                                          Opt(2), Level, Level>>)
P100 == Table("plain", 0, {}, <<Opt(2), As("split", Opt(4))>> \o OnOff(4))
PS20113 == Table("plain", 1, {}, <<Opt(2), As("split", Opt(4)), As("hidden", Opt(4))>> \o OnOff(4))
PS20125 == Table("plain", 1, {}, Options(<<2, 4, 2, 2, 2, 2>>))
PS18040 == Table("phase1", 0, {}, <<Opt(2), Opt(2), Bits(4, 2, TRUE), Opt(2), Row(0, -1), Opt(2),
                                   Opt(2), Level, Level>>)
P170 == Table("phase1", 0, {}, <<Opt(2), Bits(4, 2, TRUE), Bits(8, 3, TRUE), Opt(2), Opt(2),
                                Bits(4, 2, FALSE), Bits(4, 2, TRUE)>> \o OnOff(4)
                               \o <<Bits(4, 2, TRUE)>>)
PS18050 == Table("converted", 1, {}, OnOff(2) \o <<Opt(4)>> \o OnOff(3) \o <<Level, Level>>)
Swapped ==
  <<Opt(2), OptBit(4, 1), Row(2, 0), OptBit(8, 2), Row(4, 1), Row(4, 0), Opt(2), Opt(2),
    OptBit(4, 1), Row(9, 0), OptBit(4, 1), Row(11, 0)>> \o OnOff(4) \o <<OptBit(4, 1)>>
PS18077 == Table("swap", 1, {}, Swapped \o <<Row(17, 0)>>)
PS20096 == Table("swap", 1, {}, Swapped)

\* Models verified on hardware, with codecs of their own.
PS19001 ==
  Table("named", 0, {}, <<OptFrom(3, 1, 0), Current, Current>> \o [k \in 1..3 |-> OptFrom(4, 1, 0)]
                        \o <<Opt(10), Opt(10), Opt(9), OptFrom(4, 1, 0)>> \o OnOff(7)
                        \o <<OptFrom(2, 1, 0), Opt(7)>>)
PS22027 ==
  Table("bytes", 1, {}, Options(<<3, 6, 6, 4, 4, 4, 10, 10, 9, 7, 2, 2, 2, 2, 2, 2, 2, 2, 7, 6>>))
PS21050D ==
  Table("bytes", 1, {}, Options(<<3, 4, 4, 4, 4, 4, 5, 10, 10, 9, 7, 2, 2, 2, 2, 2, 2, 2, 2, 7>>))
CountsP710U == <<5, 5, 5, 5, 3, 2, 9, 4, 3, 9, 256, 7, 256, 7, 2>>
PS22087B ==
  Table("reserved", 1, {}, [k \in 1..15 |-> IF k \in {11, 13} THEN As("fixed", Opt(256))
                                            ELSE Opt(CountsP710U[k])])
Counts17 == <<2, 9, 3, 4, 5, 4, 12, 6, 2, 4, 4, 5, 5, 2, 2, 2, 2>>
PS25007A == Table("index", 1, {}, Options(Counts17))
PS25142 == Table("index", 1, {}, Options(Counts17 \o <<2>>))

Models ==
  [P710 |-> P710, PS19091 |-> PS19091, PS18001 |-> PS18001, PS18074 |-> PS18074, A510 |-> A510,
   P100 |-> P100, PS20113 |-> PS20113, PS20125 |-> PS20125, PS18040 |-> PS18040, P170 |-> P170,
   PS18050 |-> PS18050, PS18077 |-> PS18077, PS20096 |-> PS20096, PS19001 |-> PS19001,
   PS22027 |-> PS22027, PS21050D |-> PS21050D, PS22087B |-> PS22087B, PS25007A |-> PS25007A,
   PS25142 |-> PS25142]

ASSUME ModelsAssumption == Chosen \subseteq DOMAIN Models /\ Shared \subseteq Chosen

Indexes(m) == DOMAIN m.entries
Writable(m) == {i \in Indexes(m) : m.entries[i].kind \in {"edit", "number", "split", "spaced"}}
HasModes(m) == m.codec \in {"named", "bytes"}

\* In Hall mode the two currents are read by the Hall table.
Active(m, vs, i) ==
  IF HasModes(m) /\ i \in {2, 3} /\ vs[1] = HallMode
    THEN HallCurrent ELSE m.entries[i]

\* The option a value stands for: a byte carries its entry's offset.
ByteOffset(m, vs, i) == IF m.codec = "bytes" THEN Active(m, vs, i).off ELSE 0
Option(m, vs, i) == vs[i] - ByteOffset(m, vs, i)

-----------------------------------------------------------------------------
(* Digits *)

Dec(n) == IF n < 10 THEN <<n>> ELSE IF n < 100 THEN <<n \div 10, n % 10>>
          ELSE <<n \div 100, (n \div 10) % 10, n % 10>>
Hex2(n) == <<n \div 16, n % 16>>
Number(base, token) ==
  LET upTo[k \in 0..Len(token)] == IF k = 0 THEN 0 ELSE (upTo[k-1] * base) + token[k]
  IN upTo[Len(token)]
Decimal(token) == \A k \in DOMAIN token : token[k] < 10

\* _format_wire_value: the first UART generation writes wide entries in hexadecimal.
Format(m, e, n) ==
  IF m.uart = 0 /\ e.wide /\ e.kind # "number" THEN Hex2(n) ELSE Dec(n)

\* Mutant: the verified PS19001 reads a field of decimal digits as the others do.
ParseByLooks(m, e, token) ==
  IF m.uart = 0 /\ \/ ~Decimal(token)
                   \/ m.codec = "phase1" /\ e.wide
    THEN Number(16, token) ELSE Number(10, token)

\* _parse_wire_value: what looks decimal is read so, but by phase1 and by PS19001.
Parse(m, e, token) ==
  IF m.uart = 0 /\ \/ ~Decimal(token)
                   \/ m.codec = "named"
                   \/ m.codec = "phase1" /\ e.wide
    THEN Number(16, token) ELSE Number(10, token)

-----------------------------------------------------------------------------
(* Places: where the fields of each entry are *)

WireCount(m, i) ==
  LET e == m.entries[i]
  IN CASE e.kind = "hidden" -> 0
       [] e.kind \in {"split", "spaced"} -> 2
       [] e.bits > 0 -> e.bits
       [] e.kind \notin {"hidden", "split", "spaced"} /\ e.bits = 0 -> 1

\* The k-th field that is not skipped.
Place(m, k) ==
  CHOOSE p \in 0..(k + Cardinality(m.skips)) :
    p \notin m.skips /\ Cardinality((0..p) \ m.skips) = k

Start(m, i) == MapThenSumSet(LAMBDA j : WireCount(m, j), 1..i-1)

\* The places of the fields of each entry.
Places(m) ==
  [i \in Indexes(m) |->
     [k \in 1..WireCount(m, i) |-> 1 + Place(m, Start(m, i) + k)]]

\* The entry, and which of its numbers, of each field; <<0, 0>> of a field that
\* is skipped.
Sources(places) ==
  LET pairs == UNION {{<<i, k>> : k \in DOMAIN places[i]} : i \in DOMAIN places}
  IN [p \in 1..Max({places[pair[1]][pair[2]] : pair \in pairs}) |->
        LET of == {pair \in pairs : places[pair[1]][pair[2]] = p}
        IN IF of = {} THEN <<0, 0>> ELSE CHOOSE pair \in of : TRUE]

\* The tables of model n with the places of its fields.
Tables(n) ==
  LET places == Places(Models[n])
  IN [name |-> n, places |-> places, sources |-> Sources(places)] @@ Models[n]

-----------------------------------------------------------------------------
(* Encoding *)

Bit(v, k) == (v \div 2^k) % 2
OwnerOf(m, i) == IF m.entries[i].owner = 0 THEN i ELSE m.entries[i].owner

\* _encode_parameter_values: a key's value is spread over its entries.
RawValues(m, vs) ==
  LET raw == [i \in Indexes(m) |->
                LET e == m.entries[i]
                IN IF e.bit < 0 THEN vs[OwnerOf(m, i)] ELSE Bit(vs[OwnerOf(m, i)], e.bit)]
  IN IF m.codec = "swap" THEN [raw EXCEPT ![9] = raw[10], ![10] = raw[9]] ELSE raw

SplitFields(v) == <<v \div 2, v % 2>>

\* The numbers entry i sends.
WireValues(m, vs, i) ==
  LET e == Active(m, vs, i)
      v == vs[i] + e.off
  IN CASE e.kind = "hidden" -> <<>>
       [] e.kind = "row" /\ m.codec = "phase1" -> <<0>>
       [] e.bits > 0 /\ e.big -> [k \in 1..e.bits |-> Bit(v, e.bits - k)]
       [] e.bits > 0 /\ ~e.big -> [k \in 1..e.bits |-> Bit(v, k - 1)]
       [] e.kind = "split" -> SplitFields(v)
       [] e.kind = "spaced" -> <<1, v>>
       [] m.codec \in {"bytes", "reserved", "index"} -> <<vs[i]>>
       [] OTHER -> <<v>>

\* A skipped field carries nothing: 0 in a labelled frame, else nothing at all.
Blank(m) == IF m.uart = 0 THEN <<0>> ELSE <<>>

Encode(m, vs) ==
  LET raw == IF m.codec \in {"converted", "swap"} THEN RawValues(m, vs) ELSE vs
  IN [p \in DOMAIN m.sources |->
        LET i == m.sources[p][1]
        IN IF i = 0 THEN Blank(m)
           ELSE Format(m, Active(m, vs, i), WireValues(m, raw, i)[m.sources[p][2]])]

-----------------------------------------------------------------------------
(* Decoding *)

\* A510, P100 and the split pairs have one parameter in two fields, the A510
\* also one behind a constant field.
SplitValue(e, ws) == (2 * ws[1]) + ws[2] - e.off
SpacedValue(e, ws) == ws[2] - e.off

\* The value entry e makes of the numbers it receives.
ValueOf(m, e, ws) ==
  CASE e.kind = "hidden" -> 0
    [] e.bits > 0 /\ e.big -> Number(2, [k \in DOMAIN ws |-> ws[k] % 2])
    [] e.bits > 0 /\ ~e.big -> Number(2, Reverse([k \in DOMAIN ws |-> ws[k] % 2]))
    [] e.kind = "split" -> SplitValue(e, ws)
    [] e.kind = "spaced" -> SpacedValue(e, ws)
    [] m.codec = "bytes" -> ws[1]
    [] OTHER -> ws[1] - e.off

\* Mutant: the bits of a swapped pair stay swapped.
LogicalValuesSwapped(m, raw) ==
  [i \in Indexes(m) |->
     IF OwnerOf(m, i) # i THEN 0
     ELSE IF m.entries[i].bit < 0 THEN raw[i]
     ELSE MapThenSumSet(LAMBDA j : (raw[j] % 2) * 2^(m.entries[j].bit),
                        {j \in Indexes(m) : OwnerOf(m, j) = i})]

\* _decode_parameter_values: the entries of a key give its value back, and the
\* bits of the pair that was swapped change places.
LogicalValues(m, raw) ==
  LET value == [i \in Indexes(m) |->
                  IF OwnerOf(m, i) # i THEN 0
                  ELSE IF m.entries[i].bit < 0 THEN raw[i]
                  ELSE MapThenSumSet(LAMBDA j : (raw[j] % 2) * 2^(m.entries[j].bit),
                                     {j \in Indexes(m) : OwnerOf(m, j) = i})]
  IN IF m.codec = "swap"
       THEN [value EXCEPT ![9] = (2 * Bit(value[9], 0)) + Bit(value[9], 1)]
       ELSE value

BytesOnly(m, vs) == \A i \in Indexes(m) : vs[i] \in 0..255

\* Mutant: a frame is checked with the tables of the other mode's currents.
ValidNormal(m, vs) == \A i \in Writable(m) : vs[i] \in m.entries[i].values

\* Every value an option of its entry, by the tables of the frame's own mode.
\* The reserved profile only bounds the bytes.
Valid(m, vs) ==
  IF m.codec = "reserved" THEN BytesOnly(m, vs)
  ELSE \A i \in Writable(m) : Option(m, vs, i) \in Active(m, vs, i).values

\* What a decoder accepts: bytes of any value, or only valid option indexes.
Acceptable(m, vs) ==
  CASE m.codec \in {"named", "index"} -> Valid(m, vs)
    [] m.codec \in {"bytes", "reserved"} -> BytesOnly(m, vs)
    [] m.codec \notin {"named", "index", "bytes", "reserved"} -> TRUE

Decode(m, frame) ==
  LET number(e, i) == [k \in DOMAIN m.places[i] |-> Parse(m, e, frame[m.places[i][k]])]
      first == ValueOf(m, m.entries[1], number(m.entries[1], 1))
      values == [i \in Indexes(m) |->
                   LET e == Active(m, <<first>>, i) IN ValueOf(m, e, number(e, i))]
      logical == IF m.codec \in {"converted", "swap"} THEN LogicalValues(m, values) ELSE values
  IN IF Acceptable(m, logical) THEN logical ELSE None

-----------------------------------------------------------------------------
(* The board, its hub and the vendor's app *)

VARIABLES
  model,      \* the tables of the board's model
  board,      \* the frame the board keeps
  display,    \* the hub's parameters; None before the first read
  writes,     \* calls of async_set_parameter
  appFrames,  \* frames of the app
  last,       \* history: the last call
  meant       \* history: the values the last frame was made from

codecVars == <<model, board, display, writes, appFrames, last, meant>>

NoCall == [index |-> 0, option |-> 0, outcome |-> "none"]

\* The least legal frame, and the greatest of each mode for a board with modes.
Least(m) == [i \in Indexes(m) |-> Min(m.entries[i].values)]
Greatest(m, first) ==
  [i \in Indexes(m) |->
     IF i = 1 THEN first
     ELSE IF m.entries[i].kind \in {"row", "hidden"} THEN 0
     ELSE Max(Active(m, <<first>>, i).values) + ByteOffset(m, <<first>>, i)]
Frames(m) ==
  {Least(m)} \cup {Greatest(m, first) : first \in IF HasModes(m) THEN m.entries[1].values
                                                  ELSE {Max(m.entries[1].values)}}

CodecInit ==
  /\ \E n \in Chosen : model = Tables(n)
  /\ meant \in Frames(model)
  /\ board = Encode(model, meant)
  /\ display = None /\ writes = 0 /\ appFrames = 0 /\ last = NoCall

Refresh ==
  /\ display' = Decode(model, board)
  /\ display' # display /\ display' # None
  /\ UNCHANGED <<model, board, writes, appFrames, last, meant>>

\* Mutant: the entity takes the offset of the table it was created with.
ChosenValueFixed(i, option) ==
  option + (IF model.codec = "bytes" THEN model.entries[i].off ELSE 0)

\* The value an entity sends for an option of what it shows.
ChosenValue(i, option) == option + ByteOffset(model, display, i)

\* What the readback is compared with: the value asked for, or the whole frame.
Confirmed(vs, back, i) ==
  IF model.codec \in {"named", "bytes", "reserved", "index"} /\ model.name # "PS21050D"
    THEN back = vs
    ELSE back # None /\ back[i] = vs[i]

Call(i, option, outcome) ==
  last' = [index |-> i, option |-> option, outcome |-> outcome]

\* A user chooses an option of entry i; read, replace, check, write, read back.
Choose(i, option) ==
  /\ writes < (IF model.name \in Shared THEN MaxWrites ELSE 1) /\ display # None
  /\ option \in Active(model, display, i).values
  /\ writes' = writes + 1
  /\ \E current \in {Decode(model, board)} :
     \E vs \in {[current EXCEPT ![i] = ChosenValue(i, option)]} :
        \/ /\ ~(current # None /\ Valid(model, vs))
           /\ Call(i, option, "refused")
           /\ UNCHANGED <<board, display, meant>>
        \/ /\ current # None /\ Valid(model, vs)
           /\ board' = Encode(model, vs) /\ meant' = vs
           /\ \E back \in {Decode(model, board')} :
                IF Confirmed(vs, back, i)
                   THEN Call(i, option, "accepted") /\ display' = back
                   ELSE Call(i, option, "unconfirmed") /\ UNCHANGED display
  /\ UNCHANGED <<model, appFrames>>

AppWrites ==
  /\ model.name \in Shared /\ appFrames < MaxAppFrames
  /\ appFrames' = appFrames + 1
  /\ meant' \in Frames(model) /\ meant' # meant
  /\ board' = Encode(model, meant')
  /\ UNCHANGED <<model, display, writes, last>>

CodecNext ==
  \/ Refresh
  \/ \E i \in Writable(model) : \E option \in Tried : Choose(i, option)
  \/ AppWrites

CodecSpec == CodecInit /\ [][CodecNext]_codecVars

-----------------------------------------------------------------------------
(* What holds of the tables: facts about the vendor's data that the proofs rest *)
(* on, which TLC evaluates for every model chosen.                              *)

\* Entries that do not come back as they were sent: a two-digit field of the
\* first UART generation whose hexadecimal digits are read as decimal, and a
\* pair of bits of which the schema lists one.
Inexact(m, i) ==
  \/ m.uart = 0 /\ m.codec = "plain" /\ m.entries[i].wide
  \/ \E b \in 0..(m.entries[i].bit - 1) :
       ~\E j \in Indexes(m) : OwnerOf(m, j) = i /\ m.entries[j].bit = b

Entries ==
  [values : SUBSET (0..255), off : 0..99, wide : BOOLEAN,
   kind : {"edit", "number", "split", "spaced", "row", "hidden", "fixed"},
   owner : 0..99, bit : -1..2, bits : 0..3, big : BOOLEAN]

\* Every option fits its fields, and every codec has the kinds of entries it is for.
Fits(m, e) ==
  /\ e \in Entries
  /\ \A v \in e.values : v + e.off \in 0..255 /\ (m.codec = "named" /\ ~e.wide => v + e.off < 10)
  /\ m.codec # "swap" => e.owner = 0 /\ e.bit = -1
  /\ m.codec \notin {"plain", "phase1"} => e.kind \in {"edit", "row", "fixed"}
  /\ e.kind = "row" => m.codec \in {"phase1", "swap"}
  /\ e.kind = "fixed" => m.codec = "reserved"
  /\ e.bits > 0 => m.codec = "phase1" /\ e.kind = "edit" /\ e.off = 0 /\ e.values \subseteq 0..2^e.bits - 1
  /\ m.codec \in {"swap", "reserved", "index"} => e.off = 0
  /\ m.uart = 0 => e.kind # "number"

\* The entries that carry bits of the value of entry i.
Group(m, i) == {j \in Indexes(m) : OwnerOf(m, j) = i}

\* The bits of a value are in one entry each, the highest in its own; those of the
\* pair that is swapped are entries 9 and 10.
TwoBits(m, i) ==
  \E j \in Indexes(m) :
    /\ j # i /\ Group(m, i) = {i, j} /\ (i = 9 => j = 10)
    /\ m.entries[i].bit = 1 /\ m.entries[j].bit = 0 /\ m.entries[i].values \subseteq 0..3
ThreeBits(m, i) ==
  \E j, k \in Indexes(m) :
    /\ i # 9 /\ j # i /\ k # i /\ j # k /\ Group(m, i) = {i, j, k}
    /\ m.entries[i].bit = 2 /\ m.entries[j].bit = 1 /\ m.entries[k].bit = 0
    /\ m.entries[i].values \subseteq 0..7

\* Fields and entries belong to each other.
Placed(m) ==
  /\ \A i \in Indexes(m) :
       /\ m.places[i] \in [1..WireCount(m, i) -> DOMAIN m.sources]
       /\ \A k \in 1..WireCount(m, i) : m.sources[m.places[i][k]] = <<i, k>>
  /\ \A p \in DOMAIN m.sources :
       \/ m.sources[p] = <<0, 0>>
       \/ \E i \in Indexes(m) : \E k \in 1..WireCount(m, i) :
            m.sources[p] = <<i, k>> /\ m.places[i][k] = p

WellFormed(m) ==
  /\ m.uart \in {0, 1} /\ 1 \in Indexes(m) /\ Indexes(m) \subseteq 1..99
  /\ m.uart = 0 => m.codec \in {"plain", "phase1", "named"}
  /\ \A i \in Indexes(m) : Fits(m, m.entries[i]) /\ OwnerOf(m, i) \in Indexes(m)
  /\ HasModes(m) => {1, 2, 3} \subseteq Writable(m)
  /\ m.codec = "swap" =>
       /\ 9 \in Writable(m) /\ 10 \in Indexes(m) /\ TwoBits(m, 9)
       /\ \A i \in Writable(m) : OwnerOf(m, i) = i
       /\ \A i \in Writable(m) :
            m.entries[i].bit < 0 \/ Inexact(m, i) \/ TwoBits(m, i) \/ ThreeBits(m, i)
       /\ \A i \in Indexes(m) : OwnerOf(m, i) \in Writable(m)
  /\ Placed(m)
  /\ \A vs \in Frames(m) :
       /\ vs \in [Indexes(m) -> 0..255]
       /\ \A i \in Writable(m) :
            m.codec = "reserved" \/ Option(m, vs, i) \in Active(m, vs, i).values

ASSUME TablesAssumption == \A n \in Chosen : WellFormed(Tables(n))

-----------------------------------------------------------------------------
\* Decoding undoes encoding for every entry that is not inexact: what the board
\* holds reads as what was last written (encode_model_parameter_write,
\* decode_model_parameter_response and the verified models' own).
RoundTrip ==
  LET back == Decode(model, board)
  IN /\ back # None
     /\ \A i \in Writable(model) : Inexact(model, i) \/ back[i] = meant[i]

\* A board with modes never gets a frame that is not valid in its own mode, and
\* neither does one of option indexes (validate_wire_values).
FrameLegal ==
  LET held == Decode(model, board)
  IN (held # None /\ model.codec \in {"named", "bytes", "index"}) =>
       \A i \in Writable(model) : Option(model, held, i) \in Active(model, held, i).values

\* The fields entry i writes: its own, and for the motor type of a PS19001, whose
\* vector holds options, the two currents whose table it switches.
Owned(i) ==
  UNION {Range(model.places[j]) :
           j \in {k \in Indexes(model) : OwnerOf(model, k) = i}
                 \cup (IF model.codec = "named" /\ i = 1 THEN {2, 3} ELSE {})}

\* A call changes the fields of the parameter it was asked for and no other, for
\* any sequence of calls and of frames of the app; an inexact entry is excepted
\* (async_set_parameter, "modifies only the requested logical parameter").
OthersStay ==
  [][writes' # writes =>
       \A p \in DOMAIN board :
         \/ board'[p] = board[p]
         \/ p \in Owned(last'.index)
         \/ \E j \in Writable(model) : Inexact(model, j) /\ p \in Owned(j)]_codecVars

\* A choice that was confirmed is what the board holds by the tables of its new
\* mode, unless the app has switched the mode since the choice was shown.
ChoiceKept ==
  [][(writes' # writes /\ last'.outcome = "accepted"
      /\ (HasModes(model) => display[1] = Decode(model, board)[1]))
     => Option(model, Decode(model, board'), last'.index) = last'.option]_codecVars
=============================================================================
