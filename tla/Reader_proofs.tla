---------------------------- MODULE Reader_proofs ----------------------------
(***************************************************************************)
(* How the parser reads its file.  First the numbers (NumberReader): for   *)
(* every file, chunk size and width the characters come in order, a number *)
(* that fits is read as written, and one that does not is refused or, if   *)
(* the compiler keeps the test, beyond every accepted variable.            *)
(*                                                                         *)
(* Then the lines (GISReader): the parser as it runs means what DimacsGIS  *)
(* says of its file's lines, for any numbers and bounds.  What a line has  *)
(* written by the time the parser is at some place of it is a function of  *)
(* what it found (LineInv), so that its end is one step of DimacsGIS and   *)
(* all before it none.  What holds between two lines is Sound, of the      *)
(* eight variables a line may change.                                      *)
(***************************************************************************)
EXTENDS NumberReader, GISReader, FiniteSetTheorems, SequenceTheorems, TLAPS

-----------------------------------------------------------------------------
LEMMA HalfType == Half \in Nat \ {0} /\ HighestVar \in Nat /\ 9 * HighestVar + 9 < 2 * Half
BY WidthAssumption

-----------------------------------------------------------------------------
(* Numbers: the machine's integers *)

\* What Wrap returns is a T that differs by a multiple of 2^32.
LEMMA WrapMeaning ==
    ASSUME NEW x \in Int, -20 * Half <= x, x < 20 * Half
    PROVE  /\ Wrap(x) \in -Half .. Half - 1
           /\ \E k \in -10 .. 10 : x = Wrap(x) + k * (2 * Half)
<1>1. \E y \in -Half .. Half - 1 : \E k \in -10 .. 10 : x = y + k * (2 * Half)
  <2> DEFINE Near(k) == (2 * k - 1) * Half <= x /\ x < (2 * k + 1) * Half
  <2>1. \E k \in -10 .. 10 : x - k * (2 * Half) \in -Half .. Half - 1
    BY HalfType
  <2>2. PICK k \in -10 .. 10 : x - k * (2 * Half) \in -Half .. Half - 1  BY <2>1
  <2>3. x = (x - k * (2 * Half)) + k * (2 * Half)  BY HalfType
  <2> QED  BY <2>2, <2>3
<1> QED  BY <1>1 DEF Wrap

\* A T is its own wrapping.
LEMMA WrapOfFitting ==
    ASSUME NEW x \in -Half .. Half - 1
    PROVE  Wrap(x) = x
<1>1. x \in Int /\ -20 * Half <= x /\ x < 20 * Half  BY HalfType
<1>2. PICK k \in -10 .. 10 : x = Wrap(x) + k * (2 * Half)  BY <1>1, WrapMeaning
<1>3. Wrap(x) \in -Half .. Half - 1  BY <1>1, WrapMeaning
<1>4. CASE k = 0  BY <1>2, <1>3, <1>4, HalfType
<1>5. CASE k # 0  BY <1>2, <1>3, <1>5, HalfType
<1> QED  BY <1>4, <1>5

\* A value past the range loses at least 2^32.
LEMMA WrapOfTooLarge ==
    ASSUME NEW x \in Int, Half <= x, x < 20 * Half
    PROVE  Wrap(x) + 2 * Half <= x
<1>1. -20 * Half <= x  BY HalfType
<1>2. PICK k \in -10 .. 10 : x = Wrap(x) + k * (2 * Half)  BY <1>1, WrapMeaning
<1>3. Wrap(x) \in -Half .. Half - 1  BY <1>1, WrapMeaning
<1>4. CASE k <= 0  BY <1>2, <1>3, <1>4, HalfType
<1>5. CASE k >= 1  BY <1>2, <1>3, <1>5, HalfType
<1> QED  BY <1>4, <1>5

-----------------------------------------------------------------------------
(* Numbers: the stream *)

\* A chunk: the characters of the file from n on, at least one of them if there is one.
LEMMA ChunkMeaning ==
    ASSUME file \in Seq(Chars), NEW n \in 0 .. Len(file)
    PROVE  /\ Chunk(n) \in Seq(Chars)
           /\ n + Len(Chunk(n)) <= Len(file)
           /\ n < Len(file) => Len(Chunk(n)) > 0
           /\ \A k \in 1 .. Len(Chunk(n)) : Chunk(n)[k] = file[n + k]
<1> DEFINE last == IF n + ChunkLimit <= Len(file) THEN n + ChunkLimit ELSE Len(file)
<1>1. Len(file) \in Nat /\ ChunkLimit \in Nat /\ ChunkLimit >= 1
  BY ChunkAssumption, LenProperties
<1>2. last \in n .. Len(file) /\ (n < Len(file) => n < last)  BY <1>1
<1>3. Chunk(n) = SubSeq(file, n + 1, last)  BY DEF Chunk
<1> HIDE DEF last
<1>4. \A i \in n + 1 .. last : file[i] \in Chars
  BY <1>1, <1>2, ElementOfSeq
<1>5. /\ Chunk(n) \in Seq(Chars)
      /\ Len(Chunk(n)) = last - n
      /\ \A k \in 1 .. last - n : Chunk(n)[k] = file[n + k]
  <2>1. n + 1 \in Int /\ last \in Int  BY <1>1, <1>2
  <2>2. /\ SubSeq(file, n + 1, last) \in Seq(Chars)
        /\ Len(SubSeq(file, n + 1, last)) = IF n + 1 <= last THEN last - (n + 1) + 1 ELSE 0
        /\ \A k \in 1 .. last - (n + 1) + 1 : SubSeq(file, n + 1, last)[k] = file[n + 1 + k - 1]
    BY <2>1, <1>4, SubSeqProperties
  <2> QED  BY <1>1, <1>2, <1>3, <2>1, <2>2
<1> QED  BY <1>1, <1>2, <1>5

\* The chunk is a part of the file, and handed is the place in the file; at its end there
\* is no chunk.
StreamInv ==
    /\ fetched \in Len(buf) .. Len(file)
    /\ \A k \in 1 .. Len(buf) : buf[k] = file[fetched - Len(buf) + k]
    /\ pos < Len(buf) => handed = fetched - Len(buf) + pos
    /\ pos >= Len(buf) => Len(buf) = 0 /\ fetched = Len(file) /\ handed >= Len(file)

StreamTypes ==
    file \in Seq(Chars) /\ buf \in Seq(Chars) /\ fetched \in Nat /\ pos \in Nat /\ handed \in Nat

\* One step of operator++, within a chunk or over its border.
LEMMA NextCharacterKeepsStream ==
    ASSUME StreamTypes, StreamInv, NextCharacter, file' = file
    PROVE  StreamTypes' /\ StreamInv'
<1>1. Len(file) \in Nat /\ Len(buf) \in Nat  BY LenProperties DEF StreamTypes
<1>2. CASE pos + 1 < Len(buf)
  BY <1>1, <1>2 DEF StreamTypes, StreamInv, NextCharacter
<1>3. CASE pos + 1 >= Len(buf)
  <2>1. /\ buf' = Chunk(fetched) /\ fetched' = fetched + Len(buf') /\ pos' = 0
        /\ handed' = handed + 1
    BY <1>1, <1>3 DEF NextCharacter, StreamTypes
  <2>2. fetched \in 0 .. Len(file)  BY <1>1 DEF StreamInv, StreamTypes
  <2>3. /\ buf' \in Seq(Chars) /\ fetched + Len(buf') <= Len(file)
        /\ fetched < Len(file) => Len(buf') > 0
        /\ \A k \in 1 .. Len(buf') : buf'[k] = file[fetched + k]
    BY <2>1, <2>2, ChunkMeaning DEF StreamTypes
  <2>4. Len(buf') \in Nat  BY <2>3, LenProperties
  <2>5. IF pos < Len(buf) THEN handed' = fetched ELSE fetched = Len(file) /\ handed' > Len(file)
    BY <1>1, <1>3, <2>1 DEF StreamInv, StreamTypes
  <2>6. StreamTypes'  BY <2>1, <2>2, <2>3, <2>4 DEF StreamTypes
  <2>7. fetched' - Len(buf') = fetched  BY <2>1, <2>2, <2>4, <1>1
  <2>8. \A k \in 1 .. Len(buf') : buf'[k] = file[fetched' - Len(buf') + k]  BY <2>3, <2>7
  <2>9. (pos < Len(buf) => handed' = fetched' - Len(buf') + pos')
    BY <2>1, <2>5, <2>7, <2>2, <1>1
  <2>10. pos' < Len(buf') => handed' = fetched' - Len(buf') + pos'
    BY <2>1, <2>2, <2>3, <2>4, <2>5, <2>9, <1>1 DEF StreamTypes
  <2>11. pos' >= Len(buf') => Len(buf') = 0 /\ fetched' = Len(file) /\ handed' >= Len(file)
    BY <2>1, <2>2, <2>3, <2>4, <2>5, <1>1
  <2>12. fetched' \in Len(buf') .. Len(file)  BY <2>1, <2>2, <2>3, <2>4, <1>1
  <2> QED  BY <2>6, <2>8, <2>10, <2>11, <2>12 DEF StreamInv
<1> QED  BY <1>1, <1>2, <1>3 DEF StreamTypes

\* What the invariant says of the character in hand.
LEMMA StreamDelivers ==
    ASSUME StreamTypes, StreamInv
    PROVE  DeliversFile
<1>1. Len(file) \in Nat /\ Len(buf) \in Nat  BY LenProperties DEF StreamTypes
<1>2. CASE pos < Len(buf)
  <2>0. handed = fetched - Len(buf) + pos /\ fetched <= Len(file)
    BY <1>1, <1>2 DEF StreamTypes, StreamInv
  <2>1. handed < Len(file) /\ handed + 1 = fetched - Len(buf) + (pos + 1)
    BY <1>1, <1>2, <2>0 DEF StreamTypes
  <2>2. pos + 1 \in 1 .. Len(buf)  BY <1>1, <1>2 DEF StreamTypes
  <2>3. buf[pos + 1] = file[handed + 1]  BY <2>1, <2>2 DEF StreamInv
  <2> QED  BY <1>1, <1>2, <2>1, <2>3 DEF DeliversFile, Value, StreamTypes
<1>3. CASE pos >= Len(buf)
  BY <1>1, <1>3 DEF DeliversFile, Value, StreamTypes, StreamInv
<1> QED  BY <1>1, <1>2, <1>3 DEF StreamTypes

-----------------------------------------------------------------------------
(* Numbers: the invariant *)

NumberTypes ==
    /\ folded \in BOOLEAN
    /\ val \in -Half .. Half - 1 /\ ret \in -Half .. Half - 1 /\ mult \in {-1, 1}
    /\ num \in Nat
    /\ stage \in {"skip", "first", "digits", "read", "notANumber", "tooHigh"}

\* A number that still fits is in val; of one that does not, val keeps at least a ninth of
\* 2 * Half: the overflow was at val * 10 + digit, lost 2 * Half, and was not noticed.
NumberInv ==
    /\ stage \in {"skip", "first"} => val = 0 /\ num = 0
    /\ stage = "digits" /\ num < Half => val = num
    /\ stage = "digits" /\ ~ folded => val >= 0 /\ (num >= Half => 9 * val + 9 >= 2 * Half)
    /\ ReadsWhatFits /\ RefusesOnlyTooHigh /\ WrongIsTooLarge

ReadingInv == StreamTypes /\ StreamInv /\ NumberTypes /\ NumberInv

LEMMA ReadingImplies ==
    ReadingInv => /\ NumberTypeOK /\ DeliversFile /\ ReadsWhatFits
                  /\ RefusesOnlyTooHigh /\ WrongIsTooLarge
<1>1. StreamTypes /\ NumberTypes => NumberTypeOK  BY DEF StreamTypes, NumberTypes, NumberTypeOK
<1> QED  BY <1>1, StreamDelivers DEF ReadingInv, NumberInv

LEMMA ReadingStarts == NumberInit => ReadingInv
<1> SUFFICES ASSUME NumberInit PROVE ReadingInv  OBVIOUS
<1> USE HalfType
<1>1. file \in Seq(Chars) /\ Len(file) \in Nat
  BY FilesAssumption, LenProperties DEF NumberInit
<1>2. /\ buf \in Seq(Chars) /\ 0 + Len(buf) <= Len(file)
      /\ 0 < Len(file) => Len(buf) > 0
      /\ \A k \in 1 .. Len(buf) : buf[k] = file[0 + k]
  <2>1. 0 \in 0 .. Len(file) /\ buf = Chunk(0)  BY <1>1 DEF NumberInit
  <2>2. /\ Chunk(0) \in Seq(Chars) /\ 0 + Len(Chunk(0)) <= Len(file)
        /\ 0 < Len(file) => Len(Chunk(0)) > 0
        /\ \A k \in 1 .. Len(Chunk(0)) : Chunk(0)[k] = file[0 + k]
    BY <1>1, <2>1, ChunkMeaning
  <2> QED  BY <2>1, <2>2
<1>3. Len(buf) \in Nat  BY <1>2, LenProperties
<1>4. StreamTypes  BY <1>1, <1>2, <1>3 DEF NumberInit, StreamTypes
<1>5. fetched - Len(buf) = 0 /\ pos = 0 /\ handed = 0 /\ fetched = Len(buf)  BY <1>3 DEF NumberInit
<1>6. StreamInv  BY <1>1, <1>2, <1>3, <1>5 DEF StreamInv
<1>7. NumberTypes  BY DEF NumberInit, NumberTypes
<1>8. NumberInv  BY DEF NumberInit, NumberInv, ReadsWhatFits, RefusesOnlyTooHigh, WrongIsTooLarge
<1> QED  BY <1>4, <1>6, <1>7, <1>8 DEF ReadingInv

\* One more digit, taken or refused.
LEMMA ReadDigitKeepsNumber ==
    ASSUME NumberTypes, NumberInv, ReadDigit
    PROVE  NumberTypes' /\ NumberInv'
<1> USE HalfType
<1> DEFINE x == val * 10 + Value
           val2 == Wrap(x)
<1>1. Value \in 0 .. 9 /\ stage = "digits"  BY DEF ReadDigit, Digits
<1>2. val \in Int /\ -Half <= val /\ val < Half /\ num \in Nat  BY DEF NumberTypes
<1>3. x \in Int /\ -20 * Half <= x /\ x < 20 * Half  BY <1>1, <1>2
<1>4. val2 \in -Half .. Half - 1  BY <1>3, WrapMeaning
<1>5. x \in -Half .. Half - 1 => val2 = x  BY WrapOfFitting
<1>6. Half <= x => val2 + 2 * Half <= x  BY <1>3, WrapOfTooLarge
<1>7. num' = num * 10 + Value /\ num' \in Nat  BY <1>1, <1>2 DEF ReadDigit
<1>8. num' < Half => val = num /\ x = num' /\ val2 = num' /\ val2 >= val
  <2> HAVE num' < Half
  <2>1. num < Half  BY <1>1, <1>2, <1>7
  <2>2. val = num  BY <1>1, <2>1 DEF NumberInv
  <2>3. x = num' /\ x \in -Half .. Half - 1  BY <1>1, <1>2, <1>7, <2>2
  <2> QED  BY <1>1, <1>2, <1>5, <1>7, <2>2, <2>3
<1>9. ~ folded /\ val2 >= val /\ num' >= Half => 9 * val2 + 9 >= 2 * Half
  <2> HAVE ~ folded /\ val2 >= val /\ num' >= Half
  <2>1. CASE num >= Half
    BY <1>1, <1>2, <1>4, <2>1 DEF NumberInv
  <2>2. CASE num < Half
    <3>1. val = num  BY <1>1, <2>2 DEF NumberInv
    <3>2. x = num' BY <1>7, <3>1
    <3>3. val2 + 2 * Half <= x  BY <1>6, <3>2
    <3> QED  BY <1>1, <1>2, <1>4, <3>3
  <2> QED  BY <1>2, <2>1, <2>2
<1>10. ~ folded => val >= 0  BY <1>1 DEF NumberInv
<1> HIDE DEF x, val2
<1>11. CASE val2 < val /\ ~ folded
  <2>1. stage' = "tooHigh" /\ val' = val /\ folded' = folded /\ mult' = mult /\ ret' = ret
    BY <1>11 DEF ReadDigit, input, val2, x
  <2>2. num' >= Half  BY <1>2, <1>4, <1>7, <1>8, <1>11
  <2>3. NumberTypes'  BY <1>7, <2>1 DEF NumberTypes
  <2> QED  BY <2>1, <2>2, <2>3 DEF NumberInv, ReadsWhatFits, RefusesOnlyTooHigh, WrongIsTooLarge
<1>12. CASE ~ (val2 < val /\ ~ folded)
  <2>1. stage' = "digits" /\ val' = val2 /\ folded' = folded /\ mult' = mult /\ ret' = ret
    BY <1>1, <1>12 DEF ReadDigit, input, val2, x
  <2>2. NumberTypes'  BY <1>4, <1>7, <2>1 DEF NumberTypes
  <2>3. num' < Half => val' = num'  BY <1>8, <2>1
  <2>4. ~ folded => val' >= 0 /\ (num' >= Half => 9 * val' + 9 >= 2 * Half)
    BY <1>2, <1>4, <1>9, <1>10, <1>12, <2>1
  <2> QED
    BY <2>1, <2>2, <2>3, <2>4 DEF NumberInv, ReadsWhatFits, RefusesOnlyTooHigh, WrongIsTooLarge
<1> QED  BY <1>11, <1>12

\* The number is complete: it takes its sign.
LEMMA EndNumberKeepsNumber ==
    ASSUME NumberTypes, NumberInv, EndNumber
    PROVE  NumberTypes' /\ NumberInv'
<1> USE HalfType
<1>1. val \in Int /\ -Half <= val /\ val < Half /\ num \in Nat /\ mult \in {-1, 1}
  BY DEF NumberTypes
<1>2. mult * val \in Int /\ -20 * Half <= mult * val /\ mult * val < 20 * Half
  <2>1. CASE mult = 1   BY <1>1, <2>1
  <2>2. CASE mult = -1  BY <1>1, <2>2
  <2> QED  BY <1>1, <2>1, <2>2
<1>3. ret' \in -Half .. Half - 1  BY <1>2, WrapMeaning DEF EndNumber
<1>4. val >= 0 => ret' = mult * val
  <2> HAVE val >= 0
  <2>1. mult * val \in -Half .. Half - 1
    <3>1. CASE mult = 1   BY <1>1, <3>1
    <3>2. CASE mult = -1  BY <1>1, <3>2
    <3> QED  BY <1>1, <3>1, <3>2
  <2> QED  BY <2>1, WrapOfFitting DEF EndNumber
<1>5. /\ stage = "digits" /\ stage' = "read" /\ folded' = folded
      /\ val' = val /\ mult' = mult /\ num' = num
  BY DEF EndNumber, input, call
<1>6. NumberTypes'  BY <1>3, <1>5 DEF NumberTypes
<1>7. ReadsWhatFits'
  <2>1. num < Half => val = num  BY <1>5 DEF NumberInv
  <2> QED  BY <1>1, <1>4, <1>5, <2>1 DEF ReadsWhatFits
<1>8. WrongIsTooLarge'
  <2> SUFFICES ASSUME ~ folded, num >= Half PROVE ret' > HighestVar \/ ret' < -HighestVar
    BY <1>5 DEF WrongIsTooLarge
  <2>1. val >= 0 /\ 9 * val + 9 >= 2 * Half  BY <1>5 DEF NumberInv
  <2>2. val > HighestVar  BY <1>1, <2>1
  <2>3. CASE mult = 1   BY <1>1, <1>4, <2>1, <2>2, <2>3
  <2>4. CASE mult = -1  BY <1>1, <1>4, <2>1, <2>2, <2>4
  <2> QED  BY <1>1, <2>3, <2>4
<1> QED  BY <1>5, <1>6, <1>7, <1>8 DEF NumberInv, RefusesOnlyTooHigh

LEMMA ReadingKept == ReadingInv /\ [NumberNext]_numberVars => ReadingInv'
<1> SUFFICES ASSUME ReadingInv, [NumberNext]_numberVars PROVE ReadingInv'  OBVIOUS
<1> USE DEF ReadingInv
<1>1. UNCHANGED stream /\ UNCHANGED input => StreamTypes' /\ StreamInv'
  BY DEF stream, input, StreamTypes, StreamInv
<1>2. NextCharacter /\ UNCHANGED input => StreamTypes' /\ StreamInv'
  BY NextCharacterKeepsStream DEF input
<1>3. CASE SkipBlank
  <2>1. NumberTypes' /\ NumberInv'
    BY <1>3 DEF SkipBlank, input, call, NumberTypes, NumberInv, ReadsWhatFits,
                RefusesOnlyTooHigh, WrongIsTooLarge
  <2> QED  BY <1>2, <1>3, <2>1 DEF SkipBlank
<1>4. CASE ReadSign
  <2>1. NumberTypes' /\ NumberInv'
    BY <1>4 DEF ReadSign, input, NumberTypes, NumberInv, ReadsWhatFits,
                RefusesOnlyTooHigh, WrongIsTooLarge
  <2>2. UNCHANGED input /\ (NextCharacter \/ UNCHANGED stream)  BY <1>4 DEF ReadSign
  <2> QED  BY <1>1, <1>2, <2>1, <2>2
<1>5. CASE ReadFirst
  <2>1. NumberTypes' /\ NumberInv'
    BY <1>5, HalfType DEF ReadFirst, input, call, NumberTypes, NumberInv, ReadsWhatFits,
                RefusesOnlyTooHigh, WrongIsTooLarge
  <2> QED  BY <1>1, <1>5, <2>1 DEF ReadFirst
<1>6. CASE ReadDigit
  <2>1. NumberTypes' /\ NumberInv'  BY <1>6, ReadDigitKeepsNumber
  <2>2. UNCHANGED input /\ (NextCharacter \/ UNCHANGED stream)  BY <1>6 DEF ReadDigit
  <2> QED  BY <1>1, <1>2, <2>1, <2>2
<1>7. CASE EndNumber
  <2>1. NumberTypes' /\ NumberInv'  BY <1>7, EndNumberKeepsNumber
  <2> QED  BY <1>1, <1>7, <2>1 DEF EndNumber
<1>8. CASE CallAgain
  <2>1. NumberTypes' /\ NumberInv'
    BY <1>8, HalfType DEF CallAgain, input, NumberTypes, NumberInv, ReadsWhatFits,
                RefusesOnlyTooHigh, WrongIsTooLarge
  <2> QED  BY <1>1, <1>8, <2>1 DEF CallAgain
<1>9. CASE UNCHANGED numberVars
  <2>1. NumberTypes' /\ NumberInv'
    BY <1>9 DEF numberVars, input, call, NumberTypes, NumberInv, ReadsWhatFits,
                RefusesOnlyTooHigh, WrongIsTooLarge
  <2> QED  BY <1>1, <1>9, <2>1 DEF numberVars
<1> QED  BY <1>3, <1>4, <1>5, <1>6, <1>7, <1>8, <1>9 DEF NumberNext, NumberStep, Refused

-----------------------------------------------------------------------------
LEMMA ReadingHolds == NumberSpec => []ReadingInv
<1>1. NumberInit => ReadingInv  BY ReadingStarts
<1>2. ReadingInv /\ [NumberNext]_numberVars => ReadingInv'  BY ReadingKept
<1> QED  BY <1>1, <1>2, PTL DEF NumberSpec

\* Every variable keeps its type: what parseInt holds fits a T on every path.
THEOREM NumberTypesHold == NumberSpec => []NumberTypeOK
BY ReadingHolds, ReadingImplies, PTL

\* For every file and every chunk size, the StreamBuffer hands out the file's characters in
\* order, none lost and none twice, whatever borders the chunks have.
THEOREM StreamDeliversFile == NumberSpec => []DeliversFile
BY ReadingHolds, ReadingImplies, PTL

\* For every width of T, a number that fits it is read as it is written, whether or not
\* the compiler keeps the test for overflow.
THEOREM FittingNumbersRead == NumberSpec => []ReadsWhatFits
BY ReadingHolds, ReadingImplies, PTL

\* parseInt's test for overflow refuses no number that fits.
THEOREM OnlyTooHighRefused == NumberSpec => []RefusesOnlyTooHigh
BY ReadingHolds, ReadingImplies, PTL

\* What an unnoticed overflow leaves of a number is beyond every variable check_var accepts,
\* if the compiler keeps the test.
THEOREM UnnoticedIsTooLarge == NumberSpec => []WrongIsTooLarge
BY ReadingHolds, ReadingImplies, PTL

-----------------------------------------------------------------------------
(* Lines: what a list of lines declares *)

\* The groups of a list, without the dummy.
DeclaredOf(list) == IF list = <<>> THEN <<>> ELSE Tail(list)
MapOf(t) == IF t[7] = <<>> THEN [k \in 1 .. t[4] |-> 0] ELSE t[7]
ListOf(t) == IF t[7] = <<>> THEN Append(t[8], <<>>) ELSE t[8]

\* The map after a group ls has been the group number g.
Overwritten(map, ls, g) == [v \in DOMAIN map |-> IF v \in VarsOf(ls) THEN g ELSE map[v]]

Variables(ls) == [k \in DOMAIN ls |-> VarOf(ls[k])]

Follows(map, declared) ==
    \A v \in DOMAIN map :
        LET listing == { g \in DOMAIN declared : v \in ToSet(declared[g]) }
        IN  /\ map[v] \in {0} \cup listing
            /\ \A g \in listing : g <= map[v]

(***************************************************************************)
(* What holds of the parser's results between two lines.                   *)
(***************************************************************************)
SoundSolver(t) ==
    /\ t[1] \in Nat /\ t[2] \subseteq 1 .. t[1]
    /\ t[3] \in BOOLEAN /\ t[4] \in Nat
    /\ t[1] <= MaxVar \/ t[3]

SoundSampling(t) == t[5] \in Seq(Nat \ {0}) /\ t[6] \in BOOLEAN

SoundGroups(t) ==
    /\ t[7] \in Seq(Nat) /\ t[8] \in Seq(Seq(Nat \ {0}))
    /\ \A g \in DOMAIN DeclaredOf(t[8]) : ToSet(DeclaredOf(t[8])[g]) \subseteq DOMAIN t[7]
    /\ Follows(t[7], DeclaredOf(t[8]))
    /\ t[8] = <<>> => t[7] = <<>>

Sound(t) == SoundSolver(t) /\ SoundSampling(t) /\ SoundGroups(t)

(***************************************************************************)
(* What the line in hand has written.                                      *)
(***************************************************************************)
SolverKept == nVars = started[1]
AssignedKept == assigned = started[2]
HeaderKept == headerFound = started[3] /\ numHeaderVars = started[4]
SamplingKept == samplingVars = started[5] /\ samplingFound = started[6]
GroupsKept == var2varGroup = started[7] /\ varGroups = started[8]

ClauseInv ==
    /\ kind \in {"none", "x"}
    /\ AssignedKept /\ HeaderKept /\ SamplingKept /\ GroupsKept
    /\ \A v \in VarsOf(lits) : Acceptable(v)
    /\ nVars \in {started[1]} \cup VarsOf(lits)
    /\ \A m \in {started[1]} \cup VarsOf(lits) : m <= nVars

EmptyLineInv ==
    /\ kind = "none" /\ lits = <<>>
    /\ SolverKept /\ AssignedKept /\ HeaderKept /\ SamplingKept /\ GroupsKept

HeaderInv ==
    /\ kind = "p"
    /\ AssignedKept /\ SamplingKept /\ GroupsKept
    /\ at \in {"gap", "word"} => SolverKept /\ HeaderKept /\ lits = <<>>
    /\ at \in {"vars", "count", "skip"} => headerFound = TRUE /\ ~ (started[3] /\ strict)
    /\ at = "vars" => SolverKept /\ numHeaderVars = started[4] /\ lits = <<>>
    /\ at = "count" => SolverKept /\ numHeaderVars \in Numbers /\ lits = <<>>
    /\ at = "skip" => /\ numHeaderVars \in Numbers /\ numHeaderVars >= 0
                      /\ nVars = Larger(started[1], numHeaderVars)

CommentInv ==
    /\ kind = "c"
    /\ SolverKept /\ AssignedKept /\ HeaderKept
    /\ at \in {"gap", "word"} => lits = <<>>
    /\ at \in {"gap", "word"} \/ word # "ind" => SamplingKept
    /\ at \in {"gap", "word"} \/ word # "grp" => GroupsKept
    /\ at = "ind" => word = "ind"
    /\ at = "grp" => word = "grp"
    /\ at \in {"ind", "skip"} /\ word = "ind" =>
           samplingFound = TRUE /\ samplingVars = started[5] \o Variables(lits)
    /\ at \in {"grp", "skip"} /\ word = "grp" =>
           /\ VarsOf(lits) \subseteq DOMAIN MapOf(started)
           /\ var2varGroup = Overwritten(MapOf(started), lits, Len(ListOf(started)))
    /\ at = "grp" => varGroups = ListOf(started)
    /\ at = "skip" /\ word = "grp" => varGroups = Append(ListOf(started), Variables(lits))

LineInv ==
    /\ at = "line" => kind = "none" /\ word = "none" /\ lits = <<>> /\ started = <<>>
    /\ at \in {"lits", "afterLit", "afterZero", "eol"} => ClauseInv
    /\ at \in {"gap", "word"} => HeaderInv \/ CommentInv
    /\ at \in {"vars", "count"} => HeaderInv
    /\ at = "skip" => HeaderInv \/ CommentInv \/ EmptyLineInv
    /\ at \in {"ind", "grp"} => CommentInv

(***************************************************************************)
(* The bounds: a line begun has room among the lines, and a literal in     *)
(* hand among its literals.                                                *)
(***************************************************************************)
BoundInv ==
    /\ lineNum \in 0 .. MaxLines
    /\ lineNum = MaxLines => \/ at = "line" /\ Is({"eof", "nul"})
                             \/ at = "lits" /\ Is({"nul"})
    /\ at \in {"lits", "ind", "grp"} /\ Is({"num"}) /\ sym # Num(0) => Len(lits) < MaxLits

PlaceInv ==
    /\ sym \in Symbols /\ at \in Places
    /\ kind \in {"none", "p", "c", "x"} /\ word \in {"none", "cnf", "ind", "grp", "other"}
    /\ lits \in Seq(Numbers \ {0}) /\ Len(lits) <= MaxLits
    /\ started = <<>> <=> at = "line"

(***************************************************************************)
(* What has been handed over.                                              *)
(***************************************************************************)
HandedInv ==
    /\ pc \in {"reading", "done", "refused", "wild", "overread"}
    /\ pc \in {"done", "overread"} =>
           at = "line" /\ (samplingFound => samplingSet = samplingVars)
    /\ pc = "overread" => groupIndep /\ PrintsOutside

ReaderInv == PlaceInv /\ BoundInv /\ Sound(Was) /\ LineInv /\ HandedInv

-----------------------------------------------------------------------------
(* Literals and symbols *)

\* A symbol that reads as a number is one of the file's numbers.
LEMMA NumberInHand ==
    ASSUME sym \in Symbols, sym[1] = "num"
    PROVE  sym[2] \in Numbers /\ sym = Num(sym[2])
BY DEF Symbols, Num, Chr, Characters, Letters, Keywords

LEMMA NumberIs == \A n : Num(n)[1] = "num" /\ Num(n)[2] = n
BY DEF Num

LEMMA CharacterIs == \A c : Chr(c)[1] = c
BY DEF Chr

\* What Advance leaves in hand.
LEMMA AdvanceHas ==
    ASSUME NEW n \in Nat, Advance(n)
    PROVE  /\ sym' \in Symbols
           /\ Is({"num"})' /\ n >= MaxLits => sym'[2] = 0
           /\ Is({"nl"}) /\ lineNum + 1 >= MaxLines => sym' = Chr("eof")
BY DEF Advance, Is

\* The variable of a literal is a number from 1.
LEMMA VarIsPositive == \A x \in Int \ {0} : VarOf(x) \in Nat \ {0}
BY DEF VarOf

LEMMA VarsType ==
    ASSUME NEW ls \in Seq(Int \ {0})
    PROVE  /\ VarsOf(ls) \subseteq Nat \ {0}
           /\ Variables(ls) \in Seq(Nat \ {0})
           /\ Len(Variables(ls)) = Len(ls)
           /\ ToSet(Variables(ls)) = VarsOf(ls)
<1>1. DOMAIN ls = 1 .. Len(ls) /\ Len(ls) \in Nat /\ \A k \in DOMAIN ls : ls[k] \in Int \ {0}
  OBVIOUS
<1>2. \A k \in DOMAIN ls : VarOf(ls[k]) \in Nat \ {0}
  BY <1>1, VarIsPositive
<1>3. Variables(ls) = [k \in 1 .. Len(ls) |-> VarOf(ls[k])]
  BY <1>1 DEF Variables
<1>4. Variables(ls) \in [1 .. Len(ls) -> Nat \ {0}]
  BY <1>1, <1>2, <1>3
<1>5. Variables(ls) \in Seq(Nat \ {0}) /\ Len(Variables(ls)) = Len(ls)
  BY <1>1, <1>4
<1>6. ToSet(Variables(ls)) = VarsOf(ls)
  BY <1>1, <1>3 DEF ToSet, VarsOf
<1>. QED
  BY <1>1, <1>2, <1>5, <1>6 DEF VarsOf

\* One literal more.
LEMMA VarsOfAppend ==
    ASSUME NEW ls \in Seq(Int \ {0}), NEW x \in Int \ {0}
    PROVE  /\ VarsOf(Append(ls, x)) = VarsOf(ls) \cup {VarOf(x)}
           /\ Variables(Append(ls, x)) = Append(Variables(ls), VarOf(x))
<1>1. /\ DOMAIN ls = 1 .. Len(ls) /\ Len(ls) \in Nat
      /\ DOMAIN Append(ls, x) = 1 .. Len(ls) + 1
      /\ \A k \in 1 .. Len(ls) : Append(ls, x)[k] = ls[k]
      /\ Append(ls, x)[Len(ls) + 1] = x
  OBVIOUS
<1>2. 1 .. Len(ls) + 1 = 1 .. Len(ls) \cup {Len(ls) + 1}
  BY <1>1
<1>3. VarsOf(Append(ls, x)) = VarsOf(ls) \cup {VarOf(x)}
  BY <1>1, <1>2 DEF VarsOf
<1>4. /\ Variables(ls) \in Seq(Nat \ {0}) /\ Len(Variables(ls)) = Len(ls)
      /\ VarOf(x) \in Nat \ {0}
  BY VarsType, VarIsPositive
<1>5. /\ Append(Variables(ls), VarOf(x)) \in Seq(Nat \ {0})
      /\ Len(Append(Variables(ls), VarOf(x))) = Len(ls) + 1
      /\ \A k \in 1 .. Len(ls) :
             Append(Variables(ls), VarOf(x))[k] = Variables(ls)[k]
      /\ Append(Variables(ls), VarOf(x))[Len(ls) + 1] = VarOf(x)
  BY <1>4
<1>6. Append(ls, x) \in Seq(Int \ {0}) /\ Len(Append(ls, x)) = Len(ls) + 1
  OBVIOUS
<1>7. /\ Variables(Append(ls, x)) \in Seq(Nat \ {0})
      /\ Len(Variables(Append(ls, x))) = Len(ls) + 1
  BY <1>6, VarsType
<1>8. \A k \in 1 .. Len(ls) + 1 :
          Variables(Append(ls, x))[k] = Append(Variables(ls), VarOf(x))[k]
  BY <1>1, <1>5 DEF Variables
<1>9. Variables(Append(ls, x)) = Append(Variables(ls), VarOf(x))
  BY <1>5, <1>7, <1>8, SeqEqual
<1>. QED
  BY <1>3, <1>9

LEMMA NoVars == VarsOf(<<>>) = {} /\ Variables(<<>>) = <<>>
BY DEF VarsOf, Variables

LEMMA VariablesAppend ==
    ASSUME NEW s \in Seq(Nat \ {0}), NEW ls \in Seq(Int \ {0}), NEW x \in Int \ {0}
    PROVE  s \o Variables(Append(ls, x)) = Append(s \o Variables(ls), VarOf(x))
<1>1. Variables(ls) \in Seq(Nat \ {0}) /\ VarOf(x) \in Nat \ {0}
  BY VarsType, VarIsPositive
<1>2. <<VarOf(x)>> \in Seq(Nat \ {0}) /\ s \o Variables(ls) \in Seq(Nat \ {0})
  BY <1>1, ConcatProperties
<1>3. (s \o Variables(ls)) \o <<VarOf(x)>> = s \o (Variables(ls) \o <<VarOf(x)>>)
  BY <1>1, <1>2, ConcatAssociative
<1>4. /\ Append(Variables(ls), VarOf(x)) = Variables(ls) \o <<VarOf(x)>>
      /\ Append(s \o Variables(ls), VarOf(x)) = (s \o Variables(ls)) \o <<VarOf(x)>>
  BY <1>1, <1>2, AppendIsConcat
<1>. QED
  BY <1>3, <1>4, VarsOfAppend

LEMMA OverwrittenNone ==
    ASSUME NEW map, NEW g, map = [v \in DOMAIN map |-> map[v]]
    PROVE  Overwritten(map, <<>>, g) = map
BY NoVars DEF Overwritten

\* The literals of a line are those of one of DimacsGIS's.
LEMMA LiteralsInLine ==
    ASSUME lits \in Seq(Numbers \ {0}), Len(lits) <= MaxLits
    PROVE  /\ lits \in LitLists /\ lits \in Seq(Int \ {0})
           /\ \A k \in {"ind", "grp", "clause", "xor"} : [kind |-> k, lits |-> lits] \in Lines
<1>1. lits \in [1 .. Len(lits) -> Numbers \ {0}] /\ Len(lits) \in Nat
  OBVIOUS
<1>2. Len(lits) \in 0 .. MaxLits
  BY <1>1, NumbersAssumption
<1>3. lits \in LitLists
  BY <1>1, <1>2 DEF LitLists
<1>4. lits \in Seq(Int \ {0})
  <2>1. Numbers \ {0} \subseteq Int \ {0}
    BY NumbersAssumption
  <2>. QED
    BY <2>1, SeqMonotonic
<1>. QED
  BY <1>3, <1>4, LinesOfNumbers

-----------------------------------------------------------------------------
(* Places *)

LEMMA NowIsSomething == Now # <<>>
BY DEF Now

LEMMA PlaceInitially == ReaderInit => PlaceInv
BY NumbersAssumption DEF ReaderInit, PlaceInv, Places

LEMMA PlaceStep ==
    ASSUME PlaceInv, BoundInv, [ReaderNext]_allVars
    PROVE  PlaceInv'
<1>. USE DEF PlaceInv
<1>0. Len(lits) \in Nat /\ 0 \in Nat
  OBVIOUS
<1>k. ASSUME NEW p \in Places \ {"line"}, Keep(p), at # "line",
             at \in {"lits", "ind", "grp"}
      PROVE  PlaceInv'
  <2>1. sym = Num(sym[2]) /\ sym[2] \in Numbers \ {0} /\ Is({"num"})
    BY <1>k, NumberInHand DEF Keep, Is
  <2>2. Len(lits) < MaxLits
    BY <1>k, <2>1, NumberIs DEF BoundInv
  <2>3. /\ Append(lits, sym[2]) \in Seq(Numbers \ {0})
        /\ Len(Append(lits, sym[2])) = Len(lits) + 1
    BY <2>1
  <2>4. Len(lits') \in Nat /\ lits' \in Seq(Numbers \ {0}) /\ Len(lits') <= MaxLits
    BY <1>k, <2>2, <2>3, NumbersAssumption DEF Keep
  <2>5. sym' \in Symbols
    BY <1>k, <2>4, AdvanceHas DEF Keep
  <2>. QED
    BY <1>k, <2>4, <2>5 DEF Keep
<1>z. ASSUME NEW p \in Places \ {"line"}, Zero(p), at # "line"
      PROVE  PlaceInv'
  BY <1>z, <1>0, AdvanceHas DEF Zero, GoOn
<1>d. ASSUME LineDone
      PROVE  PlaceInv'
  BY <1>d, <1>0, AdvanceHas, NumbersAssumption DEF LineDone, Places
<1>1. CASE SkipWhite
  BY <1>1, <1>0, AdvanceHas DEF SkipWhite, place
<1>2. CASE StartLine
  BY <1>2, <1>0, AdvanceHas, NowIsSomething DEF StartLine, In, Places, Is
<1>3. CASE EndOfFile
  BY <1>3 DEF EndOfFile, place
<1>4. CASE ReadWord
  BY <1>4, <1>0, AdvanceHas DEF ReadWord, Places, InWord, In, Is, Keywords
<1>5. CASE HeaderWord
  BY <1>5 DEF HeaderWord, GoOn, Places, InWord, In
<1>6. CASE HeaderVars
  BY <1>6, <1>0, AdvanceHas DEF HeaderVars, GoOn, Places, In
<1>7. CASE HeaderCount
  BY <1>7, <1>0, AdvanceHas DEF HeaderCount, GoOn, Places, In
<1>8. CASE CommentWord
  BY <1>8 DEF CommentWord, GoOn, Places, InWord, In
<1>9. CASE ReadLit
  BY <1>9, <1>k DEF ReadLit, Places, In
<1>10. CASE AfterLit
  BY <1>10 DEF AfterLit, GoOn, Places, In
<1>11. CASE ReadZero
  BY <1>11, <1>z DEF ReadZero, Places, In
<1>12. CASE EndClause
  BY <1>12, <1>d DEF EndClause
<1>13. CASE SkipReturn
  BY <1>13, <1>0, AdvanceHas DEF SkipReturn, place
<1>14. CASE SkipLine
  BY <1>14, <1>0, <1>d, AdvanceHas DEF SkipLine, place
<1>15. CASE ReadIndLit
  BY <1>15, <1>k DEF ReadIndLit, Places, In
<1>16. CASE IndZero
  BY <1>16, <1>z DEF IndZero, Places, In
<1>17. CASE ReadGrpLit
  BY <1>17, <1>k DEF ReadGrpLit, Places, In
<1>18. CASE GrpZero
  BY <1>18, <1>z DEF GrpZero, Places, In
<1>19. CASE GrpLitOutside
  BY <1>19 DEF GrpLitOutside, place
<1>20. CASE RefuseFile
  BY <1>20 DEF RefuseFile, place
<1>21. CASE UNCHANGED allVars
  BY <1>21 DEF allVars, place
<1>. QED
  BY <1>1, <1>2, <1>3, <1>4, <1>5, <1>6, <1>7, <1>8, <1>9, <1>10, <1>11, <1>12, <1>13,
     <1>14, <1>15, <1>16, <1>17, <1>18, <1>19, <1>20, <1>21
     DEF ReaderNext, ReaderStep, ReaderStopped

-----------------------------------------------------------------------------
(* Bounds *)

LEMMA BoundInitially == ReaderInit => BoundInv
BY NumbersAssumption DEF ReaderInit, Init, BoundInv

\* Room for the literal in hand, if there is one.
LEMMA RoomAfterAdvance ==
    ASSUME NEW n \in Nat, Advance(n), Is({"num"})', sym' # Num(0)
    PROVE  n < MaxLits
<1>1. sym' \in Symbols /\ (Is({"num"})' /\ n >= MaxLits => sym'[2] = 0)
  BY AdvanceHas
<1>2. (sym \in Symbols /\ sym[1] = "num" => sym = Num(sym[2]))'
  BY NumberInHand, PTL
<1>3. sym' = Num(sym'[2])
  BY <1>1, <1>2 DEF Is
<1>. QED
  BY <1>1, <1>3, NumbersAssumption

LEMMA BoundStep ==
    ASSUME PlaceInv, BoundInv, LineInv, [ReaderNext]_allVars
    PROVE  BoundInv'
<1>. USE DEF BoundInv
<1>0. Len(lits) \in Nat /\ 0 \in Nat /\ MaxLines \in Nat \ {0} /\ MaxLits \in Nat \ {0}
  BY NumbersAssumption DEF PlaceInv
<1>r. at # "line" /\ ~ (at = "lits" /\ Is({"nul"})) => lineNum < MaxLines
  BY <1>0
<1>l. ASSUME at # "line", ~ (at = "lits" /\ Is({"nul"})), lineNum' = lineNum,
             at' \in {"lits", "ind", "grp"} /\ Is({"num"})' /\ sym' # Num(0)
                 => Len(lits') < MaxLits
      PROVE  BoundInv'
  BY <1>l, <1>r
<1>k. ASSUME NEW p, Keep(p), at # "line", lineNum' = lineNum
      PROVE  BoundInv'
  <2>1. Len(lits') \in Nat
    BY <1>k DEF Keep, PlaceInv
  <2>2. Is({"num"})' /\ sym' # Num(0) => Len(lits') < MaxLits
    BY <1>k, <2>1, RoomAfterAdvance DEF Keep
  <2>. QED
    BY <1>k, <1>l, <2>2 DEF Keep, Is
<1>z. ASSUME NEW p \in Places \ {"lits", "ind", "grp", "line"}, Zero(p), at # "line",
             lineNum' = lineNum
      PROVE  BoundInv'
  BY <1>z, <1>l, NumberIs DEF Zero, GoOn, Is
<1>d. ASSUME LineDone, at # "line", at # "lits"
      PROVE  BoundInv'
  <2>1. lineNum < MaxLines
    BY <1>d, <1>r
  <2>2. CASE Is({"nl"})
    <3>1. lineNum + 1 >= MaxLines => sym' = Chr("eof")
      BY <1>d, <1>0, <2>2, AdvanceHas DEF LineDone
    <3>. QED
      BY <1>d, <1>0, <2>1, <3>1, CharacterIs DEF LineDone, Is
  <2>3. CASE ~ Is({"nl"})
    BY <1>d, <1>0, <2>1, <2>3 DEF LineDone, LineEnds, Is
  <2>. QED
    BY <2>2, <2>3
<1>1. CASE SkipWhite
  <2>1. at' = at /\ lits' = lits /\ lineNum' = lineNum
    BY <1>1 DEF SkipWhite, place, vars
  <2>2. Is({"num"})' /\ sym' # Num(0) => Len(lits') < MaxLits
    BY <1>0, <1>1, <2>1, RoomAfterAdvance DEF SkipWhite
  <2>3. lineNum < MaxLines
    BY <1>0, <1>1 DEF SkipWhite, White, Is
  <2>. QED
    BY <2>1, <2>2, <2>3
<1>2. CASE StartLine
  <2>1. lineNum' = lineNum /\ lits' = <<>>
    BY <1>2 DEF StartLine, In, vars, LineInv
  <2>2. Len(lits') < MaxLits
    BY <1>0, <2>1
  <2>3. CASE lineNum < MaxLines
    BY <2>1, <2>2, <2>3
  <2>4. CASE lineNum = MaxLines
    <3>1. Is({"nul"}) /\ sym' = sym /\ at' = "lits"
      BY <1>2, <2>4 DEF StartLine, In, Is
    <3>. QED
      BY <2>1, <2>2, <3>1 DEF Is
  <2>. QED
    BY <1>0, <2>3, <2>4
<1>3. CASE EndOfFile
  BY <1>3 DEF EndOfFile, place, HandOver, Is, In
<1>4. CASE ReadWord
  BY <1>4, <1>l DEF ReadWord, InWord, In, vars
<1>5. CASE HeaderWord
  BY <1>5, <1>l DEF HeaderWord, GoOn, InWord, In
<1>6. CASE HeaderVars
  BY <1>6, <1>l DEF HeaderVars, GoOn, In
<1>7. CASE HeaderCount
  BY <1>7, <1>l DEF HeaderCount, GoOn, In
<1>8. CASE CommentWord
  BY <1>8, <1>l DEF CommentWord, GoOn, InWord, In, WordEnds, Is
<1>9. CASE ReadLit
  BY <1>9, <1>k DEF ReadLit, In
<1>10. CASE AfterLit
  BY <1>10, <1>l DEF AfterLit, GoOn, In, Is, vars
<1>11. CASE ReadZero
  BY <1>11, <1>z DEF ReadZero, Places, In, vars
<1>12. CASE EndClause
  BY <1>12, <1>d DEF EndClause, AtEOL, In
<1>13. CASE SkipReturn
  BY <1>13, <1>l DEF SkipReturn, place, In, vars
<1>14. CASE SkipLine
  BY <1>14, <1>d, <1>l DEF SkipLine, place, In
<1>15. CASE ReadIndLit
  BY <1>15, <1>k DEF ReadIndLit, In
<1>16. CASE IndZero
  BY <1>16, <1>z DEF IndZero, Places, In, vars
<1>17. CASE ReadGrpLit
  BY <1>17, <1>k DEF ReadGrpLit, In
<1>18. CASE GrpZero
  BY <1>18, <1>z DEF GrpZero, Places, In
<1>19. CASE GrpLitOutside
  BY <1>19, <1>l DEF GrpLitOutside, place, In, Is
<1>20. CASE RefuseFile
  BY <1>20 DEF RefuseFile, place, Is
<1>21. CASE UNCHANGED allVars
  BY <1>21 DEF allVars, vars, place, Is
<1>. QED
  BY <1>1, <1>2, <1>3, <1>4, <1>5, <1>6, <1>7, <1>8, <1>9, <1>10, <1>11, <1>12, <1>13,
     <1>14, <1>15, <1>16, <1>17, <1>18, <1>19, <1>20, <1>21
     DEF ReaderNext, ReaderStep, ReaderStopped

-----------------------------------------------------------------------------
(* What the line has written *)

LEMMA LineInitially == ReaderInit => LineInv
BY DEF ReaderInit, LineInv

\* Parts of the results the parser looks at within a line.
LEMMA StartedTypes ==
    ASSUME Sound(Was), at # "line"
    PROVE  /\ Was = started
           /\ started[1] \in Nat /\ started[4] \in Nat
           /\ started[3] \in BOOLEAN /\ started[6] \in BOOLEAN
           /\ started[5] \in Seq(Nat \ {0})
           /\ started[7] \in Seq(Nat) /\ started[8] \in Seq(Seq(Nat \ {0}))
BY DEF Sound, SoundSolver, SoundSampling, SoundGroups, Was

LEMMA MapOfIsSeq ==
    ASSUME NEW t, t[4] \in Nat, t[7] \in Seq(Nat)
    PROVE  MapOf(t) \in Seq(Nat) /\ MapOf(t) = [v \in DOMAIN MapOf(t) |-> MapOf(t)[v]]
<1>1. [k \in 1 .. t[4] |-> 0] \in Seq(Nat)
  <2>1. [k \in 1 .. t[4] |-> 0] \in [1 .. t[4] -> Nat]
    OBVIOUS
  <2>. QED
    BY <2>1
<1>2. MapOf(t) \in Seq(Nat)
  BY <1>1 DEF MapOf
<1>3. MapOf(t) \in [1 .. Len(MapOf(t)) -> Nat]
  BY <1>2
<1>. QED
  BY <1>2, <1>3

LEMMA LineKept ==
    ASSUME LineInv, UNCHANGED <<strict, solver, header, sampling, groups, place>>
    PROVE  LineInv'
BY DEF LineInv, ClauseInv, EmptyLineInv, HeaderInv, CommentInv, SolverKept, AssignedKept,
       HeaderKept, SamplingKept, GroupsKept, Acceptable, solver, header, sampling, groups,
       place

\* From one place of a clause to another.
LEMMA ClauseKept ==
    ASSUME ClauseInv, at' \in {"lits", "afterLit", "afterZero", "eol"},
           UNCHANGED <<strict, solver, header, sampling, groups, kind, lits, started>>
    PROVE  LineInv'
BY DEF LineInv, ClauseInv, AssignedKept, HeaderKept, SamplingKept, GroupsKept, Acceptable,
       solver, header, sampling, groups

LEMMA LineStarts ==
    ASSUME LineInv, Sound(Was), StartLine
    PROVE  LineInv'
<1>1. /\ at = "line" /\ word' = "none" /\ lits' = <<>> /\ started' = Now
      /\ kind' = IF Is({"p", "c", "x"}) THEN sym[1] ELSE "none"
      /\ at' = CASE Is({"p", "c"}) -> "gap" [] Is({"nl"}) -> "skip" [] OTHER -> "lits"
      /\ UNCHANGED vars
  BY DEF StartLine, In, LineInv
<1>2. (SolverKept /\ AssignedKept /\ HeaderKept /\ SamplingKept /\ GroupsKept)'
  BY <1>1 DEF SolverKept, AssignedKept, HeaderKept, SamplingKept, GroupsKept, Now, vars,
              solver, header, sampling, groups
<1>3. CASE Is({"p", "c"})
  <2>1. at' = "gap" /\ kind' \in {"p", "c"}
    BY <1>1, <1>3 DEF Is
  <2>. QED
    BY <1>1, <1>2, <2>1 DEF LineInv, HeaderInv, CommentInv
<1>4. CASE Is({"nl"})
  <2>1. at' = "skip" /\ kind' = "none"
    BY <1>1, <1>4 DEF Is
  <2>. QED
    BY <1>1, <1>2, <2>1 DEF LineInv, EmptyLineInv
<1>5. CASE ~ Is({"p", "c"}) /\ ~ Is({"nl"})
  <2>1. at' = "lits" /\ kind' \in {"none", "x"}
    BY <1>1, <1>5 DEF Is
  <2>2. VarsOf(lits') = {} /\ nVars' = started'[1] /\ nVars' \in Nat
    BY <1>1, <1>2, NoVars DEF SolverKept, Sound, SoundSolver, Was, Now, vars, solver
  <2>3. ClauseInv'
    BY <1>2, <2>1, <2>2 DEF ClauseInv
  <2>. QED
    BY <2>1, <2>3 DEF LineInv
<1>. QED
  BY <1>3, <1>4, <1>5

LEMMA HeaderSteps ==
    ASSUME PlaceInv, LineInv, HeaderWord \/ HeaderVars \/ HeaderCount
    PROVE  LineInv'
<1>. USE DEF HeaderInv, AssignedKept, SamplingKept, GroupsKept, SolverKept, HeaderKept, GoOn,
             solver, header, sampling, groups
<1>1. CASE HeaderWord
  <2>1. at \in {"gap", "word"} /\ HeaderInv
    BY <1>1 DEF HeaderWord, InWord, In, LineInv, CommentInv
  <2>2. at' = "vars" /\ HeaderInv'
    BY <1>1, <2>1 DEF HeaderWord
  <2>. QED
    BY <2>2 DEF LineInv
<1>2. CASE HeaderVars
  <2>1. at = "vars" /\ HeaderInv
    BY <1>2 DEF HeaderVars, In, LineInv
  <2>2. sym[2] \in Numbers
    BY <1>2, NumberInHand DEF HeaderVars, Is, PlaceInv
  <2>3. at' = "count" /\ HeaderInv'
    BY <1>2, <2>1, <2>2 DEF HeaderVars
  <2>. QED
    BY <2>3 DEF LineInv
<1>3. CASE HeaderCount
  <2>1. at = "count" /\ HeaderInv
    BY <1>3 DEF HeaderCount, In, LineInv
  <2>2. at' = "skip" /\ HeaderInv'
    BY <1>3, <2>1 DEF HeaderCount
  <2>. QED
    BY <2>2 DEF LineInv
<1>. QED
  BY <1>1, <1>2, <1>3

LEMMA CommentBegins ==
    ASSUME PlaceInv, LineInv, Sound(Was), CommentWord
    PROVE  LineInv'
<1>1. at \in {"gap", "word"} /\ CommentInv
  BY DEF CommentWord, InWord, In, LineInv, HeaderInv
<1>2. /\ SolverKept /\ AssignedKept /\ HeaderKept /\ SamplingKept /\ GroupsKept
      /\ lits = <<>> /\ kind = "c"
  BY <1>1 DEF CommentInv
<1>3. (SolverKept /\ AssignedKept /\ HeaderKept)' /\ lits' = <<>> /\ kind' = "c"
  BY <1>2 DEF CommentWord, GoOn, SolverKept, AssignedKept, HeaderKept, solver, header
<1>4. /\ at' = IF word \in {"ind", "grp"} THEN word ELSE "skip"
      /\ word' = word /\ started' = started
  BY DEF CommentWord, GoOn
<1>5. /\ samplingVars' = started'[5]
      /\ samplingVars' = started'[5] \o Variables(lits')
  <2>1. samplingVars' = started'[5] /\ started'[5] \in Seq(Nat \ {0})
    BY <1>1, <1>2, <1>4, StartedTypes DEF CommentWord, SamplingKept
  <2>2. started'[5] \o <<>> = started'[5]
    BY <2>1, ConcatEmptySeq
  <2>. QED
    BY <1>3, <2>1, <2>2, NoVars
<1>6. word # "ind" => SamplingKept'
  BY <1>1, <1>2, <1>4, StartedTypes DEF CommentWord, SamplingKept
<1>7. word # "grp" => GroupsKept'
  BY <1>2, <1>4 DEF CommentWord, GroupsKept
<1>8. word = "grp" =>
          /\ VarsOf(lits') \subseteq DOMAIN MapOf(started')
          /\ var2varGroup' = Overwritten(MapOf(started'), lits', Len(ListOf(started')))
          /\ varGroups' = ListOf(started')
  <2>1. StartedMap = MapOf(started) /\ StartedGroups = ListOf(started)
    BY <1>2 DEF StartedMap, StartedGroups, MapOf, ListOf, GroupsKept, HeaderKept
  <2>2. Overwritten(MapOf(started), <<>>, Len(ListOf(started))) = MapOf(started)
    BY <1>1, StartedTypes, MapOfIsSeq, OverwrittenNone
  <2>. QED
    BY <1>3, <1>4, <2>1, <2>2, NoVars DEF CommentWord
<1>9. word = "ind" => samplingFound' = TRUE
  <2>1. samplingFound' = (samplingFound \/ word = "ind")
    BY DEF CommentWord
  <2>. QED
    BY <2>1, Zenon
<1>10. CommentInv'
  BY <1>3, <1>4, <1>5, <1>6, <1>7, <1>8, <1>9 DEF CommentInv
<1>. QED
  BY <1>4, <1>10 DEF LineInv

LEMMA ClauseGrows ==
    ASSUME PlaceInv, LineInv, Sound(Was), ReadLit
    PROVE  LineInv'
<1>1. at = "lits" /\ ClauseInv
  BY DEF ReadLit, In, LineInv
<1>2. /\ lits \in Seq(Int \ {0}) /\ sym[2] \in Int \ {0}
      /\ Acceptable(VarOf(sym[2]))
      /\ lits' = Append(lits, sym[2]) /\ nVars' = Larger(nVars, VarOf(sym[2]))
      /\ at' = "afterLit"
  BY LiteralsInLine, NumberInHand, NumbersAssumption DEF ReadLit, Keep, PlaceInv
<1>3. VarsOf(lits') = VarsOf(lits) \cup {VarOf(sym[2])} /\ VarOf(sym[2]) \in Nat
  BY <1>2, VarsOfAppend, VarIsPositive
<1>4. VarsOf(lits) \subseteq Nat /\ started[1] \in Nat
  BY <1>1, <1>2, VarsType, StartedTypes
<1>5. /\ nVars' \in {started[1]} \cup VarsOf(lits')
      /\ \A m \in {started[1]} \cup VarsOf(lits') : m <= nVars'
  <2>1. /\ nVars \in {started[1]} \cup VarsOf(lits) /\ nVars \in Nat
        /\ \A m \in {started[1]} \cup VarsOf(lits) : m <= nVars
    BY <1>1, <1>4 DEF ClauseInv
  <2>2. CASE nVars >= VarOf(sym[2])
    <3>1. nVars' = nVars
      BY <1>2, <2>2 DEF Larger
    <3>. QED
      BY <1>3, <2>1, <2>2, <3>1
  <2>3. CASE ~ (nVars >= VarOf(sym[2]))
    <3>1. nVars' = VarOf(sym[2])
      BY <1>2, <2>3 DEF Larger
    <3>2. \A m \in {started[1]} \cup VarsOf(lits) : m \in Nat /\ m <= VarOf(sym[2])
      BY <1>3, <1>4, <2>1, <2>3
    <3>. QED
      BY <1>3, <3>1, <3>2
  <2>. QED
    BY <2>2, <2>3
<1>6. \A v : Acceptable(v)' = Acceptable(v)
  BY DEF Acceptable, ReadLit, header
<1>7. ClauseInv'
  BY <1>1, <1>2, <1>3, <1>5, <1>6 DEF ClauseInv, ReadLit, Keep, AssignedKept, HeaderKept,
     SamplingKept, GroupsKept, header, sampling, groups
<1>. QED
  BY <1>2, <1>7 DEF LineInv

LEMMA IndSteps ==
    ASSUME PlaceInv, LineInv, Sound(Was), ReadIndLit \/ IndZero
    PROVE  LineInv'
<1>1. at = "ind" /\ CommentInv
  BY DEF ReadIndLit, IndZero, In, LineInv
<1>2. CASE ReadIndLit
  <2>1. /\ lits \in Seq(Int \ {0}) /\ sym[2] \in Int \ {0}
        /\ lits' = Append(lits, sym[2]) /\ samplingVars' = Append(samplingVars, VarOf(sym[2]))
        /\ at' = "ind"
    BY <1>2, LiteralsInLine, NumberInHand, NumbersAssumption DEF ReadIndLit, Keep, PlaceInv
  <2>2. samplingVars' = started[5] \o Variables(lits')
    BY <1>1, <2>1, StartedTypes, VariablesAppend DEF CommentInv
  <2>3. CommentInv'
    BY <1>1, <1>2, <2>1, <2>2 DEF CommentInv, ReadIndLit, Keep, SolverKept, AssignedKept,
       HeaderKept, SamplingKept, GroupsKept, solver, header, groups
  <2>. QED
    BY <2>1, <2>3 DEF LineInv
<1>3. CASE IndZero
  <2>1. CommentInv' /\ at' = "skip"
    BY <1>1, <1>3 DEF CommentInv, IndZero, Zero, GoOn, SolverKept, AssignedKept, HeaderKept,
       SamplingKept, GroupsKept, vars, solver, header, sampling, groups
  <2>. QED
    BY <2>1 DEF LineInv
<1>. QED
  BY <1>2, <1>3

LEMMA GrpSteps ==
    ASSUME PlaceInv, LineInv, Sound(Was), ReadGrpLit \/ GrpZero
    PROVE  LineInv'
<1>. DEFINE map == MapOf(started)
            g == Len(ListOf(started))
<1>1. at = "grp" /\ CommentInv /\ word = "grp"
  BY DEF ReadGrpLit, GrpZero, In, LineInv, CommentInv
<1>2. CASE ReadGrpLit
  <2>1. /\ lits \in Seq(Int \ {0}) /\ sym[2] \in Int \ {0}
        /\ lits' = Append(lits, sym[2]) /\ at' = "grp"
        /\ VarOf(sym[2]) \in DOMAIN var2varGroup
        /\ var2varGroup' = [var2varGroup EXCEPT ![VarOf(sym[2])] = Len(varGroups)]
    BY <1>2, LiteralsInLine, NumberInHand, NumbersAssumption DEF ReadGrpLit, Keep, PlaceInv
  <2>2. /\ VarsOf(lits) \subseteq DOMAIN map
        /\ var2varGroup = Overwritten(map, lits, g)
        /\ varGroups = ListOf(started)
    BY <1>1 DEF CommentInv
  <2>3. VarsOf(lits') \subseteq DOMAIN map
    BY <2>1, <2>2, VarsOfAppend DEF Overwritten
  <2>4. var2varGroup' = Overwritten(map, lits', g)
    <3>1. VarsOf(lits') = VarsOf(lits) \cup {VarOf(sym[2])}
      BY <2>1, VarsOfAppend
    <3>. HIDE DEF map
    <3>. QED
      BY <2>1, <2>2, <3>1 DEF Overwritten
  <2>5. CommentInv'
    BY <1>1, <1>2, <2>1, <2>2, <2>3, <2>4 DEF CommentInv, ReadGrpLit, Keep, SolverKept,
       AssignedKept, HeaderKept, SamplingKept, solver, header, sampling
  <2>. QED
    BY <2>1, <2>5 DEF LineInv
<1>3. CASE GrpZero
  <2>1. CommentInv' /\ at' = "skip"
    BY <1>1, <1>3 DEF CommentInv, GrpZero, Zero, GoOn, SolverKept, AssignedKept, HeaderKept,
       SamplingKept, Variables, solver, header, sampling
  <2>. QED
    BY <2>1 DEF LineInv
<1>. QED
  BY <1>2, <1>3

LEMMA LineStep ==
    ASSUME PlaceInv, LineInv, Sound(Was), [ReaderNext]_allVars
    PROVE  LineInv'
<1>d. ASSUME LineDone
      PROVE  LineInv'
  BY <1>d DEF LineDone, LineInv
<1>1. CASE SkipWhite \/ SkipReturn
  BY <1>1, LineKept DEF SkipWhite, SkipReturn, vars
<1>2. CASE StartLine
  BY <1>2, LineStarts
<1>3. CASE EndOfFile
  BY <1>3 DEF EndOfFile, In, place, LineInv
<1>4. CASE ReadWord
  BY <1>4 DEF ReadWord, InWord, In, LineInv, HeaderInv, CommentInv, SolverKept, AssignedKept,
     HeaderKept, SamplingKept, GroupsKept, vars, solver, header, sampling, groups
<1>5. CASE HeaderWord \/ HeaderVars \/ HeaderCount
  BY <1>5, HeaderSteps
<1>6. CASE CommentWord
  BY <1>6, CommentBegins
<1>7. CASE ReadLit
  BY <1>7, ClauseGrows
<1>8. CASE AfterLit
  BY <1>8, ClauseKept DEF AfterLit, In, LineInv, GoOn, vars
<1>9. CASE ReadZero
  BY <1>9, ClauseKept DEF ReadZero, Zero, In, LineInv, GoOn, vars
<1>10. CASE EndClause
  BY <1>10, <1>d DEF EndClause
<1>11. CASE SkipLine
  BY <1>11, <1>d, LineKept DEF SkipLine
<1>12. CASE ReadIndLit \/ IndZero
  BY <1>12, IndSteps
<1>13. CASE ReadGrpLit \/ GrpZero
  BY <1>13, GrpSteps
<1>14. CASE GrpLitOutside \/ RefuseFile
  BY <1>14, LineKept DEF GrpLitOutside, RefuseFile
<1>15. CASE UNCHANGED allVars
  BY <1>15, LineKept DEF allVars, vars
<1>. QED
  BY <1>1, <1>2, <1>3, <1>4, <1>5, <1>6, <1>7, <1>8, <1>9, <1>10, <1>11, <1>12, <1>13,
     <1>14, <1>15 DEF ReaderNext, ReaderStep, ReaderStopped

-----------------------------------------------------------------------------
(* The groups of a line *)

\* Lists of groups.
Groups == Seq(Seq(Nat \ {0}))

LEMMA TailOf ==
    ASSUME NEW list \in Groups, list # <<>>
    PROVE  /\ DeclaredOf(list) = Tail(list) /\ Tail(list) \in Groups
           /\ Len(list) \in Nat /\ Len(list) = Len(Tail(list)) + 1
           /\ DOMAIN Tail(list) = 1 .. Len(Tail(list))
           /\ \A g \in 1 .. Len(Tail(list)) : Tail(list)[g] = list[g + 1]
  BY HeadTailProperties, LenProperties DEF DeclaredOf, Groups

LEMMA GroupAppended ==
    ASSUME NEW list \in Groups, NEW group \in Seq(Nat \ {0})
    PROVE  /\ Append(list, group) \in Groups /\ Append(list, group) # <<>>
           /\ Len(Append(list, group)) = Len(list) + 1 /\ Len(list) \in Nat
           /\ \A g \in 1 .. Len(list) : Append(list, group)[g] = list[g]
           /\ Append(list, group)[Len(list) + 1] = group
BY AppendProperties, LenProperties DEF Groups

LEMMA FunctionIsSeq ==
    ASSUME NEW k \in Nat, NEW f \in [1 .. k -> Nat]
    PROVE  f \in Seq(Nat)
OBVIOUS

LEMMA NoGroups == \A list \in Groups : Len(list) = 0 => list = <<>>
BY DEF Groups

\* One group more at the end of a list that has its dummy.
LEMMA TailOfAppend ==
    ASSUME NEW list \in Groups, list # <<>>, NEW group \in Seq(Nat \ {0})
    PROVE  /\ Append(list, group) \in Groups /\ Append(list, group) # <<>>
           /\ DeclaredOf(Append(list, group)) \in Groups
           /\ DOMAIN DeclaredOf(Append(list, group)) = DOMAIN DeclaredOf(list) \cup {Len(list)}
           /\ Len(list) \notin DOMAIN DeclaredOf(list)
           /\ \A g \in DOMAIN DeclaredOf(list) : g \in Nat /\ g < Len(list)
           /\ \A g \in DOMAIN DeclaredOf(list) :
                  DeclaredOf(Append(list, group))[g] = DeclaredOf(list)[g]
           /\ DeclaredOf(Append(list, group))[Len(list)] = group
<1>1. /\ Append(list, group) \in Groups /\ Append(list, group) # <<>>
      /\ Len(Append(list, group)) = Len(list) + 1 /\ Len(list) \in Nat
      /\ \A g \in 1 .. Len(list) : Append(list, group)[g] = list[g]
      /\ Append(list, group)[Len(list) + 1] = group
  BY GroupAppended
<1>2. /\ DeclaredOf(list) = Tail(list)
      /\ Len(list) = Len(Tail(list)) + 1 /\ DOMAIN Tail(list) = 1 .. Len(Tail(list))
      /\ \A g \in 1 .. Len(Tail(list)) : Tail(list)[g] = list[g + 1]
      /\ Len(Tail(list)) \in Nat
  BY TailOf, LenProperties DEF Groups
<1>. DEFINE longer == Append(list, group)
<1>3. /\ DeclaredOf(longer) = Tail(longer) /\ Tail(longer) \in Groups
      /\ Len(longer) = Len(Tail(longer)) + 1 /\ DOMAIN Tail(longer) = 1 .. Len(Tail(longer))
      /\ \A g \in 1 .. Len(Tail(longer)) : Tail(longer)[g] = longer[g + 1]
      /\ Len(Tail(longer)) \in Nat
  BY <1>1, TailOf, LenProperties DEF Groups
<1>. HIDE DEF longer
<1>4. Len(Tail(longer)) = Len(list) /\ 1 .. Len(list) = 1 .. Len(Tail(list)) \cup {Len(list)}
  BY <1>1, <1>2, <1>3 DEF longer
<1>5. \A g \in 1 .. Len(Tail(list)) : Tail(longer)[g] = Tail(list)[g]
  BY <1>1, <1>2, <1>3, <1>4 DEF longer
<1>6. Tail(longer)[Len(list)] = group
  BY <1>1, <1>2, <1>3, <1>4 DEF longer
<1>7. /\ DeclaredOf(longer) \in Groups
      /\ DOMAIN DeclaredOf(longer) = DOMAIN DeclaredOf(list) \cup {Len(list)}
  BY <1>2, <1>3, <1>4
<1>8. /\ Len(list) \notin DOMAIN DeclaredOf(list)
      /\ \A g \in DOMAIN DeclaredOf(list) : g \in Nat /\ g < Len(list)
  BY <1>1, <1>2
<1>9. /\ \A g \in DOMAIN DeclaredOf(list) : DeclaredOf(longer)[g] = DeclaredOf(list)[g]
      /\ DeclaredOf(longer)[Len(list)] = group
  BY <1>2, <1>3, <1>5, <1>6
<1>. QED
  BY <1>1, <1>7, <1>8, <1>9 DEF longer

\* The map and the list as a group finds them (see StartedMap) agree.
LEMMA StartedSound ==
    ASSUME NEW t, SoundGroups(t), t[4] \in Nat
    PROVE  /\ MapOf(t) \in Seq(Nat) /\ ListOf(t) \in Groups /\ ListOf(t) # <<>>
           /\ \A g \in DOMAIN DeclaredOf(ListOf(t)) :
                  ToSet(DeclaredOf(ListOf(t))[g]) \subseteq DOMAIN MapOf(t)
           /\ Follows(MapOf(t), DeclaredOf(ListOf(t)))
<1>1. /\ MapOf(t) \in Seq(Nat) /\ t[8] \in Groups
      /\ \A g \in DOMAIN DeclaredOf(t[8]) : ToSet(DeclaredOf(t[8])[g]) \subseteq DOMAIN t[7]
      /\ Follows(t[7], DeclaredOf(t[8]))
      /\ t[8] = <<>> => t[7] = <<>>
  BY MapOfIsSeq DEF SoundGroups, Groups
<1>2. CASE t[7] # <<>>
  BY <1>1, <1>2 DEF MapOf, ListOf
<1>3. CASE t[7] = <<>>
  <2>1. /\ ListOf(t) = Append(t[8], <<>>) /\ MapOf(t) = [k \in 1 .. t[4] |-> 0]
        /\ <<>> \in Seq(Nat \ {0}) /\ DOMAIN t[7] = {}
    BY <1>3 DEF ListOf, MapOf
  <2>2. ListOf(t) \in Groups /\ ListOf(t) # <<>>
    <3>1. Append(t[8], <<>>) \in Groups /\ Append(t[8], <<>>) # <<>>
      BY <1>1, <2>1, GroupAppended, Zenon
    <3>. QED
      BY <2>1, <3>1, Zenon
  <2>3. \A g \in DOMAIN DeclaredOf(ListOf(t)) : ToSet(DeclaredOf(ListOf(t))[g]) = {}
    <3>1. ToSet(<<>>) = {}
      BY DEF ToSet
    <3>2. CASE t[8] = <<>>
      <4>1. DeclaredOf(ListOf(t)) = <<>>
        <5>1. Len(ListOf(t)) = 1
          BY <1>1, <2>1, <3>2, GroupAppended
        <5>2. /\ DeclaredOf(ListOf(t)) = Tail(ListOf(t))
              /\ 1 = Len(Tail(ListOf(t))) + 1 /\ Tail(ListOf(t)) \in Groups
          BY <2>2, <5>1, TailOf
        <5>3. Len(Tail(ListOf(t))) \in Nat
          BY <5>2, LenProperties DEF Groups
        <5>. QED
          BY <5>2, <5>3, NoGroups
      <4>. QED
        BY <4>1
    <3>3. CASE t[8] # <<>>
      <4>1. /\ DOMAIN DeclaredOf(ListOf(t)) = DOMAIN DeclaredOf(t[8]) \cup {Len(t[8])}
            /\ \A g \in DOMAIN DeclaredOf(t[8]) :
                   DeclaredOf(ListOf(t))[g] = DeclaredOf(t[8])[g]
            /\ DeclaredOf(ListOf(t))[Len(t[8])] = <<>>
        <5>1. /\ DOMAIN DeclaredOf(Append(t[8], <<>>))
                     = DOMAIN DeclaredOf(t[8]) \cup {Len(t[8])}
              /\ \A g \in DOMAIN DeclaredOf(t[8]) :
                     DeclaredOf(Append(t[8], <<>>))[g] = DeclaredOf(t[8])[g]
              /\ DeclaredOf(Append(t[8], <<>>))[Len(t[8])] = <<>>
          BY <1>1, <2>1, <3>3, TailOfAppend, Zenon
        <5>. QED
          BY <2>1, <5>1, Zenon
      <4>2. \A g \in DOMAIN DeclaredOf(t[8]) : ToSet(DeclaredOf(t[8])[g]) = {}
        BY <1>1, <2>1
      <4>. QED
        BY <3>1, <4>1, <4>2
    <3>. QED
      BY <3>2, <3>3
  <2>4. Follows(MapOf(t), DeclaredOf(ListOf(t)))
    BY <2>1, <2>3 DEF Follows
  <2>. QED
    BY <1>1, <2>2, <2>3, <2>4
<1>. QED
  BY <1>2, <1>3

\* A variable listed again is mapped to its new group, which is the last.
LEMMA GroupSound ==
    ASSUME NEW t, SoundGroups(t), t[4] \in Nat, NEW ls \in Seq(Int \ {0}),
           VarsOf(ls) \subseteq DOMAIN MapOf(t),
           NEW n, n[7] = Overwritten(MapOf(t), ls, Len(ListOf(t))),
           n[8] = Append(ListOf(t), Variables(ls))
    PROVE  SoundGroups(n)
<1>. DEFINE map == MapOf(t)
            list == ListOf(t)
            old == DeclaredOf(list)
            new == DeclaredOf(n[8])
            last == Len(list)
<1>1. /\ map \in Seq(Nat) /\ list \in Groups /\ list # <<>>
      /\ \A g \in DOMAIN old : ToSet(old[g]) \subseteq DOMAIN map
      /\ Follows(map, old)
  BY StartedSound
<1>2. Variables(ls) \in Seq(Nat \ {0}) /\ ToSet(Variables(ls)) = VarsOf(ls)
  BY VarsType
<1>. HIDE DEF map, list
<1>3. /\ n[8] \in Groups /\ n[8] # <<>>
      /\ DOMAIN new = DOMAIN old \cup {last} /\ last \notin DOMAIN old
      /\ \A g \in DOMAIN old : g \in Nat /\ g < last
      /\ \A g \in DOMAIN old : new[g] = old[g]
      /\ new[last] = Variables(ls)
  <2>1. n[8] = Append(list, Variables(ls))
    BY DEF list
  <2>2. /\ Append(list, Variables(ls)) \in Groups /\ Append(list, Variables(ls)) # <<>>
        /\ DOMAIN DeclaredOf(Append(list, Variables(ls))) = DOMAIN old \cup {last}
        /\ last \notin DOMAIN old
        /\ \A g \in DOMAIN old : g \in Nat /\ g < last
        /\ \A g \in DOMAIN old : DeclaredOf(Append(list, Variables(ls)))[g] = old[g]
        /\ DeclaredOf(Append(list, Variables(ls)))[last] = Variables(ls)
    BY <1>1, <1>2, TailOfAppend, Zenon
  <2>. QED
    BY <2>1, <2>2, Zenon
<1>4. last \in Nat /\ DOMAIN map = 1 .. Len(map) /\ Len(map) \in Nat
      /\ \A v \in DOMAIN map : map[v] \in Nat
  BY <1>1, LenProperties DEF Groups
<1>. HIDE DEF old, new, last
<1>5. /\ n[7] = [v \in 1 .. Len(map) |-> IF v \in VarsOf(ls) THEN last ELSE map[v]]
      /\ VarsOf(ls) \subseteq DOMAIN map
  BY <1>4 DEF Overwritten, map, last, list
<1>6. n[7] \in Seq(Nat)
  <2>1. n[7] \in [1 .. Len(map) -> Nat]
    BY <1>4, <1>5
  <2>. QED
    BY <1>4, <2>1, FunctionIsSeq
<1>7. ASSUME NEW g \in DOMAIN new
      PROVE  ToSet(new[g]) \subseteq DOMAIN n[7]
  BY <1>1, <1>2, <1>3, <1>4, <1>5
<1>8. ASSUME NEW v \in DOMAIN n[7]
      PROVE  /\ n[7][v] \in {0} \cup { g \in DOMAIN new : v \in ToSet(new[g]) }
             /\ \A g \in { g \in DOMAIN new : v \in ToSet(new[g]) } : g <= n[7][v]
  <2>1. /\ map[v] \in {0} \cup { g \in DOMAIN old : v \in ToSet(old[g]) }
        /\ \A g \in { g \in DOMAIN old : v \in ToSet(old[g]) } : g <= map[v]
    BY <1>1, <1>4, <1>5 DEF Follows
  <2>2. CASE v \in VarsOf(ls)
    BY <1>2, <1>3, <1>4, <1>5, <2>2
  <2>3. CASE v \notin VarsOf(ls)
    BY <1>2, <1>3, <1>4, <1>5, <2>1, <2>3
  <2>. QED
    BY <2>2, <2>3
<1>9. Follows(n[7], new)
  BY <1>8 DEF Follows
<1>. QED
  BY <1>3, <1>6, <1>7, <1>9 DEF SoundGroups, Groups, new

-----------------------------------------------------------------------------
(* The end of a line *)

\* The parser's results, one by one.
LEMMA NowIs ==
    /\ Now[1] = nVars /\ Now[2] = assigned /\ Now[3] = headerFound
    /\ Now[4] = numHeaderVars /\ Now[5] = samplingVars /\ Now[6] = samplingFound
    /\ Now[7] = var2varGroup /\ Now[8] = varGroups
BY DEF Now

LEMMA NextNowIs ==
    /\ Now'[1] = nVars' /\ Now'[2] = assigned' /\ Now'[3] = headerFound'
    /\ Now'[4] = numHeaderVars' /\ Now'[5] = samplingVars' /\ Now'[6] = samplingFound'
    /\ Now'[7] = var2varGroup' /\ Now'[8] = varGroups'
BY DEF Now

LEMMA SoundInitially == ReaderInit => Sound(Was)
<1>. SUFFICES ASSUME ReaderInit
              PROVE  Sound(Now)
  BY DEF ReaderInit, Was
<1>1. SoundSolver(Now) /\ SoundSampling(Now)
  <2>1. /\ Now[1] = 0 /\ Now[2] = {} /\ Now[3] = FALSE /\ Now[4] = 0
        /\ Now[5] = <<>> /\ Now[6] = FALSE
    BY NowIs DEF ReaderInit, Init
  <2>2. <<>> \in Seq(Nat \ {0}) /\ 0 <= MaxVar
    BY BoundsAssumption
  <2>3. SoundSolver(Now)
    <3>1. Now[1] \in Nat /\ Now[2] \subseteq 1 .. Now[1] /\ Now[4] \in Nat
      BY <2>1
    <3>2. Now[1] <= MaxVar
      BY <2>1, <2>2
    <3>3. Now[3] \in BOOLEAN
      BY <2>1
    <3>. QED
      BY <3>1, <3>2, <3>3 DEF SoundSolver
  <2>. QED
    BY <2>1, <2>2, <2>3 DEF SoundSampling
<1>2. SoundGroups(Now)
  BY NowIs DEF ReaderInit, Init, SoundGroups, DeclaredOf, Follows
<1>. QED
  BY <1>1, <1>2 DEF Sound

\* A line sets none but its own variables.
LEMMA SetByOwn ==
    ASSUME NEW k \in {"clause", "xor"}, NEW ls \in Seq(Int \ {0})
    PROVE  SetBy([kind |-> k, lits |-> ls]) \subseteq VarsOf(ls)
<1>. DEFINE l == [kind |-> k, lits |-> ls]
            occurrences(v) == Cardinality({ i \in DOMAIN l.lits : VarOf(l.lits[i]) = v })
            kept == IF l.kind = "xor" THEN { v \in VarsOf(l.lits) : occurrences(v) % 2 = 1 }
                    ELSE ToSet(l.lits)
<1>1. SetBy(l) = IF Cardinality(kept) = 1 THEN { VarOf(x) : x \in kept } ELSE {}
  BY DEF SetBy
<1>2. l.lits = ls /\ l.kind = k
  OBVIOUS
<1>3. { VarOf(x) : x \in kept } \subseteq VarsOf(ls)
  <2>1. CASE k = "xor"
    <3>1. kept \subseteq VarsOf(ls)
      BY <1>2, <2>1
    <3>2. \A x \in VarsOf(ls) : VarOf(x) = x
      BY VarsType DEF VarOf
    <3>. QED
      BY <3>1, <3>2
  <2>2. CASE k # "xor"
    <3>1. kept = ToSet(ls)
      BY <1>2, <2>2
    <3>. HIDE DEF kept
    <3>. QED
      BY <3>1 DEF ToSet, VarsOf
  <2>. QED
    BY <2>1, <2>2
<1>. HIDE DEF kept
<1>. QED
  BY <1>1, <1>3

LEMMA ClauseEnds ==
    ASSUME PlaceInv, LineInv, Sound(Was), EndClause
    PROVE  Sound(Now')
<1>1. /\ at # "line" /\ ClauseInv /\ Was = started
  BY StartedTypes DEF EndClause, AtEOL, In, LineInv
<1>2. /\ assigned' = assigned \cup SetBy([kind |-> IF kind = "x" THEN "xor" ELSE "clause",
                                          lits |-> lits])
      /\ nVars' = nVars /\ headerFound' = started[3] /\ numHeaderVars' = started[4]
      /\ samplingVars' = started[5] /\ samplingFound' = started[6]
      /\ var2varGroup' = started[7] /\ varGroups' = started[8]
      /\ assigned = started[2]
  BY <1>1 DEF EndClause, ClauseInv, AssignedKept, HeaderKept, SamplingKept, GroupsKept, header,
     sampling, groups
<1>3. lits \in Seq(Int \ {0})
  BY LiteralsInLine DEF PlaceInv
<1>4. /\ assigned' \subseteq started[2] \cup VarsOf(lits) /\ VarsOf(lits) \subseteq Nat \ {0}
  BY <1>2, <1>3, SetByOwn, VarsType
<1>5. /\ started[1] \in Nat /\ started[2] \subseteq 1 .. started[1]
      /\ started[1] <= MaxVar \/ started[3]
      /\ started[3] \in BOOLEAN /\ started[4] \in Nat
  BY <1>1 DEF Sound, SoundSolver
<1>6. /\ nVars \in Nat /\ assigned' \subseteq 1 .. nVars
      /\ nVars <= MaxVar \/ started[3]
  <2>1. /\ nVars \in {started[1]} \cup VarsOf(lits)
        /\ \A m \in {started[1]} \cup VarsOf(lits) : m <= nVars
        /\ \A v \in VarsOf(lits) : v <= MaxVar
    BY <1>1 DEF ClauseInv, Acceptable
  <2>2. nVars \in Nat
    BY <1>4, <1>5, <2>1
  <2>3. started[2] \subseteq 1 .. nVars /\ VarsOf(lits) \subseteq 1 .. nVars
    BY <1>4, <1>5, <2>1, <2>2
  <2>. QED
    BY <1>4, <1>5, <2>1, <2>2, <2>3
<1>7. SoundSolver(Now')
  BY <1>2, <1>5, <1>6, NextNowIs DEF SoundSolver
<1>8. SoundSampling(Now') /\ SoundGroups(Now')
  <2>1. /\ Now'[5] = started[5] /\ Now'[6] = started[6]
        /\ Now'[7] = started[7] /\ Now'[8] = started[8]
    BY <1>2, NextNowIs
  <2>. QED
    BY <1>1, <2>1 DEF Sound, SoundSampling, SoundGroups
<1>. QED
  BY <1>7, <1>8 DEF Sound

\* The line of another kind: nothing is written with its end.
LEMMA OtherLineEnds ==
    ASSUME PlaceInv, LineInv, Sound(Was), SkipLine, LineDone
    PROVE  Sound(Now')
<1>1. at = "skip" /\ Was = started
  BY StartedTypes DEF SkipLine, In
<1>2. /\ Now'[1] = nVars /\ Now'[2] = assigned /\ Now'[3] = headerFound
      /\ Now'[4] = numHeaderVars /\ Now'[5] = samplingVars /\ Now'[6] = samplingFound
      /\ Now'[7] = var2varGroup /\ Now'[8] = varGroups
  BY NextNowIs DEF SkipLine, solver, header, sampling, groups
<1>3. SoundSolver(started) /\ SoundSampling(started) /\ SoundGroups(started)
  BY <1>1 DEF Sound
<1>s. nVars = started[1] /\ assigned = started[2] /\ headerFound = started[3]
          /\ numHeaderVars = started[4] => SoundSolver(Now')
  BY <1>2, <1>3 DEF SoundSolver
<1>i. samplingVars = started[5] /\ samplingFound = started[6] => SoundSampling(Now')
  BY <1>2, <1>3 DEF SoundSampling
<1>g. var2varGroup = started[7] /\ varGroups = started[8] => SoundGroups(Now')
  BY <1>2, <1>3 DEF SoundGroups
<1>. USE DEF SolverKept, AssignedKept, HeaderKept, SamplingKept, GroupsKept
<1>4. CASE HeaderInv
  <2>1. /\ headerFound = TRUE /\ numHeaderVars \in Numbers /\ numHeaderVars >= 0
        /\ nVars = Larger(started[1], numHeaderVars) /\ assigned = started[2]
    BY <1>1, <1>4 DEF HeaderInv
  <2>2. /\ started[1] \in Nat /\ started[2] \subseteq 1 .. started[1]
        /\ numHeaderVars \in Nat
    BY <1>3, <2>1, NumbersAssumption DEF SoundSolver
  <2>3. nVars \in Nat /\ started[2] \subseteq 1 .. nVars
    BY <2>1, <2>2 DEF Larger
  <2>4. SoundSolver(Now')
    BY <1>2, <2>1, <2>2, <2>3 DEF SoundSolver
  <2>. QED
    BY <1>4, <1>i, <1>g, <2>4 DEF Sound, HeaderInv
<1>5. CASE CommentInv
  <2>1. SoundSolver(Now')
    BY <1>5, <1>s DEF CommentInv
  <2>2. lits \in Seq(Int \ {0})
    BY LiteralsInLine DEF PlaceInv
  <2>3. SoundSampling(Now')
    <3>1. CASE word = "ind"
      <4>1. samplingFound = TRUE /\ samplingVars = started[5] \o Variables(lits)
        BY <1>1, <1>5, <3>1 DEF CommentInv
      <4>2. started[5] \in Seq(Nat \ {0}) /\ Variables(lits) \in Seq(Nat \ {0})
        BY <1>3, <2>2, VarsType DEF SoundSampling
      <4>3. started[5] \o Variables(lits) \in Seq(Nat \ {0})
        BY <4>2, ConcatProperties
      <4>. QED
        BY <1>2, <4>1, <4>3 DEF SoundSampling
    <3>2. CASE word # "ind"
      BY <1>5, <1>i, <3>2 DEF CommentInv
    <3>. QED
      BY <3>1, <3>2
  <2>4. SoundGroups(Now')
    <3>1. CASE word = "grp"
      <4>1. /\ VarsOf(lits) \subseteq DOMAIN MapOf(started)
            /\ Now'[7] = Overwritten(MapOf(started), lits, Len(ListOf(started)))
            /\ Now'[8] = Append(ListOf(started), Variables(lits))
            /\ started[4] \in Nat
        BY <1>1, <1>2, <1>3, <1>5, <3>1 DEF CommentInv, SoundSolver
      <4>. QED
        BY <1>3, <2>2, <4>1, GroupSound
    <3>2. CASE word # "grp"
      BY <1>5, <1>g, <3>2 DEF CommentInv
    <3>. QED
      BY <3>1, <3>2
  <2>. QED
    BY <2>1, <2>3, <2>4 DEF Sound
<1>6. CASE EmptyLineInv
  BY <1>6, <1>s, <1>i, <1>g DEF Sound, EmptyLineInv
<1>. QED
  BY <1>1, <1>4, <1>5, <1>6 DEF LineInv

-----------------------------------------------------------------------------
(* Refinement *)

LEMMA WasUnchanged ==
    ASSUME PlaceInv, [ReaderNext]_allVars, ~ (EndClause \/ (SkipLine /\ LineDone))
    PROVE  Was' = Was
<1>n. ASSUME at = "line", at' = "line", UNCHANGED <<solver, header, sampling, groups>>
      PROVE  Was' = Was
  <2>1. Was' = Now' /\ Was = Now
    BY <1>n DEF Was
  <2>. QED
    BY <1>n, <2>1 DEF Now, solver, header, sampling, groups
<1>l. ASSUME at # "line", at' # "line", started' = started
      PROVE  Was' = Was
  BY <1>l DEF Was
<1>. USE DEF In, GoOn, Keep, Zero, place, vars
<1>1. CASE SkipWhite
  BY <1>1, <1>n, <1>l DEF SkipWhite
<1>2. CASE StartLine
  <2>1. at = "line" /\ at' # "line" /\ started' = Now
    BY <1>2 DEF StartLine
  <2>. QED
    BY <2>1 DEF Was
<1>3. CASE EndOfFile
  BY <1>3, <1>n DEF EndOfFile, HandOver
<1>4. CASE ReadWord
  BY <1>4, <1>l DEF ReadWord, InWord
<1>5. CASE HeaderWord \/ HeaderVars \/ HeaderCount
  BY <1>5, <1>l DEF HeaderWord, HeaderVars, HeaderCount, InWord
<1>6. CASE CommentWord
  BY <1>6, <1>l DEF CommentWord, InWord
<1>7. CASE ReadLit \/ AfterLit
  BY <1>7, <1>l DEF ReadLit, AfterLit
<1>8. CASE ReadZero \/ SkipReturn
  BY <1>8, <1>l DEF ReadZero, SkipReturn
<1>9. CASE SkipLine
  BY <1>9, <1>l DEF SkipLine
<1>10. CASE ReadIndLit \/ IndZero
  BY <1>10, <1>l DEF ReadIndLit, IndZero
<1>11. CASE ReadGrpLit \/ GrpZero
  BY <1>11, <1>l DEF ReadGrpLit, GrpZero
<1>12. CASE GrpLitOutside \/ RefuseFile
  BY <1>12, <1>n, <1>l DEF GrpLitOutside, RefuseFile
<1>13. CASE UNCHANGED allVars
  BY <1>13, <1>n, <1>l DEF allVars
<1>. QED
  BY <1>1, <1>2, <1>3, <1>4, <1>5, <1>6, <1>7, <1>8, <1>9, <1>10, <1>11, <1>12, <1>13
     DEF ReaderNext, ReaderStep, ReaderStopped

LEMMA WasAtLineEnd == EndClause \/ (SkipLine /\ LineDone) => Was' = Now'
BY DEF EndClause, LineDone, Was

LEMMA SoundStep ==
    ASSUME PlaceInv, LineInv, Sound(Was), [ReaderNext]_allVars
    PROVE  Sound(Was)'
<1>1. Sound(Was')
  BY WasUnchanged, WasAtLineEnd, ClauseEnds, OtherLineEnds
<1>. QED
  BY <1>1

LEMMA LStutters ==
    ASSUME Was' = Was, UNCHANGED <<strict, lineNum, library, pc>>
    PROVE  UNCHANGED L!vars
BY DEF L!vars, L!solver, L!header, L!sampling, L!groups, L!library, library

LEMMA LInitially == ReaderInit => L!Init
<1>1. ReaderInit => Init /\ Was = Now
  BY DEF ReaderInit, Was
<1>. QED
  BY <1>1, NowIs DEF Init, L!Init

LEMMA AllButIsTheSame == \A set, n : L!AllBut(set, n) = AllBut(set, n)
BY DEF AllBut, L!AllBut

LEMMA HandsOver ==
    ASSUME EndOfFile, Was' = Was
    PROVE  L!HandOver
<1>1. Was = Now /\ HandOver
  BY DEF EndOfFile, In, Was
<1>2. /\ Was[1] = nVars /\ Was[2] = assigned /\ Was[3] = headerFound
      /\ Was[4] = numHeaderVars /\ Was[5] = samplingVars /\ Was[6] = samplingFound
      /\ Was[7] = var2varGroup /\ Was[8] = varGroups
  BY <1>1, NowIs
<1>3. L!PrintsOutside = PrintsOutside
  BY <1>2 DEF L!PrintsOutside, PrintsOutside
<1>4. \E more \in IF Was[6] \/ Was[2] = {} THEN {{}} ELSE SUBSET (1 .. Was[1]) :
          samplingSet' = IF Was[6] THEN Was[5] ELSE L!AllBut(Was[2] \cup more, Was[1])
  BY <1>1, <1>2, AllButIsTheSame DEF HandOver
<1>5. /\ pc = "reading" /\ UNCHANGED <<strict, lineNum, groupIndep>>
      /\ \E verbose \in BOOLEAN :
             pc' = IF verbose /\ groupIndep /\ L!PrintsOutside THEN "overread" ELSE "done"
  BY <1>1, <1>3 DEF HandOver
<1>. QED
  BY <1>4, <1>5 DEF L!HandOver, L!solver, L!header, L!sampling, L!groups

\* The operators of DimacsGIS mean the same of the file's lines and of the parser.
LEMMA LOperators ==
    /\ \A x : L!VarOf(x) = VarOf(x)
    /\ \A ls : L!VarsOf(ls) = VarsOf(ls)
    /\ \A l : L!SetBy(l) = SetBy(l)
    /\ \A a, b : L!Larger(a, b) = Larger(a, b)
    /\ L!StartedMap = MapOf(Was) /\ L!StartedGroups = ListOf(Was)
    /\ \A v : L!Acceptable(v) <=> v <= MaxVar /\ (strict => Was[3] /\ v <= Was[4])
<1>1. \A x : L!VarOf(x) = VarOf(x)
  BY DEF L!VarOf, VarOf
<1>2. \A ls : L!VarsOf(ls) = VarsOf(ls)
  BY <1>1 DEF L!VarsOf, VarsOf
<1>3. ASSUME NEW l
      PROVE  L!SetBy(l) = SetBy(l)
  <2>1. \A S : L!Cardinality(S) = Cardinality(S)
    BY DEF L!Cardinality, Cardinality, L!IsFiniteSet, IsFiniteSet
  <2>2. \A s : L!ToSet(s) = ToSet(s)
    BY DEF L!ToSet, ToSet
  <2>. QED
    BY <1>1, <1>2, <2>1, <2>2 DEF L!SetBy, SetBy
<1>4. \A a, b : L!Larger(a, b) = Larger(a, b)
  BY DEF L!Larger, Larger
<1>5. L!StartedMap = MapOf(Was) /\ L!StartedGroups = ListOf(Was)
  BY DEF L!StartedMap, L!StartedGroups, MapOf, ListOf
<1>6. \A v : L!Acceptable(v) <=> v <= MaxVar /\ (strict => Was[3] /\ v <= Was[4])
  BY DEF L!Acceptable
<1>. QED
  BY <1>1, <1>2, <1>3, <1>4, <1>5, <1>6

\* A line that has ended was one more of the file's.
LEMMA TakenAtLineEnd ==
    ASSUME PlaceInv, BoundInv, EndClause \/ (SkipLine /\ LineDone)
    PROVE  /\ pc = "reading" /\ pc' = pc /\ at # "line"
           /\ lineNum < MaxLines /\ lineNum' = lineNum + 1
           /\ UNCHANGED <<strict, library>>
<1>1. /\ at \in {"eol", "afterZero", "skip"} /\ pc = "reading" /\ pc' = pc
      /\ lineNum' = lineNum + 1 /\ UNCHANGED <<strict, library>>
  BY DEF EndClause, SkipLine, AtEOL, In, LineDone, library
<1>2. lineNum \in 0 .. MaxLines /\ lineNum # MaxLines /\ MaxLines \in Nat
  BY <1>1, NumbersAssumption DEF BoundInv
<1>. QED
  BY <1>1, <1>2

LEMMA ClauseIsRead ==
    ASSUME PlaceInv, BoundInv, LineInv, Sound(Was), EndClause
    PROVE  \E l \in Lines : L!ReadClause(l)
<1>. DEFINE l == [kind |-> IF kind = "x" THEN "xor" ELSE "clause", lits |-> lits]
<1>1. /\ ClauseInv /\ Was = started
  BY StartedTypes DEF EndClause, AtEOL, In, LineInv
<1>2. l \in Lines /\ l.kind \in {"clause", "xor"} /\ l.lits = lits
  BY LiteralsInLine DEF PlaceInv
<1>3. /\ Was'[1] = nVars /\ Was'[2] = Was[2] \cup SetBy(l)
      /\ Was'[3] = Was[3] /\ Was'[4] = Was[4] /\ Was'[5] = Was[5] /\ Was'[6] = Was[6]
      /\ Was'[7] = Was[7] /\ Was'[8] = Was[8]
  BY <1>1, WasAtLineEnd, NextNowIs DEF EndClause, ClauseInv, AssignedKept, HeaderKept,
     SamplingKept, GroupsKept, header, sampling, groups
<1>4. \A v \in VarsOf(lits) : v <= MaxVar /\ (strict => Was[3] /\ v <= Was[4])
  BY <1>1 DEF ClauseInv, Acceptable, HeaderKept
<1>5. nVars \in { n \in {Was[1]} \cup VarsOf(lits) :
                     \A m \in {Was[1]} \cup VarsOf(lits) : m <= n }
  BY <1>1 DEF ClauseInv
<1>6. L!Take({"clause", "xor"}, l) /\ UNCHANGED <<strict, library>>
  BY <1>2, TakenAtLineEnd DEF L!Take
<1>. HIDE DEF l
<1>7. /\ \A v \in L!VarsOf(l.lits) : L!Acceptable(v)
      /\ Was'[1] \in { n \in {Was[1]} \cup L!VarsOf(l.lits) :
                          \A m \in {Was[1]} \cup L!VarsOf(l.lits) : m <= n }
      /\ Was'[2] = Was[2] \cup L!SetBy(l)
  BY <1>2, <1>3, <1>4, <1>5, LOperators
<1>8. L!ReadClause(l)
  BY <1>3, <1>6, <1>7 DEF L!ReadClause, L!header, L!sampling, L!groups, L!library, library
<1>. QED
  BY <1>2, <1>8

LEMMA HeaderIsRead ==
    ASSUME PlaceInv, BoundInv, HeaderInv, Sound(Was), SkipLine, LineDone
    PROVE  \E l \in Lines : L!ReadHeader(l)
<1>. DEFINE l == [kind |-> "header", vars |-> numHeaderVars]
<1>1. at = "skip" /\ Was = started
  BY StartedTypes DEF SkipLine, In
<1>2. /\ headerFound = TRUE /\ ~ (started[3] /\ strict)
      /\ numHeaderVars \in Numbers /\ numHeaderVars >= 0
      /\ nVars = Larger(started[1], numHeaderVars)
  BY <1>1 DEF HeaderInv
<1>3. l \in Lines /\ l.kind \in {"header"} /\ l.vars = numHeaderVars
  BY <1>2, LinesOfNumbers
<1>4. /\ Was'[1] = Larger(Was[1], numHeaderVars) /\ Was'[2] = Was[2]
      /\ Was'[3] = TRUE /\ Was'[4] = numHeaderVars
      /\ Was'[5] = Was[5] /\ Was'[6] = Was[6] /\ Was'[7] = Was[7] /\ Was'[8] = Was[8]
  BY <1>1, <1>2, WasAtLineEnd, NextNowIs DEF SkipLine, HeaderInv, AssignedKept, SamplingKept,
     GroupsKept, solver, header, sampling, groups
<1>5. L!Take({"header"}, l) /\ UNCHANGED <<strict, library>>
  BY <1>3, TakenAtLineEnd DEF L!Take
<1>. HIDE DEF l
<1>6. L!ReadHeader(l)
  BY <1>1, <1>2, <1>3, <1>4, <1>5, LOperators
     DEF L!ReadHeader, L!sampling, L!groups, L!library, library
<1>. QED
  BY <1>3, <1>6

LEMMA OtherIsRead ==
    ASSUME PlaceInv, BoundInv, Sound(Was), SkipLine, LineDone,
           SolverKept, AssignedKept, HeaderKept, SamplingKept, GroupsKept
    PROVE  \E l \in Lines : L!ReadOther(l)
<1>. DEFINE l == [kind |-> "other"]
<1>1. at = "skip" /\ Was = started
  BY StartedTypes DEF SkipLine, In
<1>2. /\ Was'[1] = Was[1] /\ Was'[2] = Was[2] /\ Was'[3] = Was[3] /\ Was'[4] = Was[4]
      /\ Was'[5] = Was[5] /\ Was'[6] = Was[6] /\ Was'[7] = Was[7] /\ Was'[8] = Was[8]
  BY <1>1, WasAtLineEnd, NextNowIs DEF SkipLine, SolverKept, AssignedKept, HeaderKept,
     SamplingKept, GroupsKept, solver, header, sampling, groups
<1>3. l \in Lines /\ l.kind \in {"other"}
  BY LinesOfNumbers
<1>4. L!Take({"other"}, l) /\ UNCHANGED <<strict, library>>
  BY <1>3, TakenAtLineEnd DEF L!Take
<1>. HIDE DEF l
<1>5. L!ReadOther(l)
  BY <1>2, <1>4 DEF L!ReadOther, L!solver, L!header, L!sampling, L!groups, L!library, library
<1>. QED
  BY <1>3, <1>5

LEMMA IndIsRead ==
    ASSUME PlaceInv, BoundInv, CommentInv, word = "ind", Sound(Was), SkipLine, LineDone
    PROVE  \E l \in Lines : L!ReadInd(l)
<1>. DEFINE l == [kind |-> "ind", lits |-> lits]
<1>1. at = "skip" /\ Was = started
  BY StartedTypes DEF SkipLine, In
<1>2. l \in Lines /\ l.kind \in {"ind"} /\ l.lits = lits
  BY LiteralsInLine DEF PlaceInv
<1>3. /\ Was'[1] = Was[1] /\ Was'[2] = Was[2] /\ Was'[3] = Was[3] /\ Was'[4] = Was[4]
      /\ Was'[5] = Was[5] \o Variables(lits) /\ Was'[6] = TRUE
      /\ Was'[7] = Was[7] /\ Was'[8] = Was[8]
  BY <1>1, WasAtLineEnd, NextNowIs DEF SkipLine, CommentInv, SolverKept, AssignedKept,
     HeaderKept, GroupsKept, solver, header, sampling, groups
<1>4. L!Take({"ind"}, l) /\ UNCHANGED <<strict, library>>
  BY <1>2, TakenAtLineEnd DEF L!Take
<1>. HIDE DEF l
<1>5. Variables(lits) = [k \in DOMAIN l.lits |-> L!VarOf(l.lits[k])]
  BY <1>2, LOperators DEF Variables
<1>6. L!ReadInd(l)
  BY <1>3, <1>4, <1>5 DEF L!ReadInd, L!solver, L!header, L!groups, L!library, library
<1>. QED
  BY <1>2, <1>6

LEMMA GrpIsRead ==
    ASSUME PlaceInv, BoundInv, CommentInv, word = "grp", Sound(Was), SkipLine, LineDone
    PROVE  \E l \in Lines : L!ReadGrp(l)
<1>. DEFINE l == [kind |-> "grp", lits |-> lits]
<1>1. at = "skip" /\ Was = started
  BY StartedTypes DEF SkipLine, In
<1>2. l \in Lines /\ l.kind \in {"grp"} /\ l.lits = lits
  BY LiteralsInLine DEF PlaceInv
<1>3. /\ Was'[1] = Was[1] /\ Was'[2] = Was[2] /\ Was'[3] = Was[3] /\ Was'[4] = Was[4]
      /\ Was'[5] = Was[5] /\ Was'[6] = Was[6]
      /\ Was'[7] = Overwritten(MapOf(Was), lits, Len(ListOf(Was)))
      /\ Was'[8] = Append(ListOf(Was), Variables(lits))
      /\ VarsOf(lits) \subseteq DOMAIN MapOf(Was)
  BY <1>1, WasAtLineEnd, NextNowIs DEF SkipLine, CommentInv, SolverKept, AssignedKept,
     HeaderKept, SamplingKept, solver, header, sampling, groups
<1>4. L!Take({"grp"}, l) /\ UNCHANGED <<strict, library>>
  BY <1>2, TakenAtLineEnd DEF L!Take
<1>. HIDE DEF l
<1>5. Variables(lits) = [k \in DOMAIN l.lits |-> L!VarOf(l.lits[k])]
  BY <1>2, LOperators DEF Variables
<1>6. Overwritten(MapOf(Was), lits, Len(ListOf(Was)))
          = [v \in DOMAIN L!StartedMap |->
                IF v \in L!VarsOf(l.lits) THEN Len(L!StartedGroups) ELSE L!StartedMap[v]]
  BY <1>2, LOperators DEF Overwritten
<1>7. L!VarsOf(l.lits) \subseteq DOMAIN L!StartedMap /\ L!StartedGroups = ListOf(Was)
  BY <1>2, <1>3, LOperators
<1>8. L!ReadGrp(l)
  BY <1>3, <1>4, <1>5, <1>6, <1>7
     DEF L!ReadGrp, L!solver, L!header, L!sampling, L!library, library
<1>. QED
  BY <1>2, <1>8

LEMMA WriteIsOutside ==
    ASSUME PlaceInv, BoundInv, LineInv, Sound(Was), GrpLitOutside, Was' = Was
    PROVE  \E l \in Lines : L!WriteOutside(l)
<1>. DEFINE one == <<sym[2]>>
            l == [kind |-> "grp", lits |-> one]
<1>1. /\ at = "grp" /\ CommentInv /\ Was = started /\ pc = "reading" /\ pc' = "wild"
      /\ VarOf(sym[2]) \notin DOMAIN var2varGroup /\ sym[2] \in Numbers \ {0}
      /\ UNCHANGED <<strict, lineNum, library>>
  BY StartedTypes, NumberInHand DEF GrpLitOutside, In, LineInv, Is, PlaceInv
<1>2. DOMAIN MapOf(Was) = DOMAIN var2varGroup
  BY <1>1 DEF CommentInv, Overwritten
<1>3. one \in Seq(Numbers \ {0}) /\ Len(one) = 1 /\ VarsOf(one) = {VarOf(sym[2])}
  <2>1. one \in Seq(Numbers \ {0}) /\ Len(one) = 1 /\ DOMAIN one = {1} /\ one[1] = sym[2]
    BY <1>1
  <2>. QED
    BY <2>1 DEF VarsOf
<1>4. l \in Lines /\ l.kind = "grp" /\ l.lits = one
  <2>1. one \in [1 .. 1 -> Numbers \ {0}] /\ 1 \in 0 .. MaxLits
    BY <1>3, NumbersAssumption
  <2>2. one \in LitLists
    BY <2>1 DEF LitLists
  <2>. QED
    BY <2>2, LinesOfNumbers
<1>5. lineNum < MaxLines
  BY <1>1, NumbersAssumption DEF BoundInv
<1>. HIDE DEF l, one
<1>6. ~ L!VarsOf(l.lits) \subseteq DOMAIN L!StartedMap
  BY <1>1, <1>2, <1>3, <1>4, LOperators
<1>7. L!WriteOutside(l)
  BY <1>1, <1>4, <1>5, <1>6 DEF L!WriteOutside, L!solver, L!header, L!sampling, L!groups,
     L!library, library
<1>. QED
  BY <1>4, <1>7

\* Every step of the parser is a step of DimacsGIS or none.
LEMMA LineByLine ==
    ASSUME PlaceInv, BoundInv, LineInv, Sound(Was), [ReaderNext]_allVars
    PROVE  [L!Next]_(L!vars)
<1>1. CASE EndClause
  <2>1. \E l \in Lines : L!ReadClause(l)
    BY <1>1, ClauseIsRead
  <2>. QED
    BY <2>1 DEF L!Next, L!Step
<1>2. CASE SkipLine /\ LineDone
  <2>1. HeaderInv \/ CommentInv \/ EmptyLineInv
    BY <1>2 DEF SkipLine, In, LineInv
  <2>2. CASE HeaderInv
    BY <1>2, <2>2, HeaderIsRead DEF L!Next, L!Step
  <2>3. CASE CommentInv
    <3>0. at = "skip"
      BY <1>2 DEF SkipLine, In
    <3>1. CASE word = "ind"
      BY <1>2, <2>3, <3>1, IndIsRead DEF L!Next, L!Step
    <3>2. CASE word = "grp"
      BY <1>2, <2>3, <3>2, GrpIsRead DEF L!Next, L!Step
    <3>3. CASE word \notin {"ind", "grp"}
      <4>1. SolverKept /\ AssignedKept /\ HeaderKept /\ SamplingKept /\ GroupsKept
        BY <2>3, <3>3 DEF CommentInv
      <4>2. \E l \in Lines : L!ReadOther(l)
        BY <1>2, <4>1, OtherIsRead
      <4>. QED
        BY <4>2 DEF L!Next, L!Step
    <3>. QED
      BY <3>1, <3>2, <3>3
  <2>4. CASE EmptyLineInv
    <3>1. \E l \in Lines : L!ReadOther(l)
      BY <1>2, <2>4, OtherIsRead DEF EmptyLineInv
    <3>. QED
      BY <3>1 DEF L!Next, L!Step
  <2>. QED
    BY <2>1, <2>2, <2>3, <2>4
<1>3. CASE ~ (EndClause \/ (SkipLine /\ LineDone))
  <2>1. Was' = Was
    BY <1>3, WasUnchanged
  <2>2. CASE EndOfFile
    BY <2>1, <2>2, HandsOver DEF L!Next, L!Step
  <2>3. CASE GrpLitOutside
    BY <2>1, <2>3, WriteIsOutside DEF L!Next, L!Step
  <2>4. CASE RefuseFile
    <3>1. L!Refuse
      BY <2>1, <2>4 DEF RefuseFile, L!Refuse, L!solver, L!header, L!sampling, L!groups,
         L!library, library
    <3>. QED
      BY <3>1 DEF L!Next, L!Step
  <2>5. CASE ~ (EndOfFile \/ GrpLitOutside \/ RefuseFile)
    <3>1. UNCHANGED <<strict, lineNum, library, pc>>
      <4>1. CASE SkipWhite \/ StartLine \/ ReadWord \/ AfterLit \/ ReadZero \/ SkipReturn
                     \/ IndZero \/ UNCHANGED allVars
        BY <4>1 DEF SkipWhite, StartLine, ReadWord, AfterLit, ReadZero, SkipReturn, IndZero,
           allVars, vars
      <4>2. CASE HeaderWord \/ HeaderVars \/ HeaderCount \/ CommentWord
        BY <4>2 DEF HeaderWord, HeaderVars, HeaderCount, CommentWord
      <4>3. CASE ReadLit \/ ReadIndLit \/ ReadGrpLit \/ GrpZero
        BY <4>3 DEF ReadLit, ReadIndLit, ReadGrpLit, GrpZero
      <4>4. CASE SkipLine
        BY <1>3, <4>4 DEF SkipLine
      <4>. QED
        BY <1>3, <2>5, <4>1, <4>2, <4>3, <4>4 DEF ReaderNext, ReaderStep, ReaderStopped
    <3>. QED
      BY <2>1, <3>1, LStutters
  <2>. QED
    BY <2>2, <2>3, <2>4, <2>5
<1>. QED
  BY <1>1, <1>2, <1>3

-----------------------------------------------------------------------------
(* What is handed over *)

LEMMA HandedInitially == ReaderInit => HandedInv
BY DEF ReaderInit, Init, HandedInv

LEMMA HandedStep ==
    ASSUME HandedInv, [ReaderNext]_allVars
    PROVE  HandedInv'
<1>1. CASE EndOfFile
  <2>1. /\ pc' \in {"done", "overread"} /\ at' = "line"
        /\ pc' = "overread" => groupIndep /\ PrintsOutside
        /\ samplingFound => samplingSet' = samplingVars
    BY <1>1 DEF EndOfFile, In, HandOver, place
  <2>2. UNCHANGED <<nVars, samplingVars, samplingFound, var2varGroup, varGroups, groupIndep>>
    BY <1>1 DEF EndOfFile, HandOver, solver, sampling, groups
  <2>. QED
    BY <2>1, <2>2 DEF HandedInv, PrintsOutside
<1>2. CASE UNCHANGED allVars
  BY <1>2 DEF allVars, vars, place, solver, sampling, groups, library, HandedInv, PrintsOutside
<1>3. ASSUME ~ EndOfFile, ReaderStep
      PROVE  pc = "reading" /\ pc' \in {"reading", "refused", "wild"}
  <2>1. CASE SkipWhite \/ StartLine \/ ReadWord \/ AfterLit \/ ReadZero \/ SkipReturn
                 \/ IndZero
    BY <2>1 DEF SkipWhite, StartLine, ReadWord, AfterLit, ReadZero, SkipReturn, IndZero,
       vars, In, InWord
  <2>2. CASE HeaderWord \/ HeaderVars \/ HeaderCount \/ CommentWord
    BY <2>2 DEF HeaderWord, HeaderVars, HeaderCount, CommentWord, In, InWord
  <2>3. CASE ReadLit \/ ReadIndLit \/ ReadGrpLit \/ GrpZero
    BY <2>3 DEF ReadLit, ReadIndLit, ReadGrpLit, GrpZero, In
  <2>4. CASE SkipLine \/ EndClause
    BY <2>4 DEF SkipLine, EndClause, AtEOL, In
  <2>5. CASE GrpLitOutside \/ RefuseFile
    BY <2>5 DEF GrpLitOutside, RefuseFile, In
  <2>. QED
    BY <1>3, <2>1, <2>2, <2>3, <2>4, <2>5 DEF ReaderStep
<1>4. CASE ~ EndOfFile /\ ReaderStep
  BY <1>3, <1>4 DEF HandedInv
<1>. QED
  BY <1>1, <1>2, <1>4 DEF ReaderNext, ReaderStopped

-----------------------------------------------------------------------------
(* The theorems *)

LEMMA ReaderInvHolds == ReaderSpec => []ReaderInv
<1>1. ReaderInit => ReaderInv
  BY PlaceInitially, BoundInitially, SoundInitially, LineInitially, HandedInitially
     DEF ReaderInv
<1>2. ReaderInv /\ [ReaderNext]_allVars => ReaderInv'
  BY PlaceStep, BoundStep, SoundStep, LineStep, HandedStep DEF ReaderInv
<1>. QED
  BY <1>1, <1>2, PTL DEF ReaderSpec

(***************************************************************************)
(* The parser reads line by line: for any characters, numbers and bounds,  *)
(* every step of it is one line of DimacsGIS, the hand-over, a refusal, a  *)
(* write outside the map, or nothing, although it writes down each number  *)
(* as it comes (dimacsparser-gis.h).                                       *)
(***************************************************************************)
THEOREM ReaderReadsLines == ReaderSpec => ReadsLines
<1>1. ReaderInit => L!Init
  BY LInitially
<1>2. ReaderInv /\ [ReaderNext]_allVars => [L!Next]_(L!vars)
  BY LineByLine DEF ReaderInv
<1>. QED
  BY <1>1, <1>2, ReaderInvHolds, PTL DEF ReaderSpec, ReadsLines, L!Spec

(***************************************************************************)
(* After each line a variable is mapped to the last group that lists it,   *)
(* whatever the groups hold, also when a line ended and the next has       *)
(* written half a group (dimacsparser-gis.h 61-65).                        *)
(***************************************************************************)
THEOREM ReaderFollowsGroups == ReaderSpec => []LinesFollowGroups
<1>1. ReaderInv => LinesFollowGroups
  <2>1. \A x : L!ToSet(x) = ToSet(x)
    BY DEF L!ToSet, ToSet
  <2>2. L!Declared = DeclaredOf(Was[8])
    BY DEF L!Declared, DeclaredOf
  <2>3. ReaderInv => Follows(Was[7], DeclaredOf(Was[8]))
    BY DEF ReaderInv, Sound, SoundGroups
  <2>. QED
    BY <2>1, <2>2, <2>3 DEF Follows, LinesFollowGroups, L!MapFollowsGroups
<1>. QED
  BY <1>1, ReaderInvHolds, PTL

\* Between two lines, Sound is about the results themselves.
LEMMA SoundAtLine ==
    ASSUME Sound(Was), at = "line"
    PROVE  /\ nVars \in Nat /\ assigned \subseteq 1 .. nVars
           /\ headerFound \in BOOLEAN /\ numHeaderVars \in Nat
           /\ nVars <= MaxVar \/ headerFound
           /\ samplingVars \in Seq(Nat \ {0})
           /\ var2varGroup \in Seq(Nat) /\ varGroups \in Groups
           /\ \A g \in DOMAIN Declared : ToSet(Declared[g]) \subseteq DOMAIN var2varGroup
           /\ Follows(var2varGroup, Declared)
           /\ Declared \in Groups
<1>1. Was = Now /\ Declared = DeclaredOf(varGroups)
  BY DEF Was, Declared, DeclaredOf
<1>2. SoundSolver(Now) /\ SoundSampling(Now) /\ SoundGroups(Now)
  BY <1>1 DEF Sound
<1>3. /\ nVars \in Nat /\ assigned \subseteq 1 .. nVars
      /\ headerFound \in BOOLEAN /\ numHeaderVars \in Nat
      /\ nVars <= MaxVar \/ headerFound
  BY <1>2, NowIs DEF SoundSolver
<1>4. samplingVars \in Seq(Nat \ {0})
  BY <1>2, NowIs DEF SoundSampling
<1>5. /\ var2varGroup \in Seq(Nat) /\ varGroups \in Groups
      /\ \A g \in DOMAIN Declared : ToSet(Declared[g]) \subseteq DOMAIN var2varGroup
      /\ Follows(var2varGroup, Declared)
  BY <1>1, <1>2, NowIs DEF SoundGroups, Groups
<1>6. Declared \in Groups
  <2>1. CASE varGroups = <<>>
    BY <1>5, <2>1 DEF Declared
  <2>2. CASE varGroups # <<>>
    BY <1>1, <1>5, <2>2, TailOf
  <2>. QED
    BY <2>1, <2>2
<1>. QED
  BY <1>3, <1>4, <1>5, <1>6

(***************************************************************************)
(* Types: between two lines the solver's variables are within the parser's *)
(* limit unless a header has declared more, and no entry of the map names  *)
(* a group that does not exist.                                            *)
(***************************************************************************)
THEOREM ReaderTypes == ReaderSpec => []ReaderTypeOK
<1>1. ASSUME ReaderInv, at = "line"
      PROVE  TypeOK
  <2>1. Sound(Was) /\ HandedInv /\ BoundInv
    BY <1>1 DEF ReaderInv
  <2>2. /\ var2varGroup \in Seq(Nat) /\ Declared \in Groups
        /\ Follows(var2varGroup, Declared)
    BY <1>1, <2>1, SoundAtLine
  <2>3. DOMAIN Declared = 1 .. Len(Declared) /\ Len(Declared) \in Nat
    BY <2>2, LenProperties DEF Groups
  <2>4. \A k \in DOMAIN var2varGroup : var2varGroup[k] \in 0 .. Len(Declared)
    BY <2>2, <2>3 DEF Follows
  <2>. QED
    BY <1>1, <2>1, <2>4, SoundAtLine DEF TypeOK, HandedInv, BoundInv
<1>2. ReaderInv => ReaderTypeOK
  BY <1>1 DEF ReaderTypeOK, ReaderInv, PlaceInv
<1>. QED
  BY <1>2, ReaderInvHolds, PTL

\* In a file whose groups are disjoint the map is the groups' inverse.
LEMMA MapInverts ==
    ASSUME Sound(Was), at = "line", GroupsInOrder
    PROVE  /\ \A g \in DOMAIN Declared : \A v \in ToSet(Declared[g]) :
                  v \in DOMAIN var2varGroup /\ var2varGroup[v] = g
           /\ \A v \in DOMAIN var2varGroup : var2varGroup[v] # 0 =>
                  var2varGroup[v] \in DOMAIN Declared /\ v \in ToSet(Declared[var2varGroup[v]])
<1>1. /\ \A g \in DOMAIN Declared : ToSet(Declared[g]) \subseteq DOMAIN var2varGroup
      /\ Follows(var2varGroup, Declared)
      /\ DOMAIN Declared = 1 .. Len(Declared) /\ Len(Declared) \in Nat
  BY SoundAtLine, LenProperties DEF Groups
<1>2. ASSUME NEW g \in DOMAIN Declared, NEW v \in ToSet(Declared[g])
      PROVE  v \in DOMAIN var2varGroup /\ var2varGroup[v] = g
  <2>1. /\ v \in DOMAIN var2varGroup
        /\ var2varGroup[v] = 0 \/ (/\ var2varGroup[v] \in DOMAIN Declared
                                  /\ v \in ToSet(Declared[var2varGroup[v]]))
        /\ g <= var2varGroup[v]
    BY <1>1, <1>2 DEF Follows
  <2>2. g \in Nat \ {0}
    BY <1>1
  <2>3. var2varGroup[v] # 0
    BY <2>1, <2>2
  <2>. QED
    BY <1>2, <2>1, <2>3 DEF GroupsInOrder
<1>3. \A v \in DOMAIN var2varGroup : var2varGroup[v] # 0 =>
          var2varGroup[v] \in DOMAIN Declared /\ v \in ToSet(Declared[var2varGroup[v]])
  BY <1>1 DEF Follows
<1>. QED
  BY <1>2, <1>3

\* What the rounds look up of a file in order.
LEMMA HandedIs ==
    ASSUME HandedInv, pc \in {"done", "overread"}, GroupsInOrder, IndInOrder
    PROVE  /\ Handed.models = {} /\ Handed.sampling = samplingVars
           /\ Handed.varGroups = Declared /\ Handed.groupOf = var2varGroup
           /\ Handed.indicated = ToSet(samplingVars)
           /\ Handed.groupIndep = TRUE /\ Handed.mayTimeOut = TRUE
BY DEF HandedInv, Handed, GroupsInOrder, IndInOrder

\* A file in order.
LEMMA GoodFileWorks ==
    ASSUME Sound(Was), HandedInv, pc \in {"done", "overread"}, GroupsInOrder, IndInOrder
    PROVE  /\ pc = "done" /\ R!ProblemType(Handed) /\ R!WellFormed
           /\ \A g \in DOMAIN Declared : \A v \in ToSet(Declared[g]) :
                  R!UnitOf(v) = ToSet(Declared[g])
<1>1. at = "line"
  BY DEF HandedInv
<1>2. /\ nVars \in Nat /\ samplingVars \in Seq(Nat \ {0})
      /\ var2varGroup \in Seq(Nat) /\ Declared \in Groups
      /\ DOMAIN var2varGroup = 1 .. nVars /\ Len(var2varGroup) = nVars
      /\ DOMAIN Declared = 1 .. Len(Declared) /\ Len(Declared) \in Nat
      /\ \A v \in DOMAIN var2varGroup : var2varGroup[v] \in Nat
  <2>1. /\ nVars \in Nat /\ samplingVars \in Seq(Nat \ {0})
        /\ var2varGroup \in Seq(Nat) /\ Declared \in Groups
    BY <1>1, SoundAtLine
  <2>. QED
    BY <2>1, LenProperties DEF Groups, GroupsInOrder
<1>3. /\ \A g \in DOMAIN Declared : \A v \in ToSet(Declared[g]) :
             v \in DOMAIN var2varGroup /\ var2varGroup[v] = g
      /\ \A v \in DOMAIN var2varGroup : var2varGroup[v] # 0 =>
             var2varGroup[v] \in DOMAIN Declared /\ v \in ToSet(Declared[var2varGroup[v]])
  BY <1>1, MapInverts
<1>4. \A s : R!Range(s) = ToSet(s)
  BY DEF R!Range, ToSet
<1>5. pc = "done"
  BY <1>2 DEF HandedInv, PrintsOutside, GroupsInOrder, Declared
<1>6. /\ \A v : R!Mapped(v) <=> v \in DOMAIN var2varGroup
      /\ \A v : R!InGroup(v) <=> v \in DOMAIN var2varGroup /\ var2varGroup[v] # 0
      /\ \A v : R!Group(v) = Declared[var2varGroup[v]]
      /\ R!Candidates = ToSet(samplingVars)
  BY <1>4, HandedIs DEF R!Mapped, R!InGroup, R!Group, R!Candidates
<1>7. \A v : R!UnitOf(v) = IF v \in DOMAIN var2varGroup /\ var2varGroup[v] # 0
                          THEN ToSet(Declared[var2varGroup[v]]) ELSE {v}
  BY <1>4, <1>6 DEF R!UnitOf
<1>8. \A g \in DOMAIN Declared : \A v \in ToSet(Declared[g]) : R!UnitOf(v) = ToSet(Declared[g])
  BY <1>2, <1>3, <1>7
<1>9. ToSet(samplingVars) \subseteq 1 .. nVars
  BY DEF IndInOrder
<1>10. R!ProblemType(Handed)
  <2>1. \A v \in DOMAIN var2varGroup : var2varGroup[v] # 0 =>
            Len(Declared[var2varGroup[v]]) # 0
    <3>1. \A s \in Seq(Nat \ {0}) : Len(s) = 0 => ToSet(s) = {}
      BY DEF ToSet
    <3>2. \A g \in DOMAIN Declared : Declared[g] \in Seq(Nat \ {0})
      BY <1>2, ElementOfSeq DEF Groups
    <3>. QED
      BY <1>3, <3>1, <3>2
  <2>2. var2varGroup \in [DOMAIN var2varGroup -> 0 .. Len(Declared)]
    <3>1. \A v \in DOMAIN var2varGroup : var2varGroup[v] \in 0 .. Len(Declared)
      BY <1>2, <1>3
    <3>. QED
      BY <1>2, <3>1
  <2>3. /\ Handed.models \subseteq SUBSET (Nat \ {0}) /\ Handed.sampling \in Seq(Nat \ {0})
        /\ Handed.varGroups \in Seq(Seq(Nat \ {0})) /\ DOMAIN Handed.groupOf \subseteq Nat \ {0}
        /\ Handed.indicated \subseteq Nat \ {0}
    <3>1. /\ {} \subseteq SUBSET (Nat \ {0}) /\ ToSet(samplingVars) \subseteq Nat \ {0}
          /\ DOMAIN var2varGroup \subseteq Nat \ {0}
          /\ Declared \in Seq(Seq(Nat \ {0}))
      BY <1>2, <1>9 DEF Groups
    <3>. QED
      BY <1>2, <3>1, HandedIs, Zenon
  <2>. QED
    BY <2>1, <2>2, <2>3, HandedIs DEF R!ProblemType
<1>11. R!GroupsFit
  <2>1. \A v \in R!Candidates : R!Mapped(v)
    BY <1>2, <1>6, <1>9
  <2>2. Handed.groupIndep
    BY HandedIs
  <2>3. \A k, l \in DOMAIN Handed.sampling : Handed.sampling[k] = Handed.sampling[l] => k = l
    BY HandedIs DEF IndInOrder, R!Distinct
  <2>4. ASSUME NEW v \in R!Candidates, R!InGroup(v)
        PROVE  /\ v \in R!Range(R!Group(v)) /\ R!Distinct(R!Group(v))
               /\ \A w \in R!Range(R!Group(v)) :
                      R!Mapped(w) /\ Handed.groupOf[w] = Handed.groupOf[v]
    <3>1. /\ v \in DOMAIN var2varGroup /\ var2varGroup[v] \in DOMAIN Declared
          /\ v \in ToSet(Declared[var2varGroup[v]])
      BY <1>3, <1>6, <2>4
    <3>2. R!Distinct(Declared[var2varGroup[v]])
      BY <3>1 DEF GroupsInOrder
    <3>3. \A w \in ToSet(Declared[var2varGroup[v]]) :
              w \in DOMAIN var2varGroup /\ var2varGroup[w] = var2varGroup[v]
      BY <1>3, <3>1
    <3>. QED
      BY <1>4, <1>6, <3>1, <3>2, <3>3, HandedIs
  <2>. QED
    BY <2>1, <2>2, <2>3, <2>4 DEF R!GroupsFit
<1>12. R!Closure \subseteq Handed.indicated
  <2>1. ASSUME NEW v \in R!Candidates
        PROVE  R!UnitOf(v) \subseteq ToSet(samplingVars)
    <3>1. CASE v \in DOMAIN var2varGroup /\ var2varGroup[v] # 0
      <4>1. var2varGroup[v] \in DOMAIN Declared /\ v \in ToSet(Declared[var2varGroup[v]])
        BY <1>3, <3>1
      <4>2. v \in ToSet(samplingVars)
        BY <1>6, <2>1
      <4>. QED
        BY <1>7, <3>1, <4>1, <4>2 DEF IndInOrder
    <3>2. CASE ~ (v \in DOMAIN var2varGroup /\ var2varGroup[v] # 0)
      BY <1>6, <1>7, <2>1, <3>2
    <3>. QED
      BY <3>1, <3>2
  <2>. QED
    BY <2>1, HandedIs DEF R!Closure
<1>. QED
  BY <1>5, <1>8, <1>10, <1>11, <1>12 DEF R!WellFormed

(***************************************************************************)
(* A file in order gives the rounds a well-formed problem in which each    *)
(* group is one unit, whatever the order of its lines and whatever else it *)
(* holds, and is printed within the bounds (dimacsparser-gis.h, main.cpp). *)
(***************************************************************************)
THEOREM ReaderGoodFilesWork == ReaderSpec => []GoodFilesWork
<1>1. ReaderInv => GoodFilesWork
  BY GoodFileWorks DEF ReaderInv, GoodFilesWork
<1>. QED
  BY <1>1, ReaderInvHolds, PTL
=============================================================================
