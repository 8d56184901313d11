---------------------------- MODULE NumberReader ----------------------------
(***************************************************************************)
(* How the parser reads numbers: StreamBuffer (streambuffer.h) fetches the *)
(* file chunk by chunk and hands it out character by character, and        *)
(* parseInt turns digits into a T (int32_t), again and again.              *)
(*                                                                         *)
(* Characters are integers: digits are themselves; -1 in a file is the     *)
(* byte 255, which value() cannot tell from EOF (char is signed).          *)
(* val*10 + (c - '0') may overflow, which is undefined behaviour: the      *)
(* machine wraps it, and the compiler may fold the test val2 < val, which  *)
(* cannot hold without overflow, to false (folded).                        *)
(***************************************************************************)
EXTENDS Integers, Sequences

CONSTANTS
    Files,         \* the contents of the file
    ChunkLimit,    \* chunk_limit: characters fetched at a time
    Half,          \* 2^31: a T is in -Half .. Half - 1
    HighestVar     \* 2^28: check_var refuses literals beyond

Minus == 10
Plus == 11
Blank == 12        \* space, tab, carriage return
Newline == 13
EOF == -1

Digits == 0 .. 9
Chars == -1 .. 13

ASSUME FilesAssumption == Files \subseteq Seq(Chars)
ASSUME ChunkAssumption == ChunkLimit \in Nat \ {0}
ASSUME WidthAssumption == Half \in Nat \ {0} /\ HighestVar \in Nat /\ 9 * HighestVar + 9 < 2 * Half

VARIABLES
    file, folded,
    fetched, buf, pos,       \* characters fetched so far; the chunk; the place in it
    val, mult, ret,          \* parseInt
    num, handed,             \* ghosts: the number as written; characters handed out
    stage

input == <<file, folded>>
stream == <<fetched, buf, pos, handed>>
call == <<val, mult, num>>
numberVars == <<input, stream, call, ret, stage>>

Value == IF pos >= Len(buf) THEN EOF ELSE buf[pos + 1]

\* B::read, from the place after the n characters fetched before.
Chunk(n) == SubSeq(file, n + 1, IF n + ChunkLimit <= Len(file) THEN n + ChunkLimit ELSE Len(file))

NumberInit ==
    /\ file \in Files /\ folded \in BOOLEAN
    /\ buf = Chunk(0) /\ fetched = Len(buf) /\ pos = 0
    /\ val = 0 /\ mult = 1 /\ ret = 0
    /\ num = 0 /\ handed = 0
    /\ stage = "skip"

\* Mutated: one more character is awaited before the next chunk is fetched.
NextCharacterLate ==
    /\ IF pos >= Len(buf)
       THEN /\ buf' = Chunk(fetched) /\ fetched' = fetched + Len(buf') /\ pos' = 0
       ELSE /\ pos' = pos + 1 /\ UNCHANGED <<fetched, buf>>
    /\ handed' = handed + 1

\* operator++ with assureLookahead.
NextCharacter ==
    /\ IF pos + 1 >= Len(buf)
       THEN /\ buf' = Chunk(fetched) /\ fetched' = fetched + Len(buf') /\ pos' = 0
       ELSE /\ pos' = pos + 1 /\ UNCHANGED <<fetched, buf>>
    /\ handed' = handed + 1

\* The T with the bits of x; x is within -20 * Half .. 20 * Half.
Wrap(x) == CHOOSE y \in -Half .. Half - 1 : \E k \in -10 .. 10 : x = y + k * (2 * Half)

SkipBlank ==
    /\ stage = "skip" /\ Value = Blank
    /\ NextCharacter
    /\ UNCHANGED <<input, call, ret, stage>>

ReadSign ==
    /\ stage = "skip" /\ Value # Blank
    /\ IF Value \in {Minus, Plus} THEN NextCharacter ELSE UNCHANGED stream
    /\ mult' = IF Value = Minus THEN -1 ELSE 1
    /\ stage' = "first"
    /\ UNCHANGED <<input, val, num, ret>>

ReadFirst ==
    /\ stage = "first"
    /\ stage' = IF Value \in Digits THEN "digits" ELSE "notANumber"
    /\ UNCHANGED <<input, stream, call, ret>>

\* Mutated: the number is kept in an integer without a width.
ReadDigitUnwrapped ==
    /\ stage = "digits" /\ Value \in Digits
    /\ val' = val * 10 + Value /\ NextCharacter /\ stage' = stage
    /\ num' = num * 10 + Value
    /\ UNCHANGED <<input, mult, ret>>

\* Mutated: the test for overflow refuses a number whose value does not grow.
ReadDigitStrict ==
    /\ stage = "digits" /\ Value \in Digits
    /\ LET val2 == Wrap(val * 10 + Value)
       IN  IF val2 <= val /\ ~ folded
           THEN stage' = "tooHigh" /\ UNCHANGED <<stream, val>>
           ELSE val' = val2 /\ NextCharacter /\ stage' = stage
    /\ num' = num * 10 + Value
    /\ UNCHANGED <<input, mult, ret>>

\* Mutated: no test for overflow.
ReadDigitUntested ==
    /\ stage = "digits" /\ Value \in Digits
    /\ val' = Wrap(val * 10 + Value) /\ NextCharacter /\ stage' = stage
    /\ num' = num * 10 + Value
    /\ UNCHANGED <<input, mult, ret>>

ReadDigit ==
    /\ stage = "digits" /\ Value \in Digits
    /\ LET val2 == Wrap(val * 10 + Value)
       IN  IF val2 < val /\ ~ folded
           THEN stage' = "tooHigh" /\ UNCHANGED <<stream, val>>
           ELSE val' = val2 /\ NextCharacter /\ stage' = stage
    /\ num' = num * 10 + Value
    /\ UNCHANGED <<input, mult, ret>>

\* Mutated: the sign is applied with one's complement.
EndNumberOff ==
    /\ stage = "digits" /\ Value \notin Digits
    /\ ret' = Wrap(IF mult = -1 THEN -val - 1 ELSE val)
    /\ stage' = "read"
    /\ UNCHANGED <<input, stream, call>>

EndNumber ==
    /\ stage = "digits" /\ Value \notin Digits
    /\ ret' = Wrap(mult * val)
    /\ stage' = "read"
    /\ UNCHANGED <<input, stream, call>>

\* The parser's next call.
CallAgain ==
    /\ stage = "read"
    /\ val' = 0 /\ mult' = 1 /\ num' = 0
    /\ stage' = "skip"
    /\ UNCHANGED <<input, stream, ret>>

Refused == stage \in {"notANumber", "tooHigh"} /\ UNCHANGED numberVars

NumberStep == SkipBlank \/ ReadSign \/ ReadFirst \/ ReadDigit \/ EndNumber \/ CallAgain
NumberNext == NumberStep \/ Refused
NumberSpec == NumberInit /\ [][NumberNext]_numberVars /\ WF_numberVars(NumberStep)

-----------------------------------------------------------------------------
NumberTypeOK ==
    /\ file \in Seq(Chars) /\ folded \in BOOLEAN
    /\ buf \in Seq(Chars) /\ fetched \in Nat /\ pos \in Nat
    /\ val \in -Half .. Half - 1 /\ ret \in -Half .. Half - 1 /\ mult \in {-1, 1}
    /\ num \in Nat /\ handed \in Nat
    /\ stage \in {"skip", "first", "digits", "read", "notANumber", "tooHigh"}

\* Whatever the chunks' borders: the characters come in the file's order, none is lost
\* and none comes twice.
DeliversFile == Value = IF handed < Len(file) THEN file[handed + 1] ELSE EOF

\* A number that fits is read as it is written, in every build.
ReadsWhatFits == stage = "read" /\ num < Half => ret = mult * num

\* Only numbers that do not fit are refused as too high.
RefusesOnlyTooHigh == stage = "tooHigh" => num >= Half

\* The test val2 < val does not notice every overflow; but as long as the compiler keeps
\* it, what an overflow leaves is beyond every variable check_var accepts.
WrongIsTooLarge ==
    stage = "read" /\ ~ folded /\ num >= Half => ret > HighestVar \/ ret < -HighestVar
=============================================================================
