------------------------------- MODULE UrlCodec -------------------------------
(***************************************************************************)
(* UrlEncode and UrlDecode of examples/FunctionStudy/systemFunUse/util.cpp.*)
(* A character is its byte, a string a sequence of bytes.  The code copies *)
(* the string only from the first byte it changes on, and returns it as it *)
(* was when there is none: the result is that of appending every byte.     *)
(***************************************************************************)
EXTENDS Integers, Sequences

CONSTANTS
    Byte,       \* the bytes the texts are made of
    MaxText     \* bound: bytes of a text

ASSUME ByteAssumption == Byte \subseteq 0..255

VARIABLES text, coded, plus, decoded

codecVars == <<text, coded, plus, decoded>>

Space == 32     Plus == 43     Percent == 37

\* '-' and '.', the digits, '=', the letters, '_' and '~'.
uri_chars == {45, 46} \cup 48..57 \cup {61} \cup 65..90 \cup {95} \cup 97..122 \cup {126}

hexdigits == [d \in 0..15 |-> IF d < 10 THEN 48 + d ELSE 55 + d]
isxdigit  == 48..57 \cup 65..70 \cup 97..102

xdigit_chars == [c \in 0..255 |->
    CASE c \in 48..57  -> c - 48
      [] c \in 65..70  -> c - 55
      [] c \in 97..102 -> c - 87
      [] OTHER         -> 0]

Encoded_KeepsPlus(c, spaceAsPlus) ==
    IF c \in uri_chars \cup {Plus} THEN <<c>>
    ELSE IF c = Space /\ spaceAsPlus THEN <<Plus>>
    ELSE <<Percent, hexdigits[c \div 16], hexdigits[c % 16]>>

\* One byte of the text: itself, '+' for a space, or its escape.
Encoded(c, spaceAsPlus) ==
    IF c \in uri_chars THEN <<c>>
    ELSE IF c = Space /\ spaceAsPlus THEN <<Plus>>
    ELSE <<Percent, hexdigits[c \div 16], hexdigits[c % 16]>>

UrlEncode(str, spaceAsPlus) ==
    LET ss[n \in 0..Len(str)] == IF n = 0 THEN <<>> ELSE ss[n - 1] \o Encoded(str[n], spaceAsPlus)
    IN ss[Len(str)]

\* An escape needs both of its digits: they may be the last two bytes.
EscapeAt(str, c) ==
    /\ str[c] = Percent /\ c + 2 <= Len(str)
    /\ str[c + 1] \in isxdigit /\ str[c + 2] \in isxdigit

\* One turn of the loop: what it appends to ss, and where the next one begins.
\* There is none past the end.
Turn(str, spaceAsPlus, s) ==
    LET c == s.c IN
    IF c > Len(str) THEN s
    ELSE IF str[c] = Plus /\ spaceAsPlus THEN [c |-> c + 1, ss |-> Append(s.ss, Space)]
    ELSE IF EscapeAt(str, c)
    THEN [c  |-> c + 3,
          ss |-> Append(s.ss, xdigit_chars[str[c + 1]] * 16 + xdigit_chars[str[c + 2]])]
    ELSE [c |-> c + 1, ss |-> Append(s.ss, str[c])]

UrlDecode(str, spaceAsPlus) ==
    LET loop[n \in 0..Len(str)] ==
            IF n = 0 THEN [c |-> 1, ss |-> <<>>] ELSE Turn(str, spaceAsPlus, loop[n - 1])
    IN loop[Len(str)].ss

------------------------------------------------------------------------------
\* Nothing is coded yet.
Raw == <<-1>>

CodecInit == text = <<>> /\ coded = Raw /\ plus = FALSE /\ decoded = Raw

Type ==
    /\ coded = Raw /\ Len(text) < MaxText
    /\ \E c \in Byte : text' = Append(text, c)
    /\ UNCHANGED <<coded, plus, decoded>>

Encode ==
    /\ coded = Raw
    /\ plus' \in BOOLEAN
    /\ coded' = UrlEncode(text, plus')
    /\ UNCHANGED <<text, decoded>>

\* A reader that takes '+' for a space, or one that does not: the latter only
\* reads what was encoded for it.
Decode ==
    /\ coded # Raw /\ decoded = Raw
    /\ \E spaceAsPlus \in BOOLEAN :
        /\ plus => spaceAsPlus
        /\ decoded' = UrlDecode(coded, spaceAsPlus)
    /\ UNCHANGED <<text, coded, plus>>

CodecNext == Type \/ Encode \/ Decode

------------------------------------------------------------------------------
(* Properties. *)

\* Decoding gives the text back, whatever bytes it holds ('%', '+', a space,
\* a text that looks like an escape, a byte above 127) and however the space
\* was coded; and the coded text holds nothing but unreserved bytes, '%', '+'.
RoundTrip ==
    /\ decoded # Raw => decoded = text
    /\ coded # Raw => \A i \in 1..Len(coded) : coded[i] \in uri_chars \cup {Percent, Plus}
===============================================================================
