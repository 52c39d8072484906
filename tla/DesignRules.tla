---------------------------- MODULE DesignRules -----------------------------
(* The colors of plugin/scripts/design-rules.mjs.  A literal is <<"hex",       *)
(* digits>>, <<"rgb", parts>> or <<"hsl", parts>>; a part is <<n>>, or <<>>    *)
(* when it is not a number.  Channels are whole, a hue is in degrees,          *)
(* saturation and lightness are in percent, and a written alpha in hundredths. *)
EXTENDS Integers, Sequences, SequencesExt

NoColor == <<>>
Opaque  == 100 * 255 \* an alpha of 1, in a unit in which hundredths and bytes are whole

Alpha(parts) == IF Len(parts) > 3 /\ parts[4] # <<>> THEN 255 * parts[4][1] ELSE Opaque
AreNumbers(parts) == Len(parts) >= 3 /\ \A i \in 1..3 : parts[i] # <<>>

HexColor(digits) ==
    CASE Len(digits) = 3      -> <<17 * digits[1], 17 * digits[2], 17 * digits[3], Opaque>>
      [] Len(digits) \in {6, 8} -> LET byte(i) == 16 * digits[2 * i - 1] + digits[2 * i]
                                  IN <<byte(1), byte(2), byte(3), IF Len(digits) = 8 THEN 100 * byte(4) ELSE Opaque>>
      [] OTHER -> NoColor

\* The % of JavaScript has the sign of its left side.
Remainder(a, n) == IF a < 0 THEN -((-a) % n) ELSE a % n
Magnitude(n)    == IF n < 0 THEN -n ELSE n

\* c, x and m are in units of 1/600000; the hue of x is not brought into 0..359 first, that of the sector is.
HslColor(h, s, l, alpha) ==
    LET chroma == (100 - Magnitude(2 * l - 100)) * s
        c      == 60 * chroma
        x      == chroma * (60 - Magnitude(Remainder(h, 120) - 60))
        m      == 6000 * l - 30 * chroma
        sector == <<<<c, x, 0>>, <<x, c, 0>>, <<0, c, x>>, <<0, x, c>>, <<x, 0, c>>, <<c, 0, x>>>>[(h % 360) \div 60 + 1]
        channel(i) == (510 * (sector[i] + m) + 600000) \div 1200000
    IN <<channel(1), channel(2), channel(3), alpha>>

ParseColor(literal) ==
    LET parts == literal[2] IN
    CASE literal[1] = "hex" -> HexColor(parts)
      [] ~AreNumbers(parts) -> NoColor
      [] literal[1] = "rgb" -> <<parts[1][1], parts[2][1], parts[3][1], Alpha(parts)>>
      [] literal[1] = "hsl" -> HslColor(parts[1][1], parts[2][1], parts[3][1], Alpha(parts))

\* At most 6 of 255 in each channel, and 0.02 of alpha.
ColorsMatch(a, b) == /\ \A i \in 1..3 : Magnitude(a[i] - b[i]) <= 6
                     /\ Magnitude(a[4] - b[4]) <= 510
=============================================================================
