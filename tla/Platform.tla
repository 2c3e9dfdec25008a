------------------------------ MODULE Platform ------------------------------
(***************************************************************************)
(* platform.go: a platform is an int8.  The number that Atoi reads from a  *)
(* string is an int, and is cut to 8 bits before it is looked up.          *)
(***************************************************************************)
EXTENDS Integers

CONSTANT Bound   \* the numbers up to this one, and down to minus it

VARIABLE number

Unspecify == 0
Android == 1
Harmony == 9

\* All platforms are listed, one of them twice.
Platforms == Android .. Harmony

\* The conversion of an int to int8.
Int8(p) == ((p + 128) % 256) - 128

IsPlatformValid(p) == p \in Platforms
IsPlatformStringValid(p) == Int8(p) \in Platforms

\* Mutant: any number is taken.
ParseAnyPlatform(p) == Int8(p)

ParsePlatform(p) == IF IsPlatformStringValid(p) THEN Int8(p) ELSE Unspecify

PlatformInit == number = Unspecify
PlatformNext == \E step \in {-1, 1} : number' = number + step /\ number' \in -Bound .. Bound
PlatformSpec == PlatformInit /\ [][PlatformNext]_number
-----------------------------------------------------------------------------
\* ParsePlatform gives a listed platform exactly when IsPlatformStringValid accepts the
\* string, and Unspecify otherwise; a number of the list is parsed to itself.
ParsedIsListed ==
    /\ IsPlatformValid(ParsePlatform(number)) <=> IsPlatformStringValid(number)
    /\ ParsePlatform(number) \in Platforms \cup {Unspecify}
    /\ number \in Platforms => ParsePlatform(number) = number
=============================================================================
