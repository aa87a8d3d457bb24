-------------------------------- MODULE MCArgs --------------------------------
(***************************************************************************)
(* Lines for Args: every line of blanks and one letter up to six, every    *)
(* name with words or without, numbers in every notation, pokes, and       *)
(* dumps that end before, at and after a row, the limit and the memory.    *)
(***************************************************************************)
EXTENDS Args

PEEK   == <<"P", "E", "e", "k">>
POKE   == <<"P", "O", "K", "E">>
DUMP   == <<"d", "u", "m", "p">>
C64MEM == <<"C", "6", "4", "M", "E", "M">>
TRACE  == <<"C", "6", "4", "T", "R", "A", "C", "E">>
TYPE   == <<"T", "Y", "P", "E">>
KEY    == <<"C", "6", "4", "K", "E", "Y">>
C64TYPE == <<"C", "6", "4", "t", "y", "P", "E">>

\* A name and its arguments, in a line.
L1(c, x) == c \o <<" ">> \o x
L2(c, x, y) == L1(c, x) \o <<" ">> \o y

Strings(chars, n) == UNION {[1..k -> chars] : k \in 1..n}

Long == {<<"$", "F", "F">>, <<"0", "X", "1", "f">>, <<"2", "5", "5">>, <<"2", "5", "6">>,
         <<"9", "9", "9">>, <<"$", "1", "0", "F">>, <<"0", "x", "1", "0", "0">>, <<"9", "A">>}

Addresses == {<<"0">>, <<"$", "1", "0">>, <<"0", "X", "f", "f">>, <<"2", "5", "2">>, <<"$", "1", "0", "F">>}
Values    == {<<"9">>, <<"$", "1", "F">>, <<"1", "6">>, <<"1", "x">>, <<"$">>}
Lengths   == {<<"0">>, <<"1">>, <<"3">>, <<"4">>, <<"5">>, <<"6">>, <<"7">>, <<"$", "1", "0", "1">>, <<"z">>}

MCChar == {" ", "$", "0", "1", "2", "3", "4", "5", "6", "7", "8", "9",
           "A", "B", "C", "D", "E", "F", "G", "H", "I", "J", "K", "L", "M",
           "N", "O", "P", "Q", "R", "S", "T", "U", "V", "W", "X", "Y", "Z",
           "a", "b", "c", "d", "e", "f", "g", "h", "i", "j", "k", "l", "m",
           "n", "o", "p", "q", "r", "s", "t", "u", "v", "w", "x", "y", "z"}

MCGuestRam == [a \in 0..(GuestSize - 1) |-> (7 * a + 3) % ByteSize]

AllLines ==
  Strings({" ", "k"}, 6)
  \cup {L1(PEEK, s) : s \in Strings({"$", "0", "x", "1", "9", "F"}, 3) \ Strings({" "}, 3)}
  \cup {L1(c, s) : c \in {PEEK, TRACE}, s \in Long}
  \cup {L2(POKE, a, v) : a \in Addresses, v \in Values}
  \cup {L2(c, a, n) : c \in {DUMP, C64MEM}, a \in Addresses, n \in Lengths}
  \cup {c \o s : c \in {PEEK, POKE, DUMP, C64MEM, TYPE, KEY, TRACE, C64TYPE}, s \in Strings({" ", "k"}, 4)}
  \cup Plain \cup {<<" ">> \o name \o <<" ", "k">> : name \in Plain} \cup {<<"C">> \o After(name, 1) : name \in Plain}
  \cup {L2(L2(POKE, <<"1">>, <<" ", "2", " ">>), <<"3">>, <<"4">>)}
  \cup {PEEK, POKE, DUMP, C64MEM, TRACE, TYPE, KEY, C64TYPE, <<"c", "l", "e", "a", "R">>, <<" ">> \o C64TYPE}

\* Whatever is entered second finds a memory that the first line has written, or
\* a raster line that it has moved.
MCLines == <<{l \in AllLines : SameStart(l, <<"p", "o", "k", "e">>) \/ SameStart(l, <<"c", "6", "4", "m">>)},
             AllLines>>
===============================================================================
