------------------------------- MODULE Bytes -------------------------------
(***************************************************************************)
(* Texts as sequences of bytes, the form in which the readers, writers and *)
(* codecs of the repository handle them, and the functions of the C and    *)
(* C++ libraries those use.                                                *)
(***************************************************************************)
EXTENDS Integers, Sequences, FiniteSets, TLC

Byte == 0..255

(* The printable characters; the 65th, which TLA+ strings cannot hold      *)
(* (code 96), stands as a second blank.                                    *)
Printable == " !\"#$%&'()*+,-./0123456789:;<=>?@ABCDEFGHIJKLMNOPQRSTUVWXYZ[\\]^_ abcdefghijklmnopqrstuvwxyz{|}~"
CodeOf == [c \in {SubSeq(Printable, i, i) : i \in 1..95} |->
              31 + CHOOSE i \in (1..95) \ {65} : SubSeq(Printable, i, i) = c]
          @@ ("\t" :> 9 @@ "\n" :> 10 @@ "\r" :> 13 @@ "\f" :> 12)

(* A function on 1..n as a tuple: TLC then computes each value once.       *)
Tuple(f) == SubSeq(f, 1, Len(f))

(* The bytes of a literal, and of a single character.                      *)
Str(s) == Tuple([i \in 1..Len(s) |-> CodeOf[SubSeq(s, i, i)]])
Ch(c) == CodeOf[c]

(* The character a pointer is at; behind the end is the zero of c_str().   *)
At(text, p) == IF p \in 1..Len(text) THEN text[p] ELSE 0

From(text, p) == SubSeq(text, p, Len(text))

Digit == 48..57
Space == {32, 9, 10, 11, 12, 13}
Alpha == (65..90) \cup (97..122)

(* The first position not before p whose character is in set; one past the *)
(* end if there is none (find_first_of, and loops that scan).              *)
FirstIn(text, p, set) ==
    LET hits == {i \in p..Len(text) : text[i] \in set}
    IN IF hits = {} THEN Len(text) + 1 ELSE CHOOSE i \in hits : \A j \in hits : i <= j
FirstNotIn(text, p, set) ==
    LET hits == {i \in p..Len(text) : text[i] \notin set}
    IN IF hits = {} THEN Len(text) + 1 ELSE CHOOSE i \in hits : \A j \in hits : i <= j

(* Whether pattern stands at p, and the first place not before p where it  *)
(* does (string::find; 0 is npos).                                         *)
StandsAt(text, p, pattern) ==
    /\ p + Len(pattern) - 1 <= Len(text)
    /\ SubSeq(text, p, p + Len(pattern) - 1) = pattern
Find(text, p, pattern) ==
    LET hits == {i \in p..(Len(text) + 1 - Len(pattern)) : StandsAt(text, i, pattern)}
    IN IF hits = {} THEN 0 ELSE CHOOSE i \in hits : \A j \in hits : i <= j

(* c_str(): a text ends at its first zero.                                 *)
CString(text) == SubSeq(text, 1, FirstIn(text, 1, {0}) - 1)

(* memcmp order of keys in a std::map.                                     *)
Before(a, b) ==
    LET n == CHOOSE k \in 0..Len(a) :
                /\ k <= Len(b) /\ SubSeq(a, 1, k) = SubSeq(b, 1, k)
                /\ (k = Len(a) \/ k = Len(b) \/ a[k + 1] /= b[k + 1])
    IN IF n = Len(b) THEN FALSE ELSE n = Len(a) \/ a[n + 1] < b[n + 1]

Hex == Str("0123456789ABCDEF")
HexValue(c) == IF c \in 48..57 THEN c - 48
               ELSE IF c \in 97..102 THEN c - 87 ELSE IF c \in 65..70 THEN c - 55 ELSE -1

(* A number in decimal (operator<<, %d).                                   *)
RECURSIVE Decimal(_)
Decimal(n) == IF n < 0 THEN Str("-") \o Decimal(-n)
              ELSE IF n < 10 THEN <<Ch("0") + n>>
              ELSE Decimal(n \div 10) \o <<Ch("0") + (n % 10)>>
=============================================================================
