------------------------------- MODULE Codecs -------------------------------
(***************************************************************************)
(* The codecs of helper/crypto and helper/url_encode as functions on       *)
(* bytes.  Shifts and masks are quotients and remainders.                  *)
(***************************************************************************)
EXTENDS Bytes

Shl(b, k) == (b * 2^k) % 256
Shr(b, k) == b \div 2^k
Mask(b, k) == b % 2^k

(* The blocks of a text: n bytes each, the last one perhaps shorter.       *)
Blocks(text, n) ==
    Tuple([i \in 1..((Len(text) + n - 1) \div n) |->
              SubSeq(text, (i - 1) * n + 1, IF i * n < Len(text) THEN i * n ELSE Len(text))])
RECURSIVE Joined(_)
Joined(parts) ==
    LET half == Len(parts) \div 2
    IN IF parts = <<>> THEN <<>> ELSE IF Len(parts) = 1 THEN parts[1]
       ELSE Joined(SubSeq(parts, 1, half)) \o Joined(SubSeq(parts, half + 1, Len(parts)))

(* index_: the place of a character in a key table (from 0).  Characters   *)
(* that are not in the table have an entry nobody has set.                 *)
Index(keys, c) == (CHOOSE i \in 1..Len(keys) : keys[i] = c) - 1
Padding == Ch("=")

kDefaultBase64Keys == Str("ABCDEFGHIJKLMNOPQRSTUVWXYZabcdefghijklmnopqrstuvwxyz0123456789+/")
base64_encrypt(in) ==
    LET K(i) == kDefaultBase64Keys[i + 1]
        b1 == in[1]
        b2 == IF Len(in) > 1 THEN in[2] ELSE 0
        b3 == IF Len(in) > 2 THEN in[3] ELSE 0
    IN <<K(Shr(b1, 2)), K(Mask(b1, 2) * 16 + Shr(b2, 4)),
         IF Len(in) = 1 THEN Padding ELSE K(Mask(b2, 4) * 4 + Shr(b3, 6)),
         IF Len(in) < 3 THEN Padding ELSE K(Mask(b3, 6))>>
base64_decrypt(in) ==
    LET I(k) == Index(kDefaultBase64Keys, in[k])
        out1 == Shl(I(1), 2) + Shr(I(2), 4)
        out2 == Mask(I(2), 4) * 16 + Shr(I(3), 2)
        out3 == Mask(I(3), 2) * 64 + Mask(I(4), 6)
    IN IF in[3] = Padding THEN <<out1>> ELSE IF in[4] = Padding THEN <<out1, out2>> ELSE <<out1, out2, out3>>
Base64Encrypt(text) ==
    LET b == Blocks(text, 3) IN Joined([i \in 1..Len(b) |-> base64_encrypt(b[i])])
Base64Decrypt(text) ==
    LET b == Blocks(text, 4)
    IN IF Len(text) % 4 /= 0 THEN <<>> ELSE Joined([i \in 1..Len(b) |-> base64_decrypt(b[i])])

kDefaultBase32Keys == Str("0123456789abcdfhijklmoqrstuvwxyz")
(* The characters for one to five bytes.                                   *)
Base32Length == <<2, 4, 5, 7, 8>>
base32_encrypt(in) ==
    LET B(i) == IF i <= Len(in) THEN in[i] ELSE 0
        five == <<Shr(B(1), 3), Mask(B(1), 3) * 4 + Shr(B(2), 6), Shr(Mask(B(2), 6), 1),
                  Mask(B(2), 1) * 16 + Shr(B(3), 4), Mask(B(3), 4) * 2 + Shr(B(4), 7),
                  Shr(Mask(B(4), 7), 2), Mask(B(4), 2) * 8 + Shr(B(5), 5), Mask(B(5), 5)>>
    IN [i \in 1..Base32Length[Len(in)] |-> kDefaultBase32Keys[five[i] + 1]]
(* How many bytes come out depends on the number of characters and, where  *)
(* a byte is begun only, on its bits.                                      *)
base32_decrypt(in) ==
    LET I(k) == IF k <= Len(in) THEN Index(kDefaultBase32Keys, in[k]) ELSE 0
        n == Len(in)
        out == <<Shl(I(1), 3) + Shr(I(2), 2), Shl(I(2), 6) + I(3) * 2 + Shr(I(4), 4),
                 Shl(I(4), 4) + Shr(I(5), 1), Shl(I(5), 7) + I(6) * 4 + Shr(I(7), 3),
                 Shl(I(7), 5) + I(8)>>
        Begun(k) == k + (IF out[k + 1] /= 0 THEN 1 ELSE 0)
        total == CASE n = 1 -> 1 [] n = 2 -> Begun(1) [] n = 3 -> 2 [] n = 4 -> Begun(2)
                   [] n = 5 -> Begun(3) [] n = 6 -> 4 [] n > 6 -> 5
    IN SubSeq(out, 1, total)
Base32Encrypt(text) ==
    LET b == Blocks(text, 5) IN Joined([i \in 1..Len(b) |-> base32_encrypt(b[i])])
Base32Decrypt(text) ==
    LET b == Blocks(text, 8) IN Joined([i \in 1..Len(b) |-> base32_decrypt(b[i])])

(* A character that is no digit counts as zero.                            *)
hextbl(c) == IF HexValue(c) < 0 THEN 0 ELSE HexValue(c)
Bytes2HexStr(bytes) ==
    Joined([i \in 1..Len(bytes) |-> <<Hex[Shr(bytes[i], 4) + 1], Hex[Mask(bytes[i], 4) + 1]>>])
(* An odd text begins with a byte of one digit.                            *)
HexStr2Bytes(text) ==
    LET odd == Len(text) % 2
    IN [i \in 1..((Len(text) + odd) \div 2) |->
          IF odd = 1 /\ i = 1 THEN hextbl(text[1])
          ELSE Shl(hextbl(text[2 * i - 1 - odd]), 4) + hextbl(text[2 * i - odd])]

Unreserved == Alpha \cup Digit \cup {Ch(c) : c \in {"!", "(", ")", "*", ".", "_", "~"}}
encode_table(c) == IF c \in Unreserved THEN <<c>> ELSE <<Ch("%"), Hex[Shr(c, 4) + 1], Hex[Mask(c, 4) + 1]>>
UrlEncode(text) == Joined([i \in 1..Len(text) |-> encode_table(text[i])])
RECURSIVE UrlDecode(_)
UrlDecode(text) ==
    IF text = <<>> THEN <<>>
    ELSE IF text[1] = Ch("%") /\ Len(text) > 2 /\ HexValue(text[2]) >= 0 /\ HexValue(text[3]) >= 0
         THEN <<HexValue(text[2]) * 16 + HexValue(text[3])>> \o UrlDecode(From(text, 4))
         ELSE <<text[1]>> \o UrlDecode(Tail(text))
=============================================================================
