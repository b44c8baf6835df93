--------------------------- MODULE WXBizMsgCrypt ---------------------------
(***************************************************************************)
(* The encrypted messages of WeChat Work.  A configuration c is a record   *)
(* of m_sToken, m_sEncodingAESKey and m_sReceiveId.  Each operation gives  *)
(* a record of its return code and its result.  OpenSSL is external: a     *)
(* cipher that is a permutation of the blocks for every key, and a digest  *)
(* that tells apart the few texts of an instance.                          *)
(***************************************************************************)
EXTENDS XmlParser, Codecs

kAesKeySize == 32
kAesIVSize == 16
kEncodingKeySize == 43
kRandEncryptStrLen == 16
kMsgLen == 4
kMaxBase64Size == 1000000000

Returns(ret, out) == [ret |-> ret, out |-> out]
Ok(out) == Returns("OK", out)
Fails(ret) == Returns(ret, <<>>)
Then(result, Step(_)) == IF result.ret = "OK" THEN Step(result.out) ELSE result

(* -- OpenSSL ------------------------------------------------------------- *)
(* CBC over blocks of 16 bytes: a block is mixed with the one before it    *)
(* and with the key.  sign is 1 to encrypt and -1 to decrypt.              *)
RECURSIVE AES_cbc_encrypt(_, _, _, _)
AES_cbc_encrypt(in, key, iv, sign) ==
    LET block == SubSeq(in, 1, 16)
        out   == Tuple([i \in 1..16 |-> (block[i] + sign * (iv[i] + key[i] + key[16 + i])) % 256])
    IN IF in = <<>> THEN <<>>
       ELSE out \o AES_cbc_encrypt(From(in, 17), key, IF sign = 1 THEN out ELSE block, sign)

RECURSIVE Total(_)
Total(numbers) ==
    LET half == Len(numbers) \div 2
    IN IF Len(numbers) = 1 THEN numbers[1]
       ELSE (Total(SubSeq(numbers, 1, half)) + Total(SubSeq(numbers, half + 1, Len(numbers)))) % 65521
SHA1(text) ==
    Tuple([j \in 1..20 |-> Total([i \in 1..Len(text) |-> (text[i] + 1) * (((i * j) % 251) + 1)]) % 256])

EVP_EncodeBlock(text) == Base64Encrypt(text)
(* Padding decodes to zero bytes; FALSE for what is no base64.             *)
EVP_DecodeBlock(text) ==
    LET pad   == Cardinality({i \in 1..Len(text) : \A j \in i..Len(text) : text[j] = Padding})
        plain == Tuple([i \in 1..Len(text) |-> IF i > Len(text) - pad THEN Ch("A") ELSE text[i]])
        valid == \A i \in 1..Len(text) : \E k \in 1..64 : kDefaultBase64Keys[k] = plain[i]
    IN IF (Len(text) % 4) /= 0 \/ ~valid THEN <<FALSE>> ELSE <<TRUE, Base64Decrypt(plain)>>

(* -- the steps of a message ----------------------------------------------- *)
EncodeBase64(text) ==
    IF text = <<>> \/ Len(text) > kMaxBase64Size THEN Fails("EncodeBase64") ELSE Ok(EVP_EncodeBlock(text))

(* As many bytes are dropped at the end as there are '='.                  *)
Block(block) == IF block[1] THEN Ok(block[2]) ELSE Fails("DecodeBase64")
DecodeBase64(text) ==
    LET equal == Cardinality({i \in 1..Len(text) : \A j \in i..Len(text) : text[j] = Padding})
        Cut(out) == IF Len(out) > equal /\ Len(out) < Len(text) THEN Ok(SubSeq(out, 1, Len(out) - equal))
                    ELSE Fails("DecodeBase64")
    IN IF text = <<>> \/ Len(text) > kMaxBase64Size THEN Fails("DecodeBase64")
       ELSE Then(Block(EVP_DecodeBlock(text)), Cut)

GenAesKeyFromEncodingKey(encoding) ==
    LET Key32(key) == IF key.ret = "OK" /\ Len(key.out) = kAesKeySize THEN key ELSE Fails("IllegalAesKey")
    IN IF Len(encoding) /= kEncodingKeySize THEN Fails("IllegalAesKey")
       ELSE Key32(DecodeBase64(encoding \o <<Padding>>))

(* The padding says how long it is; there is always some.                  *)
AES_CBCEncrypt(source, key) ==
    LET padding == kAesKeySize - (Len(source) % kAesKeySize)
    IN IF source = <<>> THEN Fails("EncryptAES")
       ELSE Ok(AES_cbc_encrypt(source \o [i \in 1..padding |-> padding], key, SubSeq(key, 1, kAesIVSize), 1))
AES_CBCDecrypt(source, key) ==
    LET Unpadded(out, last) == IF last \in 1..kAesKeySize /\ Len(out) > last THEN Ok(SubSeq(out, 1, Len(out) - last))
                               ELSE Fails("DecryptAES")
        Plain(out) == Unpadded(out, out[Len(out)])
    IN IF Len(source) < kAesKeySize \/ (Len(source) % kAesKeySize) /= 0 THEN Fails("DecryptAES")
       ELSE Plain(AES_cbc_encrypt(source, key, SubSeq(key, 1, kAesIVSize), -1))

ComputeSignature(token, timeStamp, nonce, message) ==
    LET parts  == <<token, timeStamp, nonce, message>>
        digest == SHA1(Joined(SortSeq(parts, Before)))
        lower(c) == IF c \in Ch("A")..Ch("F") THEN c + 32 ELSE c
        hex    == Bytes2HexStr(digest)
    IN IF \E i \in 1..4 : parts[i] = <<>> THEN Fails("ComputeSignature")
       ELSE Ok(Tuple([i \in 1..Len(hex) |-> lower(hex[i])]))
(* As many characters as were given.                                       *)
ValidateSignaturePrefix(c, signature, timeStamp, nonce, message) ==
    LET computed == ComputeSignature(c.m_sToken, timeStamp, nonce, message)
    IN computed.ret = "OK" /\ SubSeq(computed.out, 1, Len(signature)) = signature
ValidateSignature(c, signature, timeStamp, nonce, message) ==
    ComputeSignature(c.m_sToken, timeStamp, nonce, message) = Ok(signature)

(* The first printable ones of the numbers that are drawn.                 *)
GenRandStr(drawn, len) ==
    LET isprint(c) == c \in 32..126
    IN SubSeq(SelectSeq(Tuple([i \in DOMAIN drawn |-> drawn[i] % 128]), isprint), 1, len)

(* The length in network order, four bytes.                                *)
htonl(n) == <<n \div 2^24, (n \div 2^16) % 256, (n \div 2^8) % 256, n % 256>>
GenNeedEncryptData(c, drawn, reply) ==
    GenRandStr(drawn, kRandEncryptStrLen) \o htonl(Len(reply)) \o reply \o c.m_sReceiveId

(* The bytes behind the random ones: a length, that many bytes, and the    *)
(* receiver's id.  A length of 2^31 and more is left out: the numbers of   *)
(* this model do not reach it.                                             *)
MessageOf(c, plain) ==
    LET head == kRandEncryptStrLen + kMsgLen
        L(i) == plain[kRandEncryptStrLen + i]
        n    == IF L(1) >= 128 THEN Len(plain) ELSE ((L(1) * 256 + L(2)) * 256 + L(3)) * 256 + L(4)
    IN IF Len(plain) <= head THEN Fails("IllegalBuffer")
       ELSE IF Len(plain) < head + n THEN Fails("IllegalBuffer")
       ELSE IF From(plain, head + n + 1) /= c.m_sReceiveId THEN Fails("ValidateCorpid")
       ELSE Ok(SubSeq(plain, head + 1, head + n))

(* What VerifyURL and DecryptMsg do with the encrypted text.               *)
Decrypt(c, signature, timeStamp, nonce, text) ==
    LET Reveal(data) == Then(GenAesKeyFromEncodingKey(c.m_sEncodingAESKey),
                             LAMBDA key : Then(AES_CBCDecrypt(data, key), LAMBDA plain : MessageOf(c, plain)))
    IN IF ~ValidateSignature(c, signature, timeStamp, nonce, text) THEN Fails("ValidateSignature")
       ELSE Then(DecodeBase64(text), Reveal)

VerifyURL(c, signature, timeStamp, nonce, echo) == Decrypt(c, signature, timeStamp, nonce, echo)

(* d is the document that postData was parsed to.                          *)
DecryptMsg(c, signature, timeStamp, nonce, d) ==
    LET Encrypt(text) == IF text[1] THEN Decrypt(c, signature, timeStamp, nonce, text[2]) ELSE Fails("ParseXml")
    IN Encrypt(GetField(d, Str("Encrypt")))

(* SetOneFieldToXml: an element with a CDATA text, linked from the inside. *)
SetOneFieldToXml(d, xml, name, value) ==
    LET element == Alloc(d)
        e1   == NewElement(d, Str(name))
        text == Alloc(e1)
        e2   == [NewText(e1, CString(value)) EXCEPT !.node[text].cdata = TRUE]
    IN InsertEndChild(InsertEndChild(e2, element, text), xml, element)

GenReturnXml(encrypted, signature, timeStamp, nonce) ==
    LET xml == Alloc(XMLDocument)
        d0  == InsertEndChild(NewElement(XMLDocument, Str("xml")), 0, xml)
        d1  == SetOneFieldToXml(d0, xml, "Encrypt", encrypted)
        d2  == SetOneFieldToXml(d1, xml, "MsgSignature", signature)
        d3  == SetOneFieldToXml(d2, xml, "TimeStamp", timeStamp)
    IN PrintDocument(SetOneFieldToXml(d3, xml, "Nonce", nonce))

EncryptMsg(c, drawn, reply, timeStamp, nonce) ==
    LET Signed(text) == Then(ComputeSignature(c.m_sToken, timeStamp, nonce, text),
                             LAMBDA sign : Ok(GenReturnXml(text, sign, timeStamp, nonce)))
        Encrypted(key) == Then(AES_CBCEncrypt(GenNeedEncryptData(c, drawn, reply), key),
                               LAMBDA aes : Then(EncodeBase64(aes), Signed))
    IN IF reply = <<>> THEN Fails("ParseXml") ELSE Then(GenAesKeyFromEncodingKey(c.m_sEncodingAESKey), Encrypted)
=============================================================================
