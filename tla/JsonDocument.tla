---------------------------- MODULE JsonDocument ----------------------------
(***************************************************************************)
(* JsonDocument between two programs: a handler composes its answer with   *)
(* Set and Append, writes it, and the other side parses the text and reads *)
(* the fields by their paths.                                              *)
(***************************************************************************)
EXTENDS JsonReader

CONSTANTS
    Keys,       \* the paths fields are set under
    Scalars,    \* the values they get, as Json::Value
    Vectors,    \* the arrays they get
    MaxOps,     \* bound on the fields of an answer
    Plans       \* for each reader, what it is given to read

VARIABLES
    root_,      \* the answer
    ops,        \* fields set so far
    last,       \* history: the last Set or Append
    sent        \* history: the answer that was written

docVars == <<root_, ops, last, sent>>

NoOp == [op |-> "none"]

(* What a planned text is: a value that was written, a text cut off, a     *)
(* string of one escaped character, or a text as it stands.                *)
Written(v) == [kind |-> "written", value |-> v]
CutAt(text, n) == [kind |-> "cut", text |-> text, length |-> n]
Character(cp) == [kind |-> "character", code |-> cp]
Literal(text) == [kind |-> "literal", text |-> text]

HexText(n) == [i \in 1..4 |-> Hex[((n \div (16 ^ (4 - i))) % 16) + 1]]
Escaped(cp) == IF cp <= 65535 THEN Str("\\u") \o HexText(cp)
               ELSE Str("\\u") \o HexText(55296 + ((cp - 65536) \div 1024))
                    \o Str("\\u") \o HexText(56320 + ((cp - 65536) % 1024))

Planned(source) ==
    [from |-> source,
     text |-> CASE source.kind = "written" -> Write(source.value, FALSE)
                [] source.kind = "cut" -> SubSeq(source.text, 1, source.length)
                [] source.kind = "character" -> Str("\"") \o Escaped(source.code) \o Str("\"")
                [] OTHER -> source.text]

(* The document is composed where nothing else is planned.                 *)
Init == /\ ReaderInit
        /\ plan \in {[r \in Readers |-> [i \in DOMAIN p[r] |-> Planned(p[r][i])]] : p \in Plans}
        /\ root_ = emptyObject
        /\ ops = IF \A r \in Readers : plan[r] = <<>> THEN 0 ELSE MaxOps
        /\ last = NoOp
        /\ sent = nullValue

Composing == ops < MaxOps /\ isNull(sent) /\ \A r \in Readers : plan[r] = <<>>

(* The four overloads of Set.                                              *)
Set(key, value) ==
    /\ Composing
    /\ root_' = SetAt(root_, key, value)
    /\ ops' = ops + 1
    /\ last' = [op |-> "set", key |-> key, value |-> value]
    /\ UNCHANGED <<sent, vars>>

(* The two overloads of Append.                                            *)
AppendTo(key, value) ==
    /\ Composing
    /\ root_' = AppendAt(root_, key, value)
    /\ ops' = ops + 1
    /\ last' = [op |-> "append", key |-> key, value |-> value]
    /\ UNCHANGED <<sent, vars>>

(* Write, and the text arrives at a reader, it does not matter which.      *)
Receiver == CHOOSE r \in Readers : TRUE
Send(pretty) ==
    /\ ops > 0 /\ last /= NoOp /\ isNull(sent) /\ ~Throws(root_)
    /\ sent' = root_
    /\ plan' = [plan EXCEPT ![Receiver] = <<[from |-> NoSource, text |-> Write(root_, pretty)]>>]
    /\ UNCHANGED <<root_, ops, last, stackDepth_g, rd, results>>

DocNext == \/ \E key \in Keys, value \in Scalars \cup Vectors : Set(key, value)
           \/ \E key \in Keys, value \in Scalars : AppendTo(key, value)
           \/ \E pretty \in BOOLEAN : Send(pretty)
           \/ Next /\ UNCHANGED docVars

Spec == Init /\ [][DocNext]_<<vars, docVars>>

-----------------------------------------------------------------------------
(* Properties.                                                             *)

(* One of two paths leads through or to the other.                         *)
Overlap(a, b) == a = b \/ StandsAt(a, 1, b \o Str(".")) \/ StandsAt(b, 1, a \o Str("."))

(* Set and Append (json_wrapper.cpp:24, :38) are what Get finds under the  *)
(* same path, as a field of its type, whatever the path went through, and  *)
(* they leave every field alone that lies on another path: making room for *)
(* a path must not take more away than what stood on it.                   *)
FieldsAreIndependent ==
    [][last' /= last \/ ops' /= ops =>
        /\ \A key \in Keys : ~Overlap(key, last'.key) => Get(root_', key) = Get(root_, key)
        /\ last'.op = "set" =>
             /\ Get(root_', last'.key) = {last'.value}
             /\ isInt(last'.value) => {asInt(v) : v \in GetInt(root_', last'.key)} = {asInt(last'.value)}
             /\ isString(last'.value) => {asString(v) : v \in GetString(root_', last'.key)} = {last'.value.string_}
             /\ isArray(last'.value) => GetInt(root_', last'.key) = {}
        /\ last'.op = "append" =>
             LET old == {v \in Get(root_, last'.key) : isArray(v)}
                 items == IF old = {} THEN <<>> ELSE (CHOOSE v \in old : TRUE).map_
             IN GetVector(root_', last'.key, LAMBDA v : TRUE) = {ArrayValue(Append(items, last'.value))}
      ]_<<root_, ops, last>>

(* Values nested in each other, the innermost a call of readValue too.     *)
RECURSIVE Nesting(_)
Nesting(v) == IF ~IsContainer(v) THEN 1
              ELSE LET inner == {Nesting(v.map_[k]) : k \in DOMAIN v.map_}
                   IN 1 + CHOOSE n \in inner : \A m \in inner : m <= n

(* stackDepth_g (jsoncpp.cpp:231, :357) is shared by all threads, and a    *)
(* failed parse leaves it raised.  A document that is read while no other  *)
(* is, is refused if and only if it is nested deeper than the limit: what  *)
(* earlier parses left behind, alone or together, has no effect.           *)
LimitIsPerDocument ==
    \A r \in Readers : \A i \in DOMAIN results[r] :
        LET result == results[r][i]
        IN result.alone /\ result.from.kind = "written" =>
                (result.thrown <=> Nesting(result.from.value) > stackLimit_g)

(* A document that was cut off anywhere is not taken for a whole one       *)
(* (readObject, jsoncpp.cpp:619): the handlers go by the verdict of Parse. *)
CutIsRefused ==
    \A r \in Readers : \A i \in DOMAIN results[r] :
        results[r][i].from.kind = "cut" => ~results[r][i].ok

(* The code point a sequence of bytes stands for in UTF-8.                 *)
FromUTF8(b) == CASE Len(b) = 1 -> b[1]
                 [] Len(b) = 2 -> (b[1] - 192) * 64 + (b[2] - 128)
                 [] Len(b) = 3 -> (b[1] - 224) * 4096 + (b[2] - 128) * 64 + (b[3] - 128)
                 [] Len(b) = 4 -> (b[1] - 240) * 262144 + (b[2] - 128) * 4096 + (b[3] - 128) * 64 + (b[4] - 128)

(* What is written is what the other side reads, in both layouts: every    *)
(* string with its quotes, control characters and bytes, every number at   *)
(* the edges of its type, nested containers on one line or several.  And a *)
(* character escaped as JSON prescribes, one escape or a surrogate pair,   *)
(* arrives as its UTF-8 bytes (decodeUnicodeCodePoint, jsoncpp.cpp:838).   *)
SentIsReceived ==
    \A r \in Readers : \A i \in DOMAIN results[r] :
        LET result == results[r][i]
        IN  /\ ~isNull(sent) => ~result.thrown /\ result.ok /\ result.root = sent
            /\ result.from.kind = "character" =>
                  result.ok /\ FromUTF8(result.root.string_) = result.from.code
=============================================================================
