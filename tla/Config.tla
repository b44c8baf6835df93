------------------------------- MODULE Config -------------------------------
(***************************************************************************)
(* The configuration: a tree of properties filled from the lines of an ini *)
(* file, and the switches of the command line.                             *)
(***************************************************************************)
EXTENDS Bytes

(* map[key] = value.                                                       *)
Put(map, key, value) == (key :> value) @@ map
Empty == [k \in {} |-> <<>>]

-----------------------------------------------------------------------------
(* conf::Value: the properties and the children of a node.                 *)
NewValue == [prop_ |-> Empty, child_ |-> Empty]

kSep == Ch(".")
(* A separator counts if more than one character is behind it.             *)
Sep(name) == FirstIn(name, 1, {kSep})
IsPath(name) == Sep(name) + 1 < Len(name)
Prefix(name) == SubSeq(name, 1, Sep(name) - 1)
Rest(name) == From(name, Sep(name) + 1)

RECURSIVE ValueGet(_, _), ValueSet(_, _, _)
ValueGet(v, name) ==
    IF IsPath(name)
    THEN IF Prefix(name) \in DOMAIN v.child_ THEN ValueGet(v.child_[Prefix(name)], Rest(name)) ELSE <<>>
    ELSE IF name \in DOMAIN v.prop_ THEN v.prop_[name] ELSE <<>>
GetDefault(v, name, default_value) == IF ValueGet(v, name) = <<>> THEN default_value ELSE ValueGet(v, name)

(* A prefix that is there already, and one that is new.                    *)
ValueSetAnew(v, name, value) ==
    IF IsPath(name)
    THEN [v EXCEPT !.child_ = Put(@, Prefix(name), ValueSet(NewValue, Rest(name), value))]
    ELSE [v EXCEPT !.prop_ = Put(@, name, value)]
ValueSet(v, name, value) ==
    IF IsPath(name) /\ Prefix(name) \in DOMAIN v.child_
    THEN [v EXCEPT !.child_[Prefix(name)] = ValueSet(@, Rest(name), value)]
    ELSE ValueSetAnew(v, name, value)

(* atoll: blanks, a sign and the digits that follow.  Numbers beyond the   *)
(* type are left out.                                                      *)
RECURSIVE Digits(_, _)
Digits(text, n) == IF At(text, 1) \in Digit THEN Digits(Tail(text), n * 10 + text[1] - Ch("0")) ELSE n
Atoll(text) ==
    LET t == From(text, FirstNotIn(text, 1, Space))
    IN IF At(t, 1) = Ch("-") THEN -Digits(Tail(t), 0)
       ELSE IF At(t, 1) = Ch("+") THEN Digits(Tail(t), 0) ELSE Digits(t, 0)
GetInt(v, name, default_value) ==
    IF ValueGet(v, name) = <<>> THEN default_value ELSE Atoll(ValueGet(v, name))

-----------------------------------------------------------------------------
(* IniParser: c is the record of current_section_ and the root of the      *)
(* configuration.                                                          *)
NewParser == [current_section_ |-> <<>>, root_ |-> NewValue]

Blanks == {Ch(" "), 9, 13}
StripLeft(str, chars) == From(str, FirstNotIn(str, 1, chars))
(* A text of nothing else is left as it is.                                *)
StripRight(str, chars) ==
    LET kept == {i \in 1..Len(str) : str[i] \notin chars}
    IN IF kept = {} THEN str ELSE SubSeq(str, 1, CHOOSE i \in kept : \A j \in kept : j <= i)

SetProperty(c, key, value) ==
    LET name == IF c.current_section_ = <<>> THEN key ELSE c.current_section_ \o Str(".") \o key
    IN [c EXCEPT !.root_ = ValueSet(@, name, value)]

(* The key is what is before the first '=', the value what is behind it.   *)
ParseProperty(c, str) ==
    LET eq == FirstIn(str, 1, {Ch("=")})
    IN IF eq > Len(str) THEN SetProperty(c, str, <<>>)
       ELSE SetProperty(c, StripRight(SubSeq(str, 1, eq - 1), Blanks), StripLeft(From(str, eq + 1), Blanks))

ParseLine(c, line) ==
    LET str == StripRight(StripLeft(line, Blanks \cup {Ch("=")}), Blanks)
        n   == Len(str)
    IN IF line = <<>> \/ str = <<>> THEN c
       ELSE IF str[1] = Ch(";") THEN c
       ELSE IF n >= 2 /\ str[1] = Ch("[") /\ str[n] = Ch("]")
            THEN [c EXCEPT !.current_section_ = SubSeq(str, 2, n - 1)]
            ELSE ParseProperty(c, str)

-----------------------------------------------------------------------------
(* CommandLine: the switches without their dashes; the last one counts.    *)
RECURSIVE FromArgs(_)
FromArgs(args) ==
    LET arg == args[Len(args)]
        argp == From(arg, FirstNotIn(arg, 1, {Ch("-")}))
        sep == FirstIn(argp, 1, {Ch("=")})
        before == FromArgs(SubSeq(args, 1, Len(args) - 1))
    IN IF args = <<>> THEN Empty ELSE Put(before, SubSeq(argp, 1, sep - 1), From(argp, sep + 1))
GetSwitchValue(switches, name) == IF name \in DOMAIN switches THEN switches[name] ELSE <<>>
GetSwitchValueWithDefault(switches, name, default_value) ==
    IF GetSwitchValue(switches, name) = <<>> THEN default_value ELSE GetSwitchValue(switches, name)
=============================================================================
