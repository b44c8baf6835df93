------------------------------ MODULE Database ------------------------------
(***************************************************************************)
(* The databases of xauth: what the name of a data source is taken apart   *)
(* into, the connection that is opened with it, and the pool that is       *)
(* filled with connections when xauth starts.  Nothing of the program      *)
(* takes a connection out of a pool.  libpq is external: whether it gets a *)
(* connection to work is logged only.                                      *)
(***************************************************************************)
EXTENDS Config

(* substr(first, behind - first): a negative length is the rest.           *)
Between(str, first, behind) ==
    IF behind < first THEN From(str, first) ELSE SubSeq(str, first, behind - 1)

-----------------------------------------------------------------------------
(* DSN                                                                     *)
ClearDSN == [connstr_ |-> <<>>, dbtype_ |-> <<>>, host_ |-> <<>>, port_ |-> <<>>, dbname_ |-> <<>>,
             username_ |-> <<>>, password_ |-> <<>>, parameters_ |-> Empty]

(* The user, when there is an '@' anywhere behind the type; dsn and where  *)
(* the host begins.                                                        *)
User(dsn, str, offset) ==
    LET at    == FirstIn(str, offset, {Ch("@")})
        colon == FirstIn(str, offset, {Ch(":")})
        user  == [dsn EXCEPT !.username_ = Between(str, offset, IF colon < at THEN colon ELSE at),
                             !.password_ = IF colon < at THEN Between(str, colon + 1, at) ELSE @]
    IN IF at > Len(str) THEN <<dsn, offset>> ELSE <<user, at + 1>>
(* The host and its port, when there is a ':' anywhere behind the user.    *)
HostAndPort(dsn, str, offset, path) ==
    LET colon == FirstIn(str, offset, {Ch(":")})
    IN IF colon > Len(str) THEN [dsn EXCEPT !.host_ = Between(str, offset, path)]
       ELSE [dsn EXCEPT !.host_ = Between(str, offset, colon), !.port_ = Between(str, colon + 1, path)]
(* A parameter without a '=' takes the name of the next one.               *)
RECURSIVE Parameters(_, _, _)
Parameters(dsn, str, offset) ==
    LET end == FirstIn(str, offset, {Ch("&")})
        eq  == FirstIn(str, offset, {Ch("=")})
        key == Between(str, offset, eq)
        set == IF eq > Len(str) \/ key = <<>> THEN dsn
               ELSE [dsn EXCEPT !.parameters_ = Put(@, key, Between(str, eq + 1, end))]
    IN IF end > Len(str) THEN set ELSE Parameters(set, str, end + 1)
DBNameAndParameters(dsn, str, path) ==
    LET mark == FirstIn(str, path + 1, {Ch("?")})
        named == [dsn EXCEPT !.dbname_ = Between(str, path + 1, mark)]
    IN IF path > Len(str) THEN dsn
       ELSE IF mark > Len(str) THEN named ELSE Parameters(named, str, mark + 1)

ParseDSN(str) ==
    LET type == Find(str, 1, Str("://"))
        path == FirstIn(str, type + 3, {Ch("/")})
        dsn  == [ClearDSN EXCEPT !.connstr_ = str]
        user == User([dsn EXCEPT !.dbtype_ = Between(str, 1, type)], str, type + 3)
    IN IF type = 0 THEN dsn
       ELSE DBNameAndParameters(HostAndPort(user[1], str, user[2], path), str, path)

Param(dsn, key) == IF key \in DOMAIN dsn.parameters_ THEN dsn.parameters_[key] ELSE <<>>
OrParam(text, dsn, key) == IF text = <<>> THEN Param(dsn, Str(key)) ELSE text
Host(dsn) == OrParam(dsn.host_, dsn, "host")
Port(dsn) == OrParam(dsn.port_, dsn, "port")
DBName(dsn) == OrParam(dsn.dbname_, dsn, "dbname")
Username(dsn) == OrParam(dsn.username_, dsn, "user")
Password(dsn) == OrParam(dsn.password_, dsn, "password")

-----------------------------------------------------------------------------
(* CreateConnection: a type nobody supports has no connection, and a name  *)
(* without a user, a password or a database one that stays closed.         *)
NoConnection == [is |-> "none"]
Closed == [is |-> "closed"]
PQconnectdb(conninfo) == [is |-> "connected", conninfo |-> conninfo]

IsSupported(name) == name \in {Str("postgres"), Str("postgresql"), Str("pg")}
Pair(name, value) == Str(name) \o Str("=") \o value \o Str(" ")
ConnectWith(dsn) ==
    IF Username(dsn) = <<>> \/ Password(dsn) = <<>> \/ DBName(dsn) = <<>> THEN Closed
    ELSE PQconnectdb(Pair("user", Username(dsn)) \o Pair("password", Password(dsn)) \o Pair("dbname", DBName(dsn))
                     \o (IF Host(dsn) = <<>> THEN <<>> ELSE Pair("host", Host(dsn)))
                     \o (IF Port(dsn) = <<>> THEN <<>> ELSE Pair("port", Port(dsn))))
CreateConnection(dsn) == IF IsSupported(dsn.dbtype_) THEN ConnectWith(dsn) ELSE NoConnection

(* SimplePool::Create: the objects are counted, whatever they are.         *)
CreateObjects(pool, size) ==
    [pool EXCEPT !.list_ = @ \o [i \in 1..size |-> CreateConnection(ParseDSN(pool.dsn_))],
                 !.idle_size_ = @ + size, !.current_size_ = @ + size]
(* ConnectionPool::Init: a pool starts full, or empty if that would reach  *)
(* its maximum.                                                            *)
InitPool(dsn, init_size, inc_size, max_size) ==
    LET pool == [dsn_ |-> dsn, init_size_ |-> init_size, inc_size_ |-> inc_size, max_size_ |-> max_size,
                 current_size_ |-> 0, idle_size_ |-> 0, list_ |-> <<>>]
    IN IF init_size > 0 /\ (max_size < 0 \/ init_size < max_size) THEN CreateObjects(pool, init_size) ELSE pool
=============================================================================
