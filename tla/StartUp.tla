------------------------------- MODULE StartUp -------------------------------
(***************************************************************************)
(* A program starts.  xauth reads the switches, the lines of the           *)
(* configuration file, the databases, the corps and their applications one *)
(* after the other, then it serves; the authentication service reads whom  *)
(* it trusts instead; for the plugins of the broker see Plugins.  A        *)
(* scenario has the program, its arguments, the files that are there and   *)
(* the names of those that are meant.  A file is a sequence of lines; a    *)
(* line is a record of its text and of what its writer means: is           *)
(* ("section", "property" or "nothing"), name and value.                   *)
(***************************************************************************)
EXTENDS Database

CONSTANTS Scenarios,     (* a function from their names                     *)
          kMaxSize       (* 128 in the code                                 *)

ASSUME StartUpAssumption == kMaxSize \in Nat

VARIABLES scenario,      (* the name of the scenario                        *)
          boot,          (* at: the function that runs; files: those it is  *)
                         (* to read; line, index: where its loop is; done:  *)
                         (* the corps it is through with                    *)
          config,        (* the parser and the tree, see Config             *)
          pools,         (* db::manager                                     *)
          context,       (* MosquittoContextManager: trust_username_,       *)
                         (* trust_password_ and trust_prefix_; or what a    *)
                         (* plugin keeps                                    *)
          corps          (* app::manager: corp_id_ and apps_                *)

bootVars == <<scenario, boot, config, pools, corps, context>>

StartUpInit ==
    /\ scenario \in DOMAIN Scenarios
    /\ boot = [at |-> "main", files |-> <<>>, line |-> 1, index |-> 1, done |-> {}]
    /\ config = NewParser /\ pools = Empty /\ corps = Empty /\ context = Empty

Given == Scenarios[scenario]
Default == IF Given.program = "xauth" THEN [file |-> "./xauth.conf", port |-> 8881, listen |-> "0.0.0.0"]
           ELSE [file |-> "./auth.conf", port |-> 2020, listen |-> "127.0.0.1"]
FileNamed(name) == IF name \in DOMAIN Given.files THEN Given.files[name] ELSE <<>>

Conf(name) == ValueGet(config.root_, name)
(* String::Format of a text in a buffer of max_buf_len.                    *)
max_buf_len == 102400
Format(text) == IF Len(text) < max_buf_len THEN text ELSE SubSeq(text, 1, max_buf_len - 1) \o <<0>>
Numbered(section, n, name) == Format(section \o Str(".") \o Decimal(n) \o Str(name))
(* global::Manager                                                         *)
Add(manager, name, inst) == Put(manager, name, inst)

(* config::Initialize opens the file the switch names, if it can.          *)
ConfigFile(cmdline) == GetSwitchValueWithDefault(cmdline, Str("config"), Str(Default.file))
Main ==
    /\ boot.at = "main" /\ Given.program \in {"xauth", "service"}
    /\ boot' = [boot EXCEPT !.at = "ParseFile", !.files = <<ConfigFile(FromArgs(Given.args))>>]
    /\ UNCHANGED <<scenario, config, pools, corps, context>>

Lines == FileNamed(Head(boot.files))
ReadLine ==
    /\ boot.at = "ParseFile" /\ boot.line <= Len(Lines)
    /\ config' = ParseLine(config, Lines[boot.line].text)
    /\ boot' = [boot EXCEPT !.line = @ + 1]
    /\ UNCHANGED <<scenario, pools, corps, context>>
CloseFile ==
    /\ boot.at = "ParseFile" /\ boot.line > Len(Lines)
    /\ boot' = [boot EXCEPT !.files = Tail(@), !.line = 1,
                            !.at = IF Len(boot.files) > 1 THEN @
                                   ELSE CASE Given.program = "xauth"   -> "db"
                                          [] Given.program = "service" -> "service"
                                          [] OTHER                     -> "LoadConfig"]
    /\ UNCHANGED <<scenario, config, pools, corps, context>>

(* db::Initialize: up to the first number without a name.                  *)
Db == Conf(Numbered(Str("DSN"), boot.index, "_name"))
DbEntry ==
    LET Size(name, default) == GetInt(config.root_, Format(Db \o Str(name)), default)
        dsn == Conf(Format(Db \o Str(".dsn")))
    IN /\ boot.at = "db" /\ boot.index <= kMaxSize /\ Db /= <<>>
       /\ pools' = IF dsn = <<>> THEN pools
                   ELSE Add(pools, Db, InitPool(dsn, Size(".init_size", 10), Size(".inc_size", 2),
                                                Size(".max_size", 100)))
       /\ boot' = [boot EXCEPT !.index = @ + 1]
       /\ UNCHANGED <<scenario, config, corps, context>>
DbEnd ==
    /\ boot.at = "db" /\ (boot.index > kMaxSize \/ Db = <<>>)
    /\ boot' = [boot EXCEPT !.at = "corps", !.index = 1]
    /\ UNCHANGED <<scenario, config, pools, corps, context>>

(* app::Initialize: the corps, up to the first without a name or an id.    *)
CorpName == Conf(Numbered(Str("CorpInfo"), boot.index, "_name"))
CorpIdOf == Conf(Numbered(Str("CorpInfo"), boot.index, "_corpid"))
CorpInfo(id) == [corp_id_ |-> id, apps_ |-> Empty]
CorpEntry ==
    /\ boot.at = "corps" /\ boot.index <= kMaxSize /\ CorpName /= <<>> /\ CorpIdOf /= <<>>
    /\ corps' = Add(corps, CorpName, CorpInfo(CorpIdOf))
    /\ boot' = [boot EXCEPT !.index = @ + 1]
    /\ UNCHANGED <<scenario, config, pools, context>>
CorpEnd ==
    /\ boot.at = "corps" /\ (boot.index > kMaxSize \/ CorpName = <<>> \/ CorpIdOf = <<>>)
    /\ boot' = [boot EXCEPT !.at = "apps", !.index = 1]
    /\ UNCHANGED <<scenario, config, pools, corps, context>>

(* CorpInfo: an application is made once, its parameters may be set again. *)
AppInfo(appid, secret) == [appid_ |-> appid, secret_ |-> secret, params_ |-> Empty]
CreateApplication(corp, name, appid, secret) ==
    IF name \in DOMAIN corp.apps_ THEN corp
    ELSE [corp EXCEPT !.apps_ = Put(@, name, AppInfo(appid, secret))]
SetAppParam(corp, app, key, value) ==
    IF app \in DOMAIN corp.apps_ THEN [corp EXCEPT !.apps_[app].params_ = Put(@, key, value)] ELSE corp
GetAppParam(corp, app, key) ==
    IF app \in DOMAIN corp.apps_
    THEN IF key \in DOMAIN corp.apps_[app].params_ THEN corp.apps_[app].params_[key] ELSE <<>>
    ELSE <<>>
AppId(corp, app) ==
    IF app \notin DOMAIN corp.apps_ THEN -1
    ELSE IF corp.apps_[app].appid_ = <<>> THEN -1 ELSE Atoll(corp.apps_[app].appid_)

(* Every number up to the last, whether there is such an application or    *)
(* not, corp after corp in the order of their names.                       *)
Left == DOMAIN corps \ boot.done
Current == CHOOSE c \in Left : \A d \in Left \ {c} : Before(c, d)
AppEntry ==
    LET Get(name) == Conf(Numbered(Current, boot.index, name))
        c0 == CreateApplication(corps[Current], Get("_name"), Get("_appid"), Get("_secret"))
        c1 == SetAppParam(c0, Get("_name"), Str("callback_token"), Get("_callback_token"))
        c2 == SetAppParam(c1, Get("_name"), Str("callback_aeskey"), Get("_callback_aeskey"))
        last == boot.index = kMaxSize
    IN /\ boot.at = "apps" /\ Left /= {} /\ boot.index <= kMaxSize
       /\ corps' = [corps EXCEPT ![Current] = c2]
       /\ boot' = [boot EXCEPT !.index = IF last THEN 1 ELSE @ + 1,
                               !.done = IF last THEN @ \cup {Current} ELSE @]
       /\ UNCHANGED <<scenario, config, pools, context>>
(* service::Initialize of the authentication service.                      *)
Trust ==
    /\ boot.at = "service" /\ context = Empty
    /\ context' = [username |-> Conf(Str("mosq_trust_username")), password |-> Conf(Str("mosq_trust_password")),
                   prefix |-> Conf(Str("mosq_trust_prefix"))]
    /\ UNCHANGED <<scenario, boot, config, pools, corps>>

(* HttpServer::Start with the port and the address.                        *)
Listen ==
    /\ \/ boot.at = "apps" /\ Left = {}
       \/ boot.at = "service" /\ context /= Empty
    /\ boot' = [at |-> "serving", port |-> GetInt(config.root_, Str("port"), Default.port),
                listen |-> GetDefault(config.root_, Str("listen"), Str(Default.listen))]
    /\ UNCHANGED <<scenario, config, pools, corps, context>>

StartUpNext == \/ Main \/ ReadLine \/ CloseFile \/ DbEntry \/ DbEnd
               \/ CorpEntry \/ CorpEnd \/ AppEntry \/ Trust \/ Listen

-----------------------------------------------------------------------------
(* What a file says of a property: the value in its last line, where a     *)
(* line belongs to the section that was opened last.                       *)
Last(lines) == CHOOSE i \in lines : \A j \in lines : j <= i
SectionAt(file, i) ==
    LET Named(opened) == IF opened = {} THEN <<>> ELSE file[Last(opened)].name
    IN Named({j \in 1..i : file[j].is = "section"})
Says(file, section, name) ==
    LET Value(lines) == IF lines = {} THEN <<>> ELSE file[Last(lines)].value
    IN Value({i \in DOMAIN file : file[i].is = "property" /\ file[i].name = name /\ SectionAt(file, i) = section})
SaysOf(file, section, n, name) == Says(file, section, Decimal(n) \o Str(name))

Listed(file, n) == \A m \in 1..n : \A name \in {"_name", "_corpid"} : SaysOf(file, Str("CorpInfo"), m, name) /= <<>>
CorpSaid(file, n) == SaysOf(file, Str("CorpInfo"), n, "_name")

(* An application has the id and the secret of the first number with its   *)
(* name, the token and the key of the last.                                *)
AppAsWritten(file, corp, app, numbers) ==
    LET first == CHOOSE n \in numbers : \A m \in numbers : n <= m
        last  == Last(numbers)
    IN /\ app.appid_ = SaysOf(file, corp, first, "_appid")
       /\ app.secret_ = SaysOf(file, corp, first, "_secret")
       /\ app.params_[Str("callback_token")] = SaysOf(file, corp, last, "_callback_token")
       /\ app.params_[Str("callback_aeskey")] = SaysOf(file, corp, last, "_callback_aeskey")
AppsAsWritten(file, corp, apps) ==
    /\ DOMAIN apps = {SaysOf(file, corp, n, "_name") : n \in 1..kMaxSize}
    /\ \A app \in DOMAIN apps :
          AppAsWritten(file, corp, apps[app], {n \in 1..kMaxSize : SaysOf(file, corp, n, "_name") = app})
DbsSaid(file) ==
    LET Name(n) == SaysOf(file, Str("DSN"), n, "_name")
    IN {Name(n) : n \in {m \in 1..kMaxSize : \A k \in 1..m : Name(k) /= <<>>}}
NumberSaid(text, default) == IF text = <<>> THEN default ELSE Atoll(text)

(* A pool has as many connections as it starts with, if it may have more,  *)
(* each opened for what the name of the source says.                       *)
PoolAsWritten(file, db, pool) ==
    LET Number(name, default) == NumberSaid(Says(file, db, Str(name)), default)
        init_size == Number("init_size", 10)
        fits == Number("max_size", 100) < 0 \/ init_size < Number("max_size", 100)
    IN /\ pool.idle_size_ = (IF fits /\ init_size > 0 THEN init_size ELSE 0)
       /\ Len(pool.list_) = pool.idle_size_ /\ pool.current_size_ = pool.idle_size_
       /\ pool.inc_size_ = Number("inc_size", 2)
       /\ \A i \in 1..Len(pool.list_) : pool.list_[i] = Given.sources[Says(file, db, Str("dsn"))]
PoolsAsWritten(file) ==
    /\ DOMAIN pools = {db \in DbsSaid(file) : Says(file, db, Str("dsn")) /= <<>>}
    /\ \A db \in DOMAIN pools : PoolAsWritten(file, db, pools[db])
CorpsAsWritten(file) ==
    /\ DOMAIN corps = {CorpSaid(file, n) : n \in {m \in 1..kMaxSize : Listed(file, m)}}
    /\ \A corp \in DOMAIN corps :
          /\ corps[corp].corp_id_ =
                SaysOf(file, Str("CorpInfo"),
                       Last({n \in 1..kMaxSize : Listed(file, n) /\ CorpSaid(file, n) = corp}), "_corpid")
          /\ AppsAsWritten(file, corp, corps[corp].apps_)
TrustAsWritten(file) == \A name \in {"username", "password", "prefix"} :
                            context[name] = Says(file, <<>>, Str("mosq_trust_" \o name))

FileAsWritten(file) ==
    /\ IF Given.program = "xauth" THEN CorpsAsWritten(file) /\ PoolsAsWritten(file) ELSE TrustAsWritten(file)
    /\ boot.port = NumberSaid(Says(file, <<>>, Str("port")), Default.port)
=============================================================================
