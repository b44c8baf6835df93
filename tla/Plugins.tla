------------------------------- MODULE Plugins -------------------------------
(***************************************************************************)
(* The plugins of the broker start: their options, their configuration     *)
(* files, and for the cluster plugin its join, over HTTP, and the clients  *)
(* it makes for the other nodes.  What happens then is in AuthCheck and    *)
(* Cluster.  Files that are there without being named are the default ones *)
(* of a plugin; nodes, of a scenario, are the other nodes the service      *)
(* knows: records of a name and of the host and the port it stands for.    *)
(***************************************************************************)
EXTENDS StartUp

CONSTANTS maxInt, maxLargestInt, maxLargestUInt, rightMargin_     (* JsonValue *)
Json == INSTANCE JsonValue
Http == INSTANCE HttpExchange

StartedBy(program) == boot.at = "main" /\ Given.program = program
OptionOf(program) == IF program = "auth plugin" THEN Str("auth_config_file") ELSE Str("cluster_config_file")
config_files(program) ==
    LET base == IF program = "auth plugin" THEN "mosquitto_auth_plugin.conf" ELSE "mosquitto_cluster_plugin.conf"
    IN <<Str("/etc/" \o base), Str("/usr/etc/" \o base), Str("/usr/local/etc/" \o base), Str(base)>>

(* The options, pairs of a key and a value, one after the other.           *)
RECURSIVE SetOpt(_, _, _)
SetOpt(config_file_, key, opts) ==
    IF opts = <<>> THEN config_file_
    ELSE SetOpt(IF opts[1][1] = key THEN opts[1][2] ELSE config_file_, key, Tail(opts))

(* mosquitto_auth_plugin_init up to Initialize: the default files and the  *)
(* given one are read one behind the other by one parser.                  *)
PluginInit(program) ==
    /\ StartedBy(program)
    /\ boot' = [boot EXCEPT !.at = "ParseFile",
                            !.files = config_files(program)
                                      \o <<SetOpt(<<>>, OptionOf(program), Given.args)>>]
    /\ UNCHANGED <<scenario, config, pools, corps, context>>

AuthPluginLoadConfig ==
    /\ boot.at = "LoadConfig" /\ Given.program = "auth plugin"
    /\ context' = [node_name_ |-> Conf(Str("nodename")), checkuser_url_ |-> Conf(Str("checkuser")),
                   checkacl_url_ |-> Conf(Str("checkacl")), config_file_ |-> SetOpt(<<>>, OptionOf(Given.program), Given.args)]
    /\ boot' = [at |-> "running"]
    /\ UNCHANGED <<scenario, config, pools, corps>>
ClusterPluginLoadConfig ==
    /\ boot.at = "LoadConfig" /\ Given.program = "cluster plugin"
    /\ context' = [node_name_ |-> Conf(Str("nodename")), api_join_ |-> Conf(Str("api-join")),
                   cluster_nodes_ |-> <<>>]
    /\ boot' = [boot EXCEPT !.at = "Initialize"]
    /\ UNCHANGED <<scenario, config, pools, corps>>

-----------------------------------------------------------------------------
(* The request to join, and the answer of the service: the names in the    *)
(* order of its map.  A document that was written is what a reader reads   *)
(* (SentIsReceived of JsonDocument); a text that was not is read as null.  *)
SetString(doc, key, text) == Json!SetAt(doc, Str(key), Json!StringValue(text))
JoinDocument(node) == SetString(SetString(Json!emptyObject, "action", Str("join")), "node", node)
ReadBack(text, doc) == IF text = Json!Write(doc, FALSE) THEN doc ELSE Json!nullValue

MOSQUITTO_PLUGIN_VERSION == Str("mosqcluster/1.6.9.1")
HeadersFor(agent) ==
    Http!AppendPair(Http!AppendPair(Http!AppendPair(<<>>, Str("Connection"), Str("Close")),
                                    Str("Content-Type"), Str("application/json")), Str("User-Agent"), agent)
JoinRequest == Http!Post(HeadersFor(MOSQUITTO_PLUGIN_VERSION), context.api_join_,
                         Json!Write(JoinDocument(context.node_name_), FALSE))

(* MosqAuthRouteProc::Process and RouteInitialize::Process.                *)
ServiceResponse ==
    Http!SetHeader(Http!SetHeader([Http!NewResponse EXCEPT !.status_code_ = 200],
                                  "Content-Type", "application/json"), "Server", "mosquitto_auth_service/1.0")
NodesDocument(names) ==
    Json!SetAt(SetString(Json!SetAt(Json!emptyObject, Str("code"), Json!IntValue(0)), "message", Str("success")),
               Str("nodes"), Json!VectorValue([i \in DOMAIN names |-> Json!StringValue(names[i])]))
KnownNames(node) == Http!Ordered({n.name : n \in Given.nodes} \cup {node})
ServiceAnswer(request) ==
    LET node == {v \in Json!GetString(ReadBack(request.body, JoinDocument(context.node_name_)), Str("node")) : TRUE}
        names == KnownNames(Json!asString(CHOOSE v \in node : TRUE))
    IN IF node = {} THEN ServiceResponse
       ELSE Http!SetContent(ServiceResponse, Json!Write(NodesDocument(names), FALSE))

(* What arrives of it: all, or not its last byte; what a server without    *)
(* the route answers; without a url, nothing.                              *)
Arriving(request) ==
    LET whole == Http!Message(ServiceAnswer(request))
    IN IF request.url = <<>> THEN {[is |-> "lost", text |-> <<>>]} ELSE
       {[is |-> "whole", text |-> whole], [is |-> "lost", text |-> SubSeq(whole, 1, Len(whole) - 1)],
        [is |-> "refused", text |-> Http!Message(Http!NewResponse)]}

(* The names of an answer with status 200 and code 0.                      *)
NamesIn(response) ==
    LET doc == ReadBack(response.body_, NodesDocument(KnownNames(context.node_name_)))
        names == {v \in Json!GetVector(doc, Str("nodes"), Json!isString) : TRUE}
        code == Json!GetInt(doc, Str("code"))
    IN IF response.status_code_ /= 200 \/ Json!isNull(doc) \/ {Json!asInt(v) : v \in code} /= {0} \/ names = {} THEN <<>>
       ELSE LET items == (CHOOSE v \in names : TRUE).map_ IN [i \in DOMAIN items |-> Json!asString(items[i])]

(* MaintainProxyInstances: a client for every name but the own one, unless *)
(* there is one.  The id of the client has the md5 of the name.            *)
md5(text) == <<"md5", text>>
NewClient == [clean_session_ |-> TRUE, keep_alive_ |-> 10, client_id_ |-> <<>>, host_ |-> Str("127.0.0.1"),
              port_ |-> 1883, username_ |-> <<>>, password_ |-> <<>>]
Set(client, field, value) == [client EXCEPT ![field] = value]
SetHost(client, name) ==
    LET v == Http!Split(name, Str(":"))
    IN IF Len(v) = 2 THEN Set(Set(client, "host_", v[1]), "port_", Atoll(v[2])) ELSE Set(client, "host_", name)
ClientFor(name) ==
    LET c == Set(SetHost(NewClient, name), "client_id_", <<"mosqcluster/", md5(name)>>)
    IN Set(Set(c, "username_", Str("mosqcluster")), "password_", Str("mosqcluster"))
(* What SubscribeLoop and the calls of libmosquitto get from the client.   *)
Connection(client) ==
    [id |-> client.client_id_, clean_session |-> client.clean_session_, username |-> client.username_,
     password |-> client.password_, host |-> client.host_, port |-> client.port_, keepalive |-> client.keep_alive_]
RECURSIVE MaintainProxyInstances(_, _)
MaintainProxyInstances(nodes, names) ==
    LET name == names[1]
        known == name = context.node_name_ \/ \E i \in DOMAIN nodes : nodes[i].name_ = name
    IN IF names = <<>> THEN nodes
       ELSE MaintainProxyInstances(IF known THEN nodes
                                   ELSE Append(nodes, [name_ |-> name, client_ |-> ClientFor(name)]), Tail(names))

(* A transfer that fails leaves a status that nobody has set, and no body, *)
(* which names no nodes whatever the status.                               *)
Initialize ==
    /\ boot.at = "Initialize"
    /\ \E arriving \in Arriving(JoinRequest) :
          LET answer == Http!curl_easy_perform(arriving.text)
              names  == IF answer.ok THEN NamesIn(Http!HttpRespHandler(answer)) ELSE <<>>
          IN /\ context' = [context EXCEPT !.cluster_nodes_ = MaintainProxyInstances(@, names)]
             /\ boot' = [at |-> "running", heard |-> arriving.is]
    /\ UNCHANGED <<scenario, config, pools, corps>>

(* The broker reads its own file again, which may name another file by     *)
(* then: mosquitto_auth_security_init notes the name, and Initialize of a  *)
(* reload loads nothing.  The cluster plugin does nothing then.            *)
Reload ==
    /\ boot.at = "running" /\ Given.program = "auth plugin"
    /\ \E opts \in {Given.args, <<<<OptionOf("auth plugin"), Str("b")>>>>} :
          context' = [context EXCEPT !.config_file_ = SetOpt(@, OptionOf("auth plugin"), opts)]
    /\ UNCHANGED <<scenario, boot, config, pools, corps>>

(* mosquitto_auth_plugin_cleanup.                                          *)
PluginCleanup ==
    /\ boot.at = "running"
    /\ boot' = [at |-> "ended"]
    /\ context' = Empty
    /\ UNCHANGED <<scenario, config, pools, corps>>

PluginsNext == \/ \E program \in {"auth plugin", "cluster plugin"} : PluginInit(program)
               \/ AuthPluginLoadConfig \/ ClusterPluginLoadConfig \/ Initialize
               \/ Reload \/ PluginCleanup

-----------------------------------------------------------------------------
(* A plugin has what its files say when they are read as one, the one its  *)
(* option names behind the default ones.                                   *)
RECURSIVE Together(_)
Together(names) == IF names = <<>> THEN <<>> ELSE FileNamed(names[1]) \o Together(Tail(names))
ClientMeant(node, connection) ==
    /\ connection.host = node.host /\ connection.port = node.port
    /\ connection.id = <<"mosqcluster/", md5(node.name)>>
PluginAsWritten(file) ==
    LET Says_(name) == Says(file, <<>>, Str(name))
        Others == {n \in Given.nodes : n.name /= Says_("nodename")}
        nodes == context.cluster_nodes_
    IN /\ context.node_name_ = Says_("nodename")
       /\ Given.program = "auth plugin" =>
             context.checkuser_url_ = Says_("checkuser") /\ context.checkacl_url_ = Says_("checkacl")
       /\ Given.program = "cluster plugin" =>
             /\ context.api_join_ = Says_("api-join")
             /\ Len(nodes) = (IF boot.heard = "whole" THEN Cardinality(Others) ELSE 0)
             /\ boot.heard = "whole" =>
                   \A n \in Others : \E i \in DOMAIN nodes : nodes[i].name_ = n.name /\ ClientMeant(n, Connection(nodes[i].client_))

(* ConfiguredAsWritten: once xauth serves, it has the corps the file lists *)
(* without a gap and no others, each with the id given under the last      *)
(* number of its name and with its applications; the pools are filled with *)
(* connections to the databases their sections name.  The authentication   *)
(* service trusts whom the lines outside all sections name, and the port   *)
(* is the one given there.  The file is the one the switch names, if it is *)
(* there.  A plugin that runs asks where its files say, and the one of the *)
(* cluster has one client for every other node, at the host and port its   *)
(* name stands for, if all of the service's answer came (global.cpp:46,    *)
(* xdb.cpp:70, cluster_plugin_context.cpp:68).                             *)
ConfiguredAsWritten ==
    /\ boot.at = "serving" => FileAsWritten(FileNamed(Given.file))
    /\ boot.at = "running" => PluginAsWritten(Together(config_files(Given.program) \o <<Given.file>>))
=============================================================================
