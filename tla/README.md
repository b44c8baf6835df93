# mosqcluster: TLA+ models, model checking and proofs

mosqcluster turns independent mosquitto brokers into a cluster. Each broker loads
two plugins: one asks an HTTP service whether a user may connect and publish, the
other learns of its peers from the same service and forwards to them what its
clients publish. The repository also holds the HTTP server the service is built
on and a second service (xauth) that receives the encrypted callbacks of WeChat
Work, keeps its tokens and sends messages through it, and the readers and writers
of HTTP, JSON, XML and ini files they share.

## 1. Inventory

| Part | Source | State | Operations | Talks to |
|---|---|---|---|---|
| task queue | `helper/task_queue_posix.h`, `waitable*`, `lock*` | `queue_`, a mutex, a condition variable | `Push`, `Get` | its threads |
| thread pool | `helper/thread_pool.*` | `stop_`, the queue | `Create`, `Push`, `Stop`, `ThreadMain` | task queue |
| MQTT client | `mosquitto_cluster_plugin/mosq_client.*` | `state_`, `commands_`, the delay | `Start`, `Stop`, `SubscribeLoop`, `PublishLoop`, `Publish`, `Subscribe` | libmosquitto, task queue |
| cluster plugin | `cluster_plugin_context.*`, `mosquitto_plugin.cpp` | `cluster_nodes_` | `Initialize`, `MaintainProxyInstances`, `MosqProxyPass`, `on_connect`, `on_message` | the service (HTTP), peers (MQTT) |
| authentication service | `mosquitto_auth_service/*` | `mosquitto_instances_` in memory | routes `initialize`, `checkuser`, `checkacl` | the plugins |
| authentication plugin | `mosquitto_auth_plugin/*` | two URLs and a name | `CheckUser`, `CheckAcl` | the service |
| server loop | `server/server.cpp` | `accept_queue`, `accept_size`, epoll | accept, read, hand over, sweep | HTTP server callbacks |
| HTTP tasks | `server/http_server.cpp` | queued `HttpTask` and `NextTask` | `Run`, `SendResponse`, `Finish` | thread pool, sockets |
| parser, request, routes | `server/http_parser.*`, `http_request.*`, `routes.*` | the parser's state, the request so far, the route table | `http_parser_execute`, its callbacks, `Process`, `Message` | server loop, tasks |
| JSON | `helper/json_wrapper.*`, `jsoncpp` | a tree of values, `stackDepth_g` | `Set`, `Append`, `Get`, `Write`, `Parse` | every HTTP body |
| XML | `xauth/tinyxml2`, `xml_reader.*` | nodes, pools, the list of unlinked nodes | `Parse`, `Clear`, `Print`, `Get` | callbacks |
| encryption, codecs | `WXBizMsgCrypt.*`, `helper/crypto`, `url_encode.*` | keys of an application | `VerifyURL`, `DecryptMsg`, `EncryptMsg` | callbacks |
| xauth routes and tasks | `route_*.cpp`, `wx_work_api.cpp` | the queue of tasks | one handler per route, `ExternalContactNotify`, `AsyncPostTask` | XML, JSON, WeChat |
| start-up | `config.cpp`, `ini_parser.cpp`, `command_line.cpp`, `global.cpp` | the tree of properties, corps and applications, pools | `ParseLine`, `Get`, the `Initialize` of each part | everything else |
| databases | `xauth/db/*`, `helper/simple_pool.h` | pools of connections | `DSN`, `Open`, `Create` | libpq |
| caches, tokens | `helper/cache*`, `xauth/app_info.cpp` | a map, a file of chains | `Set`, `Get`, `GetAccessToken` | the WeChat API |
| HTTP client | `http_client.cpp`, `http_wrapper.cpp` | a session, the answer so far | `HttpPost`, `HttpGet`, callbacks | libcurl |
| the rest | logger, redis, time, conversions, ciphers, a Windows shim | | | |

What is hard: the queue wakes consumers after it has let go of its mutex and
checks its condition once; three threads share the unprotected word `state_` of a
client; the monitors of all nodes use one client id per broker; the service
forgets its nodes when it is restarted; the server loop goes on reading from a
socket it has given away; an answer travels from worker to worker; requests and
documents arrive cut anywhere or malformed, and what a parser has built by then has
to be taken down; all readers of JSON share one counter; configuration files are
read into one tree by one parser that remembers its section.
`PROJECT.json` lists these as hazards, each at its line.

## 2. Modules

* `FifoQueue` is the abstract specification of a queue whose operations are
  atomic. `TaskQueue` is `task_queue_posix.h` with its condition variable, one
  action for each stretch of code between two points where another thread can
  run. The thread's place is `pc`; `arg` and `value` are the parameters of `Push`
  and `Get`; `pushed` and `taken` are histories. `TaskQueueProofs` proves the
  properties and the refinement. `MosqClient` and `HttpTasks` use their queue as this
  atomic one, and their proofs show that they do.
* `Handover` is what the two sides of the HTTP server promise each other about a
  socket: the loop has it from accept on, gives it to the pool once or closes it, and
  the pool closes it and never gives it back. `LoopSide` in `ServerLoop` and `PoolSide`
  in `HttpTasks` say that each module keeps its part. `Multicast` is what forwarding in
  a cluster promises to ordinary clients (`ForwardingIsMulticast` in `Cluster`): a
  message goes to a group of brokers fixed when it is published, at once and once to its
  own, and to each other one later or never, a message of QoS 0 once at most.
* `ThreadPool` instantiates `TaskQueue` and adds `ThreadMain`: a worker's `wpc`
  says where it is in its loop, and the steps inside `Get` are `TaskQueue`'s.
* `ThreadPoolProofs`, `MosqClientProofs`, `ClusterProofs`, `ServerLoopProofs`,
  `HttpTasksProofs` and `TokenCacheProofs` extend the modules they are named for
  (section 4).
* `MosqClient` has one action per statement of `SubscribeLoop`, `PublishLoop` and
  `Stop` that reads or writes `state_`, since any two can interleave. The queue of
  commands is used as the atomic queue that `TaskQueueProofs` shows it to be.
* `Cluster` composes brokers, plugins, monitors and the join route. A monitor is
  reduced to what `MosqClient` shows of it: it connects, loses its connection, and
  runs each command once in order.
* `ServerLoop` is `CreateServerSocket`, `StartServer` and `ServerLoopMain` with the
  callbacks of `HttpServer`. The pool appears as the owner of the sockets handed
  over.
* `HttpTasks` is the pool's side: what is done with a request until its socket is
  closed.
* `HttpParser` is `http_parser_execute`: one operator for each case of its switch,
  on a record of the parser's fields and the call's locals. `HttpRequest` puts
  `HttpRequestBase` and the routes behind it: a buffer may end after any character,
  the callbacks fill `req`, and `answer` is the handler that was found.
  `HttpMessages` reads whole connections with it, of responses or of requests, and
  `HttpUrl` is `http_parser_parse_url`, which takes a url apart with the states by
  which `http_parser_execute` checks one. The program itself parses requests only;
  these two say what the rest of the parser promises to who will use it.
* `AuthCheck` follows one question from mosquitto through the authentication
  plugin, libcurl and the service's routes and back. The place of the exchange is
  `stage`, and `response` is `HttpWrapper`'s `response_`. `AuthCheckProofs` proves
  that the plugin fails closed. What `HttpRequest` shows
  of cut requests appears as a choice in `Serve`: a worker has the whole url or a
  piece, the whole body or a piece.
* `TokenCache` is `AppInfo` over `NativeMemory` and `NativeFile`, one step per
  cache call, since each cache has its own lock. `page` is what the reading stream
  of `NativeFile` has buffered.
* `Bytes` holds texts as sequences of bytes and the few library functions used on
  them. `JsonValue` is `Json::Value`, its stream writer and the dotted paths of
  `JsonDocument`; `JsonReader` is `Json::Reader` with its recursion unrolled into
  `frames`, cut at every access to the counter `stackDepth_g`; `JsonDocument`
  composes the two: one side sets fields and writes, the other parses.
* `XmlNode` is the document model of tinyxml2 (nodes by address, the pools,
  `_unlinked`, the printer), `XmlParser` its parser as steps on a record with the
  stack of running `ParseDeep` calls, `XmlDocument` the life of one document.
* `Codecs` and `WXBizMsgCrypt` are functions: what a call returns and its code.
* `Config` is the property tree and the command line, `Database` the data source
  names and the pools, `StartUp` the order in which `main` of xauth and of the
  service make their singletons, `Plugins` the same for the two plugins with the
  join request and its answer as bytes (`HttpExchange`: the response's text, the
  client's request, and what libcurl's callbacks collect).
* `WxApi` is the tasks of xauth with their workers, and `Callback` its routes.
  `Callback` composes all of these: a program starts from its files, then requests
  arrive one after the other.

```
FifoQueue <= TaskQueue <- ThreadPool
FifoQueue <= MosqClient, HttpTasks
Handover  <= ServerLoop, HttpTasks
Multicast <= Cluster                       Bytes <- JsonValue <- JsonReader <- JsonDocument
AuthCheck    TokenCache                    Bytes <- Config <- Database <- StartUp <- Plugins <- WxApi <-+
                                           Bytes <- XmlNode <- XmlParser <- XmlDocument              <-+- Callback
HttpParser <- HttpRequest, HttpMessages, HttpUrl
                                           Bytes <- Codecs <- WXBizMsgCrypt                          <-+
```

`A <- B` says that `B` extends or instantiates `A`, `A <= B` that `B` implements the
abstract `A` or keeps its side of it.

The `MC*` modules add only symmetry sets and the values of structured constants; a
module whose constants are plain is checked as it stands.
`MCHttpRequest` also puts the three uses of the parser side by side: a behaviour of
it reads a request for the server, or a stream of messages, or a url.
Operators such as `SignalWakes` or `ClientIdOfPair` that no action uses are the
alternatives a reader of the code would think of. Substituting one for the
definition that follows it makes a property fail (`mutants` in `PROJECT.json`):
this shows that the property depends on that line of the code.

### Assumptions of the models

* libmosquitto, the brokers, epoll, sockets, the clock and POSIX threads are
  external and modelled from how the code uses them. A connection can end at any
  time, `send` may take any part or fail, `pthread_cond_wait` may return for
  nothing. `volatile` flags are read and written in one step.
* A client id belongs to one session of a broker; a second connection with that
  id ends the first. Sessions are clean.
* A forward has the QoS of the message (`cluster_plugin_context.cpp:126`). With QoS 0 it
  is lost without a connection. With QoS 1 or 2, and so the announcements, libmosquitto
  holds it (`Hold`) until the peer acknowledges it and sends on a new connection what was
  not acknowledged on the old one (`KeepUnacked`, `Resend`). Since the sessions are clean
  the peer does not recognise it, so the two kinds of QoS are one here (`QoS0` and the
  rest) and a message may be published at a peer on every new connection. The
  announcements of a monitor are all alike, and one held stands for all.
* Ordinary clients do not publish on `/mosq/cluster/join`.
* `accept` may fail at any call, having taken nothing (EMFILE, EINTR) or a connection
  that was aborted (`AcceptFails`); either ends the accept loop as EAGAIN does.
* The service's map operations are atomic. Its `lock_` is never initialised, which
  is listed as a hazard and has no defined outcome.
* A client of the HTTP server sends one request per connection and waits for the
  answer, as both plugins do. Descriptor numbers are not reused.
* The characters of a request are those TLA+ strings hold: `HttpParser` names the
  few that are left out.
* Assertions are compiled in: no makefile defines `NDEBUG`.
* A piece of a JSON body lacks a field its route asks for, so the route does not
  grant; a body without an integer `code` is one outcome, whatever its text.
* The reading stream of `NativeFile` keeps its page until a seek leaves it, as
  glibc's does, and seeks to the end of the file before a write. The two keys have
  their buckets on different pages and their blocks on one. The values of a key
  have one length, so a block is always rewritten in place.
* The clock of the token service starts above the lifetime of a token (it counts
  seconds since 1970).
* No caller in the repository passes `force` to `AppInfo`; without it the caches
  stay empty and every call returns the empty string. The model lets callers pass
  it, as the interface does, since nothing else fills the caches.
* JSON: a double is the text it was read from, comments are not kept, and the limits
  of the integer types and of the depth are constants (`JsonLimits`,
  `ReaderLimits`), small for TLC. Reads and writes of `stackDepth_g` are single
  steps.
* XML: line numbers are left out. OpenSSL's cipher is any permutation of blocks that
  differs by key, its digest tells the few texts of an instance apart.
* libcurl takes an answer whose body has the announced length and fails on a shorter
  one. What WeChat answers is one of `Responses`.
* A request has the queries its route reads: the look-up of a missing one compares
  iterators of two maps (`http_request.cpp:264`) and has no defined outcome.
* A line of a configuration file comes with what its writer means by it; a scenario
  lists the files that are there. At most `kMaxSize` entries of a numbered list are
  read (`StartUpAssumption`: it is a number; 128 in the code).

## 3. Runs

Each module has a type invariant as documentation and for its proofs where it has
one; the runs check what could really be wrong. Times are for two workers.

| Run | Bounds | What it shows | |
|---|---|---|---|
| `task_queue` | one producer, one thread that pushes and gets, one consumer, 4 pushes | `NoLostWakeup`, `FifoDelivery`, `EveryItemTaken`, and `Linearizable`: every behaviour is one of `FifoQueue` | 8 s |
| `thread_pool` | one client, two workers, 2 tasks and a continuation | `TaskRunsOnce`, `EveryTaskRuns` | 16 s |
| `mosq_client` | 3 connections, 1 forward, the delays of the code (2, 35) | `EachThreadInOrder`, `SubscriptionIsRestored`, `StopHeardWhileOffline` | 27 s |
| `cluster` | 3 joining nodes and one that does not; in some behaviours one connection, a crash and a restart of the service, in others 2 connections of three nodes or 4 of two and a message, with QoS 0 or not | `OneClientPerPeer`, `PeersMeet`, `PeersComeFromReply`, and `ForwardingIsMulticast`: every behaviour is one of `Multicast` | 50 s |
| `server_loop` | 3 connections, 2 slots, requests of 2 pieces, accepts that fail | `SlotAccounting`, `SocketHasOneOwner`, `BacklogNotForgotten` | 70 s |
| `http_tasks` | 2 requests, 2 workers, answers of 3 units | `OneTaskPerSocket`, `AnswerIsIntact`, `HandedOverIsClosed`, and `PoolSide`: every step is one that `Handover` allows the pool | 20 s |
| `http_request` | 18 texts: requests with queries, headers, lengths, chunks and trailers, and what is no request; 15 streams of up to three responses or requests and the end of their connection; every way to cut these twice; 1102 urls composed of fields or broken, and every buffer of up to 4 of 11 symbols; a header of at most 86 characters, a length below 4096 | `PairsSurviveCuts`, `HandledAsSent`, `FinishedAtTheEnd`, `CutsDoNotMatter`, `MessagesAsSent`, `UrlsTakenApart` | 40 s |
| `http_request_marks` | the same | `AtMostOneMark` is violated, see below | |
| `auth_check` | 2 brokers, 2 users, 2 configurations on each side, 2 questions, a restart | `AcceptedByPolicy`, `EveryCheckEnds` | 18 s |
| `token_cache` | 2 workers, 3 fetches, a restart, times 4 to 8 with a lifetime of 3 | `NotExpired`, `FreshOrEmpty`, `FoundStaysFound` | 47 s |
| `json` | 2 fields under paths that overlap, 17 kinds of values; 10 broken texts before nested ones, every cut of a document, 14 code points, two threads; integers of 6 and 8 bits, a depth of 5 | `SentIsReceived`, `LimitIsPerDocument`, `CutIsRefused`, `FieldsAreIndependent` | 27 s |
| `callback` | 196 starts (files with one or two corps, applications and databases, 32 of plugins); on a usual one two requests of some forty kinds, among them malformed XML of up to four pieces; two workers | `SentAsMeant`, `AnsweredAsMeant`, `ConfiguredAsWritten`, `MemoryIsAccounted`, `ReadAsWritten` | 2 min 15 s |

Why the bounds are enough to be interesting. A lost wake-up needs one producer and
two consumers, of which one takes the item of the other; a thread that is both is
what the pool's workers are. Three connections let a client lose, regain and lose
its link, with the delay past its cap; one forward is enough for the broker's thread to
draw a number and find `on_connect` overtake it, or the reverse. Four connections of two
nodes send a message of QoS 1 again, on either side of a second loss. Two nodes are needed for the join race, a
third for announcements that concern neither end. Three connections on two slots
meet the limit, a freed slot below an occupied one, and the sweep. Three units let a short send be followed by another. The requests of `http_request`
have values of none, one and more characters, two headers, two queries, a query
without a value, a fragment, a body, chunks and none of these; two cuts put any
element on both sides of a buffer's end. Times 4 to 8 let a value with a lifetime of
2 (3 less the margin) be stored, expire and be replaced. The streams
have every reason for a message to end (a length, chunks, a status
without a body, the end of the connection), and the urls every field,
present and absent, with ports at both ends of their range. The integers of `json` are
small so that every edge of a type is a value; three brackets below the limit, the
limit and one above meet a counter that a broken text left raised. In `callback` a
second request finds what the first left behind: tasks that wait, a name that could
not be had. The starts include gaps in numbered lists, a name given
twice, a section that goes on in the next file, and answers to the join request that
are lost or refused. `MCCallback` also checks, as an assumption, that the codecs undo
themselves on texts of up to five bytes. One does not: base32 decodes a last block of
four bytes with a zero byte behind it (`base32.cpp:75`); nothing calls it.
Another assumption there is about character references of XML: the digits begin behind
the last `x` or `#`, and their weights wrap (`tinyxml2.cpp:485` and `:527`).

### Finding: two marks at the end of a buffer

The parser is joyent's `http_parser` with states added for query strings. The space
or `#` that ends a query without `=` (`http_parser.cpp:1154` and following) changes
the state but does not call back, so `query_field_mark` stays set to the end of the
buffer. If the buffer ends inside the name or the value of a header, two marks are
set. The comment at line 2157 says "There should be at most one of these set" and
the assertion below it checks that: the service ends there.
`PairsSurviveCuts` holds in spite of it: where the assertion does not fail, the
leftover name is called back after the headers of the buffer have been stored.

### Properties of the code as it is

Some properties state what the code does rather than what one might wish, and
the comments above them say so. `PeersComeFromReply`: since monitors at one broker
share a client id, no node learns of a peer by an announcement. `StopHeardWhileOffline`
covers the only `Stop` that is always heard; a `Stop` while connected is
overwritten by `state_ = Reconnecting`, and a `PublishLoop` parked in `Get` is not
woken. `AnswerIsIntact` leaves out answers that a stale `errno` has queued twice,
and `BacklogNotForgotten` the backlog that the limit or a failing accept has left: the
loop ends there with the edge consumed, and only the next arrival makes it accept again.
`EachThreadInOrder` orders the commands of one thread: numbers are drawn before the push
(`mosq_client.cpp:330`), so those of two threads may be queued, and run, out of order.
`ForwardingIsMulticast` allows a message of QoS 1 or 2 more than once at a peer. `FreshOrEmpty`: the test
after a look-up is the reverse of the usual one, so what the caches hold is never
returned. `FoundStaysFound` speaks of keys found once: the first value of a key may
stay invisible to the reader that had looked for it before. `HandledAsSent` promises
the last piece of a body that was cut, which is what `assign` leaves.
`LimitIsPerDocument` speaks of documents that are read while no other is: two threads
do count each other's depth. `ReadAsWritten` accepts a text up to a closing tag that
closes nothing, as tinyxml2 does. `SentAsMeant` expects a message even where nobody's
name could be had, and one to nobody where a notice could not be parsed. An exception
in a worker (a field of another type in WeChat's answer, a JSON array where an object
is expected) ends the process: the model stops there (`alive`).

Two oddities of the parser are outside the properties. In the value of a query a `?`
is no character of a url (`http_parser.cpp:601`): the extra question mark that the
comment at line 592 allows is allowed in front of the first `=` only. And a path that
is followed by `#` has its url called back at the end of the buffer, with all that
stands behind it (line 1144). The first part of `UrlsTakenApart` is about urls that end where their buffer
does: `strtoul` (line 2534) reads the digits behind a port, too.

### Fairness

Threads that are inside an operation go on (weak fairness of the thread): the
operating system schedules them. Nothing is assumed of those who call `Push`,
`Stop` or a client, of spurious wake-ups, of the network, or of what `send` and
`mosquitto_loop` answer. `HttpTasks` also lets time pass. In `AuthCheck` only the
broker's own thread is fair: `CURLOPT_TIMEOUT` ends a transfer that gets no answer.
The mutex needs no strong fairness in these instances: a thread that waits for it
competes with finitely many pushes, and an empty queue parks the other consumers.

## 4. Proofs

`TaskQueueProofs` proves for any sets of producers, consumers and values:

* `Invariance`: `Spec => []IInv`, with
  `IInv == TypeOK /\ MutualExclusion /\ ArgsKnown /\ FrontIsStable /\ NoLostWakeup /\ FifoDelivery`.
  None of the last three is inductive alone. `FifoDelivery` is kept by `Pop` only
  if the value read by `front()` is still the head of the queue (`FrontIsStable`),
  and that needs every other thread to be outside its critical section
  (`MutualExclusion`). `NoLostWakeup` is kept by `Pop`, `Park` and `PushBroadcast`:
  a consumer parks only while the queue is empty, and a producer owes its
  broadcast from the moment the item is in the queue.
* `TypeCorrect`, `NeverLosesWakeup`, `DeliversInOrder`, `FrontNeverMoves`: the parts
  of `IInv`; the second and third are properties of the run `task_queue`.
* `ImplementsFifo`: `Spec => Linearizable`. The lemmas `MappedPushSteps` and
  `MappedGetSteps` say which step of `FifoQueue` each action is: `PushEnqueue` is
  `Put`, `Pop` is `Take`, `FrontEmpty` and `WaitFails` are `Miss`, `GetRelease` is
  `Return`, and the others stutter.

The assumptions are those named in `TaskQueue`: NULL is not a queued value, the
owner of a free mutex is no thread, and the bound on pushes is a number.

`AuthCheckProofs` proves for any brokers, users, configurations, questions and
restarts:

* `Invariance`: `Spec => []IInv`, with
  `IInv == TypeOK /\ Configured /\ PolicyNoted /\ CodesAreEarned`.
  `AcceptedByPolicy` speaks of the moment before the plugin answers; to reach it,
  a zero code must already mean a grant in the reply on its way (`CodesAreEarned`),
  no answer may be left over from an earlier question (the same conjunct, which
  ties a zero code to its stage), and the configuration a worker decides by must be
  among those in force since the question was asked (`PolicyNoted`). `GrantedKept`
  says that a grant outlives a restart.
* `TypeCorrect`, and `FailsClosed`: the invariant of the run `auth_check`.
* `AnswersAreEarned`: no step turns an open question into an accepted one except the
  answer to a granted one. `AcceptedByPolicy` allows a verdict to be kept; this says
  that none is repeated for the next question, which needs `OpenIsSilent`: while a
  question is open, nothing says that it was accepted.

The assumptions are that configurations map the two questions to urls, that the
bounds are numbers and that "no question" is not a question. `IInv` has also been
checked by TLC on the instance of `auth_check`.

`ThreadPoolProofs` proves for any disjoint sets of clients and workers and any tasks:

* `UsesTheQueue`: `Spec => Q!Spec`. Every step of the pool is a step of the queue
  `Q` the pool instantiates, or leaves the queue's variables alone.
* `QueueInvariant`: so the inductive invariant of `TaskQueueProofs` holds of the
  pool's queue. It is used, not proved again: `QProofs` instantiates
  `TaskQueueProofs` with the pool's threads, and its `Invariance` is cited.
* `Invariance`: `Spec => [](Q!IInv /\ PoolInv)`. `PlacesInv` ties a worker's place in
  `ThreadMain` to its place inside `Get` and `Push`; `PushedInv` says that every task
  object is pushed once; `RunInv` that what was taken has been run, once, or is
  carried by one worker. That `Pop` hands out a task nobody carries needs the
  queue's order: it is the next of `pushed`, and all that were taken stand before it.
* `RunsOnce`: the invariant `TaskRunsOnce` of the run `thread_pool`.
* `NoneLost`, its other half: a pushed task was run, is with a worker that will run
  it, or is queued, also when `Stop` comes between `Get` and `Run`. A worker reads
  `stop_` only when it has nothing in hand; `WorkersEndEmptyHanded` says what follows
  for the end of a thread: no task, no mutex, not inside the queue.
* `PoolQueueIsAtomic`: the queue inside the pool implements `FifoQueue` although its
  consumers are producers too, from `ImplementsFifo` and `UsesTheQueue`.

`MosqClientProofs` proves `CommandsInThreadOrder` for any delays and bounds. The number
of a command is drawn in one step and queued in another, by two threads that share no
lock. Its invariant `NumbersInv` therefore speaks of the drawn numbers, too: each number
up to `command_id` belongs to a command or to a thread that is about to queue it
(`Numbered`), a thread that holds one has handed over only smaller ones (`DrawnApart`),
and what has been handed over is in order thread by thread (`InThreadOrder`);
`NumbersAreEnough` turns this into the property. `UsesAtomicQueue` says that what
it does with them is what `FifoQueue` offers, so with `ImplementsFifo` the client's
commands may be the real queue's. `StopLeavesNothingRunning` is about the return of
`Stop`: both threads are over, nothing is in hand, the connection is closed, and
`SubscribeLoop` has not put another value into `state_`. It needs the order in which `Stop`
joins the two threads (`Threads`); that `Stop` returns at all is another question, see
section 3.
`DelaysGrow` says that the pause between attempts stays between the two arguments and
never becomes shorter. Nothing resets it after a connection that worked: a client that
has once reached the longest pause keeps it.

`ClusterProofs` proves the three invariants and the refinement of the run `cluster` for any nodes,
configured or not, any messages and any set of limits, with
`IInv == TypeOK /\ PeersInv /\ JoinInv /\ ForwardInv`:

* `PeersInv`: `PeersComeFromReply` stands on `OneSessionPerBroker`. All
  monitors at a broker share a client id, hence there is one session at most and an
  announcement meets none but its sender's (`AnnouncementReachesNobody`).
  `OneClientPerPeer` needs the look-up in `MaintainProxyInstances` (`Maintained`).
* `JoinInv`: a node that joined the running service stays registered until the
  service restarts, so of two replies the later one names the other node, and what a
  reply names is in the list or still to be added. At the end of the loop this is
  `PeersMeet`.
* `ForwardInv`: a forward waits in one queue at most and for a peer of the message's
  broker, one of QoS 0 for a peer that has not published it (`WaitInv`); what a library
  holds to send it again is no QoS 0 message and for such a peer, too (`HeldForPeer`);
  and no broker is a peer of itself (`HomeApart`). This is what makes `ForwardedToPeers`
  (theorem `PublishedAtPeers`) inductive: the property speaks of what has been published
  and not of what is queued or held.
* `MulticastRefined`: every behaviour is one of `Multicast`, with the peers of a node at
  the time it publishes as the group and the messages of QoS 0 as those nobody may get
  twice. A step of a monitor that runs or resends a forward is a `Deliver`, because the
  queue and the library hold forwards for brokers of the group only, with QoS 0 for one
  that lacks the message (`ForwardInv`); a crash, which loses forwards, is a stutter.

`ServerLoopProofs` proves the three invariants of the run `server_loop` for any number of
connections, slots and pieces. `accept_size` is compared with a cardinality, so each
step that fills or frees a slot counts a set with one element more or less, and
`FreeSlotFound` shows that the scan of the first `accept_size + 1` entries cannot fail.
`SlotsInv` allows for the one client that is in a slot and not the loop's: the
one just handed over, until the loop removes it (`remove`). `EventsInv` keeps it out
of the events still to be handled, and `RequestInv` says that a socket is handed over
with the last piece of its request, so nobody hands it over twice. `BacklogInv` is
`BacklogNotForgotten` at every statement of the loop, also where an
event was taken from epoll and is not handled yet; `cut` says that the latest accept
loop was ended by the limit or a failing accept, and is lowered only by one that found
the backlog empty. `LoopKeepsItsSide` shows every step of
the loop to be one of `Handover` or a stutter: the sweep and the close at the limit are
`LoopCloses`, what the model lets workers do is `PoolCloses`. `ContractClosesOnce` proves
of `Handover` alone what it is for: a connection that has ended was closed exactly once.

`HttpTasksProofs` proves `OneTask` and `AnswerArrivesIntact` for any connections, workers
and length of an answer. `OwnersInv` is `OneTaskPerSocket` owner by owner, without the
cardinalities; `SentInv` says for each place a request can be at what of its answer is
out and what the task still holds: together they are the answer. `PoolKeepsItsSide` is
the refinement `PoolSide` of the run: whichever of `Finish`, an error, or an expired
`NextTask` ends a request, its socket is closed by the one task that has it.
`UsesAtomicQueue` shows its tasks to be queued as `FifoQueue` allows; with
`PoolQueueIsAtomic` this is what `HttpTasks` assumes of `ThreadPool`.

`TokenCacheProofs` proves for any workers, lifetime, margin, fetches and restarts:
`NothingExpiredIsFound`, from `CachesInv` (an entry of memory notes its end in one of
two ways, and neither is later than the time of the fetch and the lifetime, because
the clock starts above a lifetime); and two action properties, `OnlyOwnFetches` and
`FileKeepsFinding`. The first needs `CallsInv`: a worker that is about to store
has fetched the value itself, unless it is the token it wants for a ticket. The second is
shown action by action, since it relates what the page of the reader holds before
and after.

Each `IInv` has been checked by TLC on the instance of its run, and so has each
property that is a theorem but not among those of a run: `FrontIsStable`,
`AcceptedWhenGranted`, `NoTaskLost`, `EndsEmptyHanded`, `StoppedIsQuiet`,
`DelayWithinBounds`, `DelayNeverShrinks`, `ForwardedToPeers`, `LoopSide` and the
contracts with `FifoQueue`. The assumptions on
constants are those named in the modules: a "no thread", "no task" or "no connection"
is none of the threads, tasks or connections; bounds are numbers; an answer and a
request have at least one piece and the loop at least one slot; the pool's clients are
not its workers; the token service starts later than one lifetime after 1970; and
`Configured` and `Limits` of `Cluster` are sets of the kind their comments say.

What is only model-checked:

* what must happen eventually (`EveryItemTaken`, `EveryTaskRuns`,
  `SubscriptionIsRestored`, `StopHeardWhileOffline`, `HandedOverIsClosed`,
  `EveryCheckEnds`): liveness under fairness is beyond the prover;
* the properties of the modules on texts (the runs `http_request`, `json` and
  `callback`): `HttpParser`, `JsonReader`, `XmlParser` and those around them read and write
  with recursive operators on sequences of any length, and what a recursive
  definition computes for every input needs an induction the provers cannot do.

## 5. Not modelled, and the plan

Not modelled, because nothing of the repository calls it: the second JSON reader
(`OurReader`), the other JSON writers and `Json::Path`; tinyxml2's files, queries and
pretty printer; pausing the HTTP parser;
`SimplePool::Get` and `Release` with `SqlWrapper`, since nobody takes a connection;
`IniParser::ParseLines`; redis; most of the helpers on text, time and ciphers; the
route of the jsapi ticket, which no table registers. Not modelled, because it keeps
no state anybody reads: the logger. Left out of modelled parts: `fork` in daemon mode,
line numbers and comments, several keys in one bucket of `NativeFile` and values that
grow. Undefined behaviour with no bounded outcome (the uninitialised `lock_`, the
context deleted under its threads) is listed as a hazard only, and the look-up of a
missing query is left out.

Every safety invariant, action property and refinement of the modules on processes is
proved. Two steps of abstraction remain stated in words. What `Cluster` takes from
`MosqClient` has no abstract specification that both implement: `Cluster` queues the
two commands of a connection in one step and a crash of a broker empties the monitor's
queue with its session, so the interface would have to be stated in terms coarser than
what either side says. And the two sides of `Handover` are shown apart: a module that
runs the loop and the tasks together, sharing descriptors, is the next one to write.
