# Piconaut: a verification development

TLA+ modules that model the core of [Piconaut](../src), a small C++ web
framework on libh2o, TLC runs that check them on small instances, and theorems
checked by TLAPS. Paths below are relative to the repository's root;
`piconaut/` stands for `src/piconaut/`.

## The system

| Part | State | Operations | Interacts with |
|---|---|---|---|
| Router (`piconaut/routers`) | `root_`, a tree of `RouterNode`; `mutex_` | `AddRoute`, `MatchRoute` | called by GlobalDispatcherHandler |
| Route validation (`Router::IsValidRoute`, `utils/string_utils.h`) | none | regular expression, brace scan, `SplitString` | called by `AddRoute` and `MatchRoute` |
| GlobalDispatcherHandler | `router_`, `routes_` (hash to Route), `mutex_` | `RegisterRouteHandler`, `__HandleImpl`, `Dispatcher` | called by H2OServer and by libh2o through HandlerBase |
| HandlerBase, `piconaut_handler_t` | a raw pointer to the handler inside libh2o's handler | `HandlerCallback`, `MakePiconautHandler` | libh2o calls it per request |
| H2OServer (`http/http_single_server.cc`) | config, context, loop, listener, `routers_` | constructor, `RegisterHandler`, `Start`, `Stop`, `RunEventLoop`, destructor | main(), libh2o |
| MultiThreadedH2OServer (`http/http_server.cc`) | one loop, a context and a listening socket object per thread, `threads_`, `queues_`, `listener_`, `handlers_` | constructor, `RegisterHandler`, `Start`, `Wait`, `Stop`, `RunEventLoop`, destructor | libh2o; main() does not use it |
| SignalHandler (`sys/signal_handler.h`) | a libuv loop, one handle per signal, `thread_`, `callback_` | `RegisterCallback`, `Start`, `OnSignal`, `Run`, ... | libuv, main(), the callback |
| main.cc | `g_server_`, `g_signal_` | main(), `CaptureSignalDefault` | all of the above |
| Request, Response | the `h2o_req_t` of one request | getters; `Status`, `AddHeader`, `Send`, `SendJson` | libh2o, handlers |
| ValueBuilder, Value (`formats/json`) | a RapidJSON document and a cursor into it | `operator[]`, assignments, `CreateJsonObject`, serialisation | handlers, Response |
| MiddlewareManager, CsrfMiddleware | a list of middlewares; a token | `Add`, `Handle` | nobody calls them yet |
| Config, H2OServerImpl | settings | setters, getters | H2OServerImpl's header is included nowhere |

What is hard, part by part, and what makes the part correct:

* **Router and dispatcher.** A registration is many writes to the tree under
  one mutex and then one write to `routes_` under another, while `MatchRoute`
  reads both with no lock. Patterns share nodes, so a registration changes
  nodes of earlier ones. Correct means: the two structures agree, registrations
  do not disturb each other, a request reaches a handler registered for a
  pattern of its form, with parameters taken from the request, and the whole is
  no more than a table of routes. Exceptions leave with both mutexes released.
* **Validation and splitting.** A hand-written scan with a look-ahead and a
  tokenizer with a last token. Correct means: the verdict is the one the whole
  pattern deserves, the tokens are the pattern.
* **Process life cycle.** Signals come at any moment: before the callback is
  there, before the dispatching thread runs, while `g_server_` is assigned,
  several at once, after the monitor has stopped. Correct means: `OnSignal`
  finds its callback, each signal number is answered once, the first signal is
  answered, and Stop is not called through a null pointer.
* **JSON builder.** `operator[]` returns the builder itself and keeps a stack of
  pointers into a document whose members move. Correct means: the stack is what
  the expression names, no pointer dangles, the cached type is the value's, a
  statement decides about one place.
* **Value.** `operator[]` moves a pointer into a document that assignments,
  copies and `SetObject` replace, and `is_empty_` says whether it may be thrown
  away. Correct means: the pointer points into the document, only what is empty
  is thrown away, what was assigned to a member is what `As` finds there.
* **Middleware chain.** A request is a stack of nested calls; each of them may
  answer, and tokens travel by headers from the server to clients and back, under
  names that each side compares in its own way. Correct means: one answer per
  request, no POST passes a CsrfMiddleware that did not find its token, every
  answer is given the token, and a client that repeats its token gets through
  (it does not: `PostStopsAtCsrf`).
* **Multi-threaded server.** Start is a socket and four loops, any call of which
  may fail; what it leaves behind meets the next Start, Wait, Stop from another
  thread and the destructor. Correct means: no socket is lost or closed twice,
  Stop never meets a context that is half made, each context has one thread, a
  second Start does not touch contexts that threads work on.

`PROJECT.json` lists every hazard at its line with the properties about it.

## The modules

| Module | What it is |
|---|---|
| `RouterTree` | The data: patterns, nodes, trees, and the steps AddRoute and MatchRoute are made of. |
| `Dispatcher` | The state machine of GlobalDispatcherHandler and Router: registrars and workers, two mutexes. |
| `RouteTable` | The abstract specification: a table of routes, changed and asked in single steps. |
| `DispatcherRefines` | The refinement mapping from Dispatcher to RouteTable. |
| `MCDispatcher` | Small sets of patterns, requests and hashes for TLC. |
| `DispatcherProofs` | Theorems about Dispatcher. |
| `DispatcherRefinesProofs` | Dispatcher implements RouteTable, and a literal route wins, for any patterns and requests. |
| `RoutePattern`, `MCRoutePattern` | IsValidRoute and SplitString character by character; all short patterns. |
| `RoutePatternProofs` | IsValidRoute's verdict and SplitString's parts, proved for patterns of every length. |
| `ServerLifecycle` | main(), the signal thread and the operating system's signals. |
| `ServerLifecycleProofs` | Its safety properties, for any signals. |
| `JsonTree`, `JsonBuilder`, `MCJsonBuilder` | Documents; ValueBuilder with its pointers; small instances. |
| `JsonDocument` | The abstract specification: statements that decide about one place. |
| `JsonBuilderProofs` | ValueBuilder's pointers, cached type and cursor, for any document; JsonBuilder implements JsonDocument. |
| `JsonValue`, `MCJsonValue` | Value with its pointer and `is_empty_`; small instances. |
| `JsonValueProofs` | Its properties, for any keys, contents and other Values. |
| `MiddlewareChain` | MiddlewareManager, CsrfMiddleware, the user's middlewares and Response. |
| `MiddlewareChainProofs` | Its safety properties, for any tokens and any chain. |
| `MultiThreadedServer` | MultiThreadedH2OServer: its owner, a thread that stops it, the loop threads. |
| `MultiThreadedServerProofs` | Its properties, for any number of threads. |

### Dispatcher

A node is named by the keys on the path to it, so a `RouterNode*` is a sequence
of texts, `root_` is the empty one, and a tree is a function from the names of
existing nodes to their fields. A pattern is its parts after SplitString, each
a literal or a named parameter.

| Variable | Code | | Variable | Code |
|---|---|---|---|---|
| `tree` | `router_.root_` | | `wpc`, `wreq`, `wnode` | a thread in `__HandleImpl` / `MatchRoute`, its path and node |
| `routes` | `routes_` | | `wparams`, `wroute` | `params`, what `routes_.at` returned |
| `mutex` | both `mutex_` | | `serving`, `caller` | `H2OServer::Start` was called; the handler a registration was made from |
| `rpc`, `rpath`, `rhandler`, `rnode` | a thread in `RegisterRouteHandler` / `AddRoute` | | `log`, `todo` | history of returned registrations; the bound |

Each action is a step another thread can see. AddRoute's loop is two actions
per part (find or insert the child and step to it; label it), then key, then
handler; the last step of AddRoute and of RegisterRouteHandler contains the
unlock of its `lock_guard`. MatchRoute is one action per part.

`Discipline` says who may call RegisterRouteHandler (`MayRegister`). Under
`before_start` it is anyone until the server runs, as in main.cc, which calls Start
behind its registrations; `in_handler` adds handlers: `caller` remembers the worker
from whose handler a registration was made, and that handler does not return before
it is done (`ReturnToLoop`); `anytime` adds any thread while requests are served,
as Router's comment allows. Nothing else keeps registrations and requests apart:
workers take their steps whatever registrars do, and that the two do not meet is
what `NoDataRace` says. Its two mutants are a registration without its lock and a
server that is started while routes are registered.
Single reads and writes are atomic in the model, while overlapping accesses in
C++ are undefined; so under `anytime` the model shows the best that can happen
and `NoDataRace` is violated where the behaviour is undefined
(`claim_lock_free_match`). Run `dispatcher` and the theorems about requests are for
the other two.

Simplifications: the hash has no collisions and is never 0 (`HashAssumption`);
the regular expression of a parameter is the set `ParamTexts`; RemoveSpacesRef
does nothing, since a pattern that is accepted has no spaces; `front()` on the
empty first part behaves as it does with a null-terminated buffer; the answers'
bytes are not there. More than one worker is more than H2OServer's single loop
has; it stands for a server with several loops.

`RouteTable` keeps the handler of each pattern (the first one registered wins),
the current pattern of each shape (the last one wins), the name in force at
each parameter's place (the last one given, by whatever pattern passes there),
the request each worker was given (`Receive`) and its answer, found in one step by
looking at the whole table (`Ask`), with the values it carries under the names in
force. The mapping takes the request from the worker's own path, so an answer that
belongs to another request is no step of the table. The mapping lets a registration
take effect when the node gets its key, before `routes_` has the entry; the
names on the way to it have been given one by one before (`Rename`). `Register`
demands that at this moment they are the pattern's own, which the mutex is there
for.

### RoutePattern

Characters are of five kinds (`/`, `{`, `}`, others the regular expression
admits, others). The scan and the tokenizer go one character or token at a
time; `WellBraced` and `Joined` say what the result should be without a scan.

### ServerLifecycle

`main` is where main() is, `monitor` where the thread of SignalHandler::Start is.
libuv is modelled from its documented use: the OS handler appends a caught
signal to `pipe`, `Poll` takes all of it into `batch`, each signal of the batch
is given to OnSignal if its handle is still started. `uv_signal_stop` gives the
signal back its default action, which ends the process (`process = "killed"`).
`uv_stop` ends the loop after the batch. `g_server_` is `assigning` while main()
writes it; a read at that time sees either value. The end of main() destroys
`g_signal_` with a joinable thread and aborts, except when the thread was never
started. H2OServer::Start's failing calls are one action, like the constructor's
and std::thread's; `h2o_evloop_run` may report an error at any time. A failing
`uv_loop_new` and the second call of SignalHandler::Start, which main() never
makes, are left out.

### JsonBuilder

`doc` is the document, a function from key paths to values; `nodes`, `current`,
`type` and `empty` are ValueBuilder's fields. A pointer is a path and whether it
still points there: AddMember may move the members of the object it extends, and
replacing a value loses what was below it. Every `operator[]` and every overload
of `operator=` is an action; overloads with the same effect share one.
RapidJSON's assertion is taken to be on, as the build files set no build type;
a subscript of what is not an object then ends the process (`failed`). `Uses`
says what the program does besides full expressions. `expr` and `said` are
histories: the keys of the current expression, the value last assigned; they are
what ties a step to the statement of `JsonDocument` it implements. Contents of
strings and numbers are two model values; serialisation changes no state.

### JsonValue

`root` is `document_`, `at` is where `current_value_` points (the root or a
member's name), `empty` is `is_empty_`. `operator[]` always looks in the root,
so a name is all that a pointer to a member is. The overloads of `operator=` for scalars
and their `std::optional` are `AssignScalar`, those for vectors `AssignVector`
and `AssignValues`; an optional without a value, which does not call
`SetObject`, is `AssignNullopt`. `Copy` is the copy assignment and the copy
constructor. `Converts` is the type checks of `As`, a template that is defined in
value.cc and instantiated nowhere, so no program can link a call of it; the
model takes the header at its word. One Value is modelled; what it is assigned
from is one of `Others`. `element` is a history variable: the Value came out of
`As<std::vector<Value>>`. `said` is another: what was assigned last to the root
and to each member. Elements of arrays hold no arrays, which bounds the depth.

### MiddlewareChain

A request runs on one thread; `stack` holds one entry for each call of Handle in
progress: it has just been entered, has called `next`, or has answered. Call
number i is that of `middlewares_[i-1]`. `middlewares` keeps for each middleware
the token of a CsrfMiddleware or `User`. `Handle` and `Execute` are
MiddlewareManager::Handle and its lambda; `Refuse` and `Pass` are
CsrfMiddleware::Handle; `CallNext`, `Reply` and `AddHeader` are what the user's
code may do. It is assumed to answer or to call `next`, once, before it returns:
`next` holds references to what is gone afterwards, and a second call of it
would answer a second time. `Send` is Response::Send with the status it takes by
default, `sent` what libh2o was given. Clients send requests with no token or with
any token they have read (`known`). A new CsrfMiddleware's token is none that
clients know, since the generator is seeded with the clock; two made at the same time
may have the same one. Tokens, one header of the user and the content type are all
there is of headers; what a request is about and the answers' bodies are left out.

Two facts about libh2o, which the repository does not contain, decide what becomes of
the token's header. They are taken from the library and not from this code:

* names of received headers are stored in lower case (`StoredName`), and
  `h2o_find_header_by_str` compares bytes. So `GetHeader("X-CSRF-Token")` finds
  nothing and returns the empty string, whatever the client sent;
* `h2o_add_header_by_str` keeps the pointers that it is given. The value is
  `csrf_token_`, which lives; the name is a temporary `std::string` of
  CsrfMiddleware::Handle, which is gone when the answer is sent inside `next`. Its bytes
  may be there still: `Send` chooses which tokens on the answer are lost to the
  client. `TokenOnAnswers` is about the list of headers, not about their names'
  bytes.

### MultiThreadedServer

| Variable | Code |
|---|---|
| `owner`, `at` | where the thread is that calls Start, Wait and the destructor, and `i` of the loop it is in |
| `sockets`, `bound` | the file descriptors of Start that are open, and bound |
| `context` | each element of `contexts_`: not there, all zeros after `resize`, initialised, disposed of |
| `watched`, `threads`, `handlers` | the listening socket objects, `threads_`, the size of `handlers_` |
| `stopping` | where each caller of Stop is in its loop |
| `wild`, `process` | members that no one initialises and that are not null by chance; how the process ended |

Start is one action per call that may fail and per iteration of its loops; an
exception brings the owner back to `free`, from where the program may call any
of the operations again. `socket()` failing leaves no trace and is not an
action. `bind` succeeds when nothing is bound: the port is not 0, and
SO_REUSEPORT is not set. Stop may come from another thread (the stopper) until the
destructor begins; a Stop still running while the members go is a program that
destroys an object in use, and is left out. Where the code has undefined
behaviour the process may crash or go on: reading `queues_` and `listener_`,
disposing of a context that is in use or was disposed of before, two threads in
one event loop, a connection (`AcceptConnection`, which finds no accept context
because `Start` never sets the listener's data). Such a crash ends the behaviour,
so each property also says that going on would not break it.

## The runs

| Run | Instance | Shows |
|---|---|---|
| `dispatcher` | 3 registrars, 1 registration each out of 4 patterns and a rejected one, handlers one or null, 7 requests, before Start and inside handlers, fairness | tree and routes agree, sound dispatch, no conflicting accesses, registered routes are found, a literal route wins, refinement of RouteTable, registrations and callbacks end |
| `route_pattern` | all patterns up to 6 characters | verdict and tokens |
| `server_lifecycle` | 2 signals, up to 4 sent | the properties above |
| `json_expressions` | 2 keys, 2 contents, depth 2, full expressions only | refinement of JsonDocument; the cursor, no half-made members, types stay |
| `json_any_use` | the same with 1 content, references, unfinished expressions and copies | no pointer dangles; the cached type |
| `json_value` | 2 keys, 3 types, 2 contents, vectors up to 2, 3 other Values | the pointer, `is_empty_`, assignments read back |
| `middleware_chain` | up to 3 middlewares, 3 tokens, 2 statuses, 1 header of the user's per answer | one answer per request; no POST behind a CsrfMiddleware; the token given to every answer |
| `threaded_server` | 3 threads, 1 handler | sockets, contexts and threads, in any order of Start, Wait, Stop and the destructor |
| `claim_*` | | each refutes one sentence of the repository, listed under findings |

Bounds. The patterns are chosen so that each way two patterns can meet occurs:
one a prefix of the other, the same shape with two parameter names, a literal
and a parameter side by side, both rejected and accepted ones. Two registrars
are needed for interleaved registrations; three registrations let a shared
parent be extended or a pattern be repeated after another one has renamed its
parameter, and let one wait while two others run.
Six characters are enough for two parameters, nested, touching and unclosed
braces, and empty parts. Four signals give two of each number in one read of the
pipe or on both sides of the monitor's end; one of the same number after the
monitor's answer finds the default action.
Two keys and depth two give siblings that move while the stack points below
them, and a subscript of every kind of value. A Value has one level, so two keys
are a member that is written and one that has to stay; three types give a vector
of another type for every scalar.
Three middlewares are a CsrfMiddleware between two others in every order, and two of
them side by side; three tokens let each of them have its own.
Three threads give every loop of the multi-threaded server a first, an inner and a
last iteration to fail in; handlers are only counted, so one is enough.

Fairness. Threads inside a call keep running: weak fairness of each registrar
and each worker, of main() and of the signal thread. Nobody has to start a call,
send a request or a signal, and the event loop does not have to fail.
`threaded_server` has no liveness property: Wait returns only when every event
loop fails, which nothing makes happen, and Stop does not either.
`std::mutex` is not fair, so in general a waiting thread could be overtaken for
ever; the number of registrations is bounded here (and finite in any program
that registers its routes), which makes weak fairness enough. User handlers are
assumed to return.

What the claims show:

* `claim_no_need_to_check`: with only `/post/{id}` registered, `/post` is
  matched at an interior node and `routes_.at` throws.
* `claim_lock_free_match`: router.h calls Router "thread-safe and designed for
  concurrent lock-free MatchRoute executions". A thread registers `/post/{id}` while
  a request is in MatchRoute at the root: one is about to insert into the map in
  which the other is about to look up.
* `claim_clear_nodes`: after `json["a"] = other`, `json["b"] = 1` makes `a.b`.
* `claim_stop_ends_server`: main.cc:92 says that "to stop the server, you can call
  server.stop()" from a signal handler. The signal's callback calls Stop while
  main() is in the event loop, and the event loop goes on for ever.

The models also show behaviour that no run is about:

* a second handler for a path is dropped silently (`Emplaced`); `/{}`, `/{a/b}`
  and `/{a}x{b}` are valid patterns (`WellBraced`);
* a node has one `param_name`, the last pattern's: after `/post/{id}` and
  `/post/{slug}/new`, `/post/7` has a parameter `slug` and none called `id`
  (`Rename` and `Carried` of RouteTable say so);
* the multi-threaded server cannot serve a connection (`AcceptConnection`), Stop does
  not end Wait, and an explicit Stop before the destructor's disposes of every
  context twice (`DisposeCrashes`);
* through `auto& j = json["a"]`, `j = "x"; j = 1` turns a string into a number,
  which `json["a"] = 1` would refuse (`TypesStay` fails when `Uses` has
  `reference`);
* `v["a"] = w` of two Values replaces the whole document of `v` (`Copy`), and an
  element of `As<std::vector<Value>>` loses what it holds when it is subscripted
  (`TakeElement`, then `Subscript`);
* no POST passes a CsrfMiddleware (`PostStopsAtCsrf`): one that brings back the very
  token it was given is answered "Forbidden: CSRF token invalid" as well, because the
  header is looked for under a name that no received header has (`GetHeader`). Were it
  found, two CsrfMiddlewares with different tokens would still refuse every POST;
* that answer has status 200, which Send sets after Status(403) (`Refuse`).

## The proofs

`DispatcherProofs` proves, for every set of threads, patterns, requests and
handlers and every number of registrations, `TypeOK`, `NoDataRace`,
`TreeWellFormed`, `TreeAndRoutesAgree`, `DispatchSound` and
`RegisteredNeverThrows`. `NoDataRace`, `DispatchSound` and
`RegisteredNeverThrows` assume `OneLoop` (below); the assumptions on the
constants are the named ones of `Dispatcher` and `RouterTree`, among them that
`std::hash` has no collisions on the patterns and never gives 0, the key of a
fresh node.

`OneLoop` says: either all registrations come before Start, with any number of
workers, or handlers register routes and there is one worker, because H2OServer has
one event loop and runs handlers on it. With two workers a handler could register a
route while the other one's walk is half way; TLC shows this once `dispatcher` gets a
second worker.

The inductive invariant is `TypeInv /\ LockInv /\ QuietInv /\ TableInv /\ WorkerInv`:

* `TypeInv` adds to TypeOK what a program counter says about the other
  variables of its thread (the node is a proper prefix of the pattern's shape in
  AddRoute's loop, and so on), without which the indexed reads are meaningless;
* `LockInv`: a registrar past its lock owns the mutex, so at most one is inside;
* `QuietInv`: before Start no request is under way; once the server runs, a
  registration in progress was made from a handler that has not returned, and under
  `OneLoop` no other worker is there to match or look up anything. It is kept by
  the order of main() (`Start`) and by `ReturnToLoop`, and it gives `NoDataRace` its
  half about requests, as LockInv gives the half about registrations;
* `TableInv`: the two tree properties, which are almost inductive: they name the
  one node a registration is working on, and LockInv makes it one;
* `WorkerInv`: the node of a worker exists and its params are parts of the
  request standing at `{}` keys; by QuietInv no registration
  moves while one walks, so it survives registrations.

Each action has a lemma per part of the invariant; the theorems combine them.

`DispatcherRefinesProofs` proves that Dispatcher implements RouteTable
(`ImplementsRouteTable`) and that a literal route gets every request for its path
(`ExactPathWins`), for every set of patterns, requests, handlers and
registrations. Both assume `OneLoop`. With QuietInv the table is complete at every
step of a walk and does not change until the walk has ended. `TableWalkInv` adds two
parts to the invariant above:

* `ShapeInv`: a node hangs below all nodes on the way to it, only nodes at `{}`
  keys are parameters, and what a registration has labelled so far has its
  pattern's names. The last part is what `Register` demands of the names;
* `WalkInv`: each node on the way behind a worker was MatchRoute's choice
  (`Follows`), and `params` holds for each name the part at the last
  parameter of that name (`Carries`).

The tree knows a way by its nodes and the table by the registered shapes it
begins; `TreeWellFormed` says that every node begins an accepted shape and
`TreeAndRoutesAgree` that ends and keys belong together, so outside a registration
the two sets of ways are the same (`WaysAreNodes`). Two ways that a request takes
agree up to every length: otherwise take the first place where they differ
(`LeastNatural`). So a walk that used up the request is at the table's only
destination (`OneDestination`) and one that stopped early shows that there is none
(`NoDestination`). Each action is then one step of the table or none: `LabelNode` of
a parameter is `Rename`, `SetKey` is `Register`, `Receive` is the table's, the step that
decides the outcome is `Ask` for the worker's own request, and `ReturnToLoop` is `Done`.

`RoutePatternProofs` proves `VerdictRight` for every set of patterns. The loop
invariant says what the scan knows of the characters behind it: each closed
brace has its partner, at most one is open, and `inside_param` says whether.

It also proves `TypeOK`, that the scan and the tokenizer stay within the pattern,
and `SplitRight`, of patterns of every length. `CutInv` remembers where each part
began: `Cut(b)` says that part n is what lies from `b[n]` to the delimiter before
`b[n + 1]`, that there is no other delimiter in it, and that a part other than the
first has one in front of it. Joined at its delimiters this is the pattern
again, and as an accepted pattern has no two delimiters in a row and none at its
end, only the part before the first one is empty.

`ServerLifecycleProofs` proves `TypeOK`, `CallbackReady`, `AnsweredOnce` and
`StopHasServer` for every set of signals and every number sent. `AnswerInv`
strengthens them: the monitor thread exists only once `callback_` is set; a
signal number that was answered is no longer caught, except the one OnSignal is
still answering; `g_server_` is never null again. That is why a second signal
of the same number, read in the same batch, is skipped.

`JsonBuilderProofs` proves `PointersLive` and `CachedTypeTrue` for every use of
the builder, and `CursorAtExpression` for programs of full expressions
(`Uses = {}`), for any keys, contents, depth and other builders, which are
assumed to hold documents (`OthersAssumption`). `StackInv` says that the value at
height i of the stack is i keys deep. So the object that grows or is replaced,
which is the last one, is deeper than all others, and what moves or goes lies
deeper still.

`MiddlewareChainProofs` proves the four properties of run `middleware_chain` for
any tokens, status codes and length of the chain. Tokens are assumed to differ
from the other headers and from the empty string that GetHeader returns; that is what
makes every CsrfMiddleware refuse a POST. `IInv` adds what makes the
properties inductive: once there is an answer no call is at its beginning
(`AnswerEnds`); a CsrfMiddleware that has called `next` was not given a POST and has
put its token on the response. That every call but the last is waiting for its
`next` is part of `TypeOK`, and puts the header of each outer CsrfMiddleware on the
answer.

`JsonBuilderProofs` also proves that JsonBuilder implements JsonDocument
(`ImplementsJsonDocument`), `TypesStay`, `NullOnlyAtCursor` and the builder's
`TypeOK`, for programs of full expressions. `BuilderInv` is the invariants
above and three more: the values on the way to any value are
objects (`TreeInv`), said of whole prefixes because "the parent is there" would
need an induction to reach the grandparent; a null is what the expression names
and was not found there (`NullInv`); the fields' types. `StepKinds` says what
each operation does to the place that the expression names; every property is
read off it. A place that is written is a leaf or new (`IsPlace`), so writing it
loses nothing (`PutPlace`), and that is why the cached type may stand for the
document.

`JsonValueProofs` proves the four properties of run `json_value`. `PointerInv`
says that `is_empty_` is never set while the pointer is at a member, and that
what is remembered is of the root or of members, never of both. Other Values are
assumed to hold documents without arrays and to have `is_empty_` set only when they hold
nothing; an element of `As<std::vector<Value>>` is not one of them.

`MultiThreadedServerProofs` proves the five properties of run `threaded_server` for
any number of threads and handlers. `IInv` says, for each place of the owner, what
of Start is done: the one socket from bind on (`SocketInv`), contexts made up to
`at` and none or all of them outside Start (`ContextInv`), one thread per index up
to `at` (`ThreadInv`), and that Stop is disposing only where there are contexts
(`StopInv`). The port is what makes it inductive: without a bound socket there are
no contexts and no threads, and with one a second Start gets no further than bind.

Induction. A theorem over an operator on naturals cannot be instantiated by the
provers here, but one over a set can: "a set of naturals that is not empty has a
least element" (`LeastNatural`, from the well-foundedness of `<`) carries every
argument by induction that these proofs need, with the set of counterexamples for
the set. `Joined`, the one definition with a recursive function, is a CHOOSE of a
function that satisfies the equation: `JoinedIsPath` gives one that does, and the
least place where two of them differ shows that there is no other.

Only model-checked: the liveness properties `RegistrationEnds`, `CallbackEnds` and
`FirstSignalAnswered`, because fairness and ENABLED are out of TLAPS's reach here.
Every other property of a passing run is a theorem.

## Plan

1. `RouterTree`, `Dispatcher`, `RouteTable`, `DispatcherRefines`, their runs and
   `DispatcherProofs`: done.
2. `RoutePattern` and its proof: done.
3. `ServerLifecycle` and `ServerLifecycleProofs`: done.
4. `JsonTree`, `JsonBuilder`, `JsonDocument` and `JsonBuilderProofs`: done.
5. `JsonValue` and `JsonValueProofs`: done.
6. `MiddlewareChain` and `MiddlewareChainProofs`, with Response's answers: done.
7. `MultiThreadedServer` and `MultiThreadedServerProofs`: done.
8. The refinements of JsonDocument and of RouteTable as theorems, and
   `SplitRight`: done.

Not modelled:

* Request's getters other than Method and GetHeader: they read libh2o's request and
  keep nothing. `GetQueryString` searches the query string for the name and changes
  no state.
* A restart of the server: a CsrfMiddleware's token lives as long as the process, but as
  no POST passes with any token, one from before a restart makes no difference.
* SignalHandler's `Stop`, `Join` and `SetSignalCaptureMode`: nothing calls them, and
  `Stop` walks over `signals_`, which nothing fills.
* Config: setters and getters of fields that no other code reads.
* H2OServerImpl: its header is included nowhere and does not belong to any build.
* Printing, serialisation, macros and the build files: no state.
