# mendes in TLA+

A model of [mendes](../src), a toolkit for web applications in Rust on top of
hyper: TLA+ modules for the parts that carry its logic, TLC configurations that
check them on small instances, and theorems with proofs that TLAPS checks.

    tlc -config MCServer.cfg MCServer        # a run; PROJECT.json lists them all
    tlapm ServerProofs.tla                   # the proofs of a module

## The system and its parts

A request travels through the parts in this order.

| part | source | state it keeps | operations |
|---|---|---|---|
| server | `mendes/src/hyper.rs` | listener, two watch channels, one task per connection and one for the shutdown future | `serve`, `states`, `Connection::run`, `graceful_shutdown` |
| service | `mendes/src/hyper.rs` | the future of one handler | `call`, `catch_unwind`, `panic_response` |
| routing | `mendes/src/application.rs`, `mendes-macros/src/route.rs` | `Context` with the cursor `PathState` and the body | `path`, `rewind`, and the code `route!` and `#[scope]` generate |
| handler arguments | the same | cursor and body, taken argument by argument | `FromContext` of path components, `#[rest]`, `#[query]`, bodies |
| request body | `mendes/src/application.rs` | bytes collected so far | `from_body`, `body_bytes`, `to_bytes`, `deserialize_body!` |
| multipart form | `mendes/src/multipart.rs` | rest of the input, current part, where in the part | `from_form_data`, the serde deserialiser |
| response body | `mendes/src/body.rs` | `InnerBody`, `full_size`, `done` | `encoded`, `poll_frame`, `is_end_stream`, `size_hint` |
| static files | `mendes/src/utils.rs` | the metadata of a file across an await | `file` |
| cookies, key | `mendes/src/cookies.rs`, `key.rs`, `mendes-macros/src/cookies.rs` | a key; the rest is kept by browsers | `cookie`, `set_cookie`, `encrypt`, `decrypt`, the `cookie` macro |
| forms | `mendes/src/forms.rs`, `mendes-macros/src/forms.rs` | the items of a form | `set`, `prepare`, the `form` macro |

How they interact: the server calls the service from the task of a connection
(HTTP/1) or from a task of its own (HTTP/2), the service calls the routing code
with a fresh `Context`, the routing code calls a handler, whose generated code
takes its arguments out of the context; the handler returns a response whose
body hyper polls after the handler is gone. Nothing but the two watch channels
and the immutable application is shared between tasks. Cookies and forms leave
the program: they come back with a later request, through a browser that the
program does not control.

What is hard about it: the shutdown meets connections in every stage and is told
by the number of receivers of channels that never carry a value; the future of
`serve` can be dropped at each await; a handler and a body can panic; the path
cursor is moved by code of three origins; a body is consumed by later polls of
code that was set up earlier; two nested maps are parsed with one state; a file
changes between the moments at which its length and its contents are read;
responses with cookies arrive late, out of order or never, under a key that may
have changed; a macro folds fields into groups that have to be put out at their
end.
`PROJECT.json` lists each such place as a hazard with its line and its properties.

## Modules

    GracefulShutdown  <=refines=  Server   <-- MCServer, ServerProofs
                                  Routing  <-- MCRouting, RoutingProofs
                                  RequestBody <-- RequestBodyProofs
                                  Multipart   <-- MultipartProofs
    Body      <-- StaticFile      (file() and other handlers make Body's bodies)
    BodyProofs <-- StaticFileProofs
    FormMacro <-- Forms           (the struct expanded, then the form it gives)
                                  Forms    <-- MCForms, FormsProofs
    SealedStore       <=refines=  Cookies  <-- MCCookies, CookiesProofs

Each module names a definition after the code it stands for; `PROJECT.json` maps
it to its lines. An operator called `Bug_...` is a broken variant of the
definition that follows it, of the kind a careless edit would make: put in that
definition's place it makes a property fail. No specification uses one.

**GracefulShutdown** says what `serve` promises: connections are served until
the signal fires and `serve` takes notice of it (one that becomes ready at the
same time may still be taken in), then none is taken in, the ones being served finish, and after the
last of them `serve` returns; a caller that drops it earlier changes only that.

**Server** has the three kinds of task. `pc` is the future of `serve` (`select`,
`sleep` after an accept error, `draining`, `returned`, or `dropped`), `signal`
the task that `states` spawns (`absent` without `with_graceful_shutdown`, when
both states are `None`), `taskDone` the holders of a receiver of the task
monitor. Of a connection it has the task (`task`), whether its fused
`shutting_down` has fired (`told`), hyper's connection future (`phase`) and the
requests in its slots (`stream`). hyper is external and modelled from how `run`
uses it: an HTTP/1 connection has one request at a time and polls its body
itself; an HTTP/2 stream has its own task, and after the first GOAWAY new
streams come in until the client has acknowledged it. Requests arrive whole: the
head of a request that is only partly there when the shutdown begins is not
modelled, nor is a request that fails before it reaches the service.

**Routing** has the cursor (`prev`, `next`) over a path and the code that the
macros generate around it. The route table is not fixed: wherever a match stands
any arm the macro accepts may be the one that fires, and a handler may have any
arguments, so every table is covered. The histories `mark` (where what no arm or
argument has used begins), `skipped` and `strayed` exist for the properties.

**RequestBody** follows one body from the check of its size hint through
`Limited` and `collect` to the deserialiser that its content type selects.

**Multipart** follows `next_key_seed` and `next_value_seed`. serde's derived
code is external: it asks for a key, then a value, refuses a field that comes
twice, and reads the value of an unknown key as `IgnoredAny`. A part is chosen
when it is parsed, so all bodies are covered; `ended` tells whether the input
stands at its closing boundary, and the history `suited` whether the body so far
suits the form.

**Body** follows one response body from the handler through `encoded` to the
last poll. Bytes are counted; what a compressor makes of n bytes is any number
from 1 to n + `Added`, and `Added` may exceed the allowance `Slack` that the size
hint makes for it (256 bytes in the code), as it does for many megabytes of
noise. `due` is what hyper should get, `sent` what it got, the history `size`
what the body had before it was encoded. `kind` is the variant of `InnerBody`;
the one around an `Incoming` (`hyper`) has an exact hint if there was a
`Content-Length`. Which compressors there are is a constant (`Compressions`, the
features compiled in). A weight in `Accept-Encoding` is what `as u64` leaves of
it: hundredths, cut off. From `Half` on (2^63) it is negative as an `i64`, and
at `Half` itself the negation overflows (`EncodedPanics`, in builds that check).

**StaticFile** puts `file()` before Body. `stage` is where it stands between its
three awaits, `target` its variable `path`, `length` the `Content-Length` of the
builder; `node` is what the path and the `index.html` in it are, and anybody may
change that at each await. Each of the three calls may also fail whatever is
there (`failed`), and every error becomes "file not found". The response goes the way of Body's: the application
may call `encoded`, and hyper polls it. `FSpec` implements Body's `Steps`.

**FormMacro** is the loop of the `form` macro over the fields of a struct, one
action for each arm of its `match`; `held` is `item_state`, `place` the item of
the generated form that a field is in. All structs are initial states.

**Forms** goes on with the generated code: `to_form` with `prepare`, and any
calls of `set`, which takes the form by value and loses it with an error. `cell`
is what is checked, selected or filled in, and `Sent` what a browser submits of
the HTML that `Display` writes; `last` and `again` are histories. Texts are
written into `value="..."` as they are, so that a browser may see another one,
and an input for numbers or dates drops what is none: `Displayed` is what a
browser makes of a text in an input of a type, any function at all. `set` is
`Ok` for a name that no field has (`SetIgnored`), though there is an error
`SetUnknownField`.

**SealedStore** says what an application can rely on when it keeps data in
cookies: clients hold sealed values and may forget them, and `cookie` answers
with a value that is held, was sealed for that name under the present key and
has not expired, or with nothing.

**Cookies** has the application and one browser. Of a request it has the cookies
it came with (`sent`) and the `Set-Cookie` headers of its response (`headers`);
`jar` is what the browser keeps under a name and a path, `split` whether it sends
a `Cookie` header for each cookie. Several requests are under way at once;
responses arrive in any order or never. `told`, `expect` and `called` are
histories. The browser is external and does what RFC 6265 says: it keeps the
last header for a cookie, forgets it after `Max-Age`, sends longer paths first
(so the model's `extract` looks at the longest path that decodes), and refuses
`SameSite=None` without `Secure`, a combination that the macro's defaults and
`secure = false` give and that the macro accepts: such a cookie is never kept.
Paths are prefixes of one another, connections are secure, and encryption is
ideal.

## Runs

| run | bounds | states | what it shows |
|---|---|---|---|
| `server` | 2 HTTP/1 and 1 HTTP/2 connection, 1 slot, with and without a shutdown future, symmetry of the two HTTP/1 clients | 226k | the task monitor is exact, `serve` returns neither early nor unasked, `None` is not taken for a closed channel |
| `server_live` | 1 + 1 connections, 2 slots, with and without a shutdown future | 50k | no request is cut, panics are contained, `GracefulShutdown` is implemented, fairness included; a shutdown never turns back and completes, connections drain, nobody waits in the accept queue |
| `routing` | all paths up to 5 characters over `/`, a letter and an undecodable byte | 37k | the cursor stays on components, nothing is lost or comes twice |
| `routing_rest` | the same | | **fails**, see below |
| `request_body` | lengths 0 to 4, limits 0, 2, 3 | 1k | the limit holds, is never exceeded, cuts nothing; each error has the cause it names |
| `multipart` | forms of 2 fields, bodies of up to 3 parts | 23k | suited bodies are parsed in step with the form and refused only for a cause in them; any body is parsed to an end |
| `multipart_unreachable` | the same | | **fails**, see below |
| `body` | module StaticFile; sizes 0, 1, 3, chunk 2, slack 2, at most 3 bytes added, 2 compressions, `Half` 200, weights 0, 100, 200 and 300; any changes and failures of the two nodes | 1.4M | hint, end and label of every kind of body; a `Content-Length` is wrong only if the file changed or the body was compressed; "not found" is said only of what is not there or could not be read |
| `body_lazy` | module Body, the same sizes, 3 compressions, weights 0, 50, 100 | | **fails**, see below |
| `forms` | structs of 3 fields, 2 groups, 4 kinds of types, an enum of 2 variants, 4 texts to set, 2 of them no numbers | 2.4M | fields are grouped as written, what `set` accepted for a field of the form is sent as far as the HTML keeps it, files in groups are uploaded |
| `forms_lost` | structs of 4 fields, 2 groups | | **fails**, see below |
| `cookies` | 3 requests with symmetry, 1 name, 2 paths, 3 lists of parameters, 1 tick or restart (`MaxTurns`), 2 headers under way (`MaxSets`) | 364k | `cookie` returns what the last response received has set, `SealedStore` is implemented |

Why the bounds suffice to be of interest: two connections are what it takes for
one to finish while another runs, and the third adds a connection accepted in
the middle; with two slots one stream can fail while its neighbour is at work.
Five characters hold a leading slash, two components, empty components and a
trailing slash. A chunk smaller than a body gives bodies of several frames, and
a size of 0 the ones that end at once. A compressor that adds 3 bytes to them
goes beyond an allowance of 2. With `Half` 200 the weights are a legal pair, the
one whose negation overflows and one that wraps; the order among several legal
ones is the same operator. Three parts allow a part that comes
twice with another between. Three fields hold a group, a field of its own or a
skipped one within it, and two groups in a row. Three requests are one that
sets, one whose response overtakes it, and one that reads what came of it; one
tick expires a cookie of the default age and one restart makes it another key's.
With one name TLC does not see that names are told apart: that is proved. For
every other value of the constants there are the proofs. Symmetry is used in `server` and `cookies` only, which have no liveness.

Deadlock is checked in the server's runs, whose `Terminating` is the one allowed
end. The other modules stop when their request, form, cookie traffic or body is
done with.

## What the runs found

* `routing_rest`: on a path that is used up `PathState::next` leaves `prev`
  alone, so the rewind of a wildcard arm goes back to the component that an
  earlier arm consumed. In `tests/basic.rs` the request `/nested` would give
  `nested_rest` the rest `nested`, where the doc of `#[rest]` promises what is
  not yet consumed.
* `body_lazy`: the compressor of a lazy body is local to one `poll_frame`; after
  one frame it is lost, and the next poll polls a completed future, which panics.
  The response has no `Content-Encoding` either.
* `multipart_unreachable`: incomplete headers, a missing closing boundary and an
  optional field reach branches marked `unreachable!()`.
* `forms_lost`: nothing puts out what `item_state` holds when the fields end, so
  a struct that ends with a group gets a form without that group, and what a
  browser submits lacks fields that deserialising needs. The struct of
  `mendes/tests/forms.rs` has a field behind its group.

Of `file` with `encoded` no document says which of the two should care for the
`Content-Length`; `WrongLengthHasCause` states when it is wrong, and no run calls
that an error. The same goes for a select that is set twice (`OkMeansShown`
excepts it): both options stay marked, and the later one in the list counts. Two
more things were met while modelling, and are said in properties that except
them: `set` of a name that no item has is `Ok` and its value gone, though the
crate has an error "unable to set value for unknown field" that nothing
constructs (`OkMeansShown`); and `file` says "file not found", status 404, of
every `io::Error`, also of a file that is there and cannot be opened or read
(`ServesWhatIsThere`). A weight of zero does not exclude an encoding, and texts are not escaped for HTML;
no text of the repository speaks of either, and `OkMeansShown` is about texts
that the HTML keeps (`Intact`).

## Fairness

* Server: tokio polls a task that has been woken, hence weak fairness of `Wake`,
  `Return`, `DropSignal` and of each connection's `TellShutdown` and `Finish`.
  `select!` picks a ready branch at random, so a branch that is ready again and
  again is picked in the end, also if the loop goes to sleep in between: strong
  fairness of `Break` and `Accept`. Of the clients and handlers it is assumed
  that handlers end, and that clients read their responses and acknowledge a
  GOAWAY or leave. The code has no deadline for these, so without them a
  shutdown may last for ever. No fairness is assumed of connecting, requesting,
  leaving, of the signal, or of errors.
* Body: hyper polls a body until it ends, and futures and streams are not
  pending for ever. No error is assumed to come: a body must end without one.
* RequestBody: frames arrive or the connection breaks, and the handler's task is
  polled.
* StaticFile: as Body; `file` itself may be dropped at an await and owes nothing.
* Routing, Multipart, FormMacro and Forms are sequential, and Cookies promises
  nothing of a browser: they have safety properties only.

## Proofs

All theorems are about any values of the constants that satisfy the modules'
assumptions, each of which the runs evaluate.

* **Server**: `IInv` adds to `MonitorCountsConnections` and
  `ShutdownOnlyOnSignal` that the accept queue is empty once the loop is left
  (`QueueClosed`) and that a connection's requests go with it
  (`StreamsFollowConn`: an HTTP/1 connection has one at a time and none when its
  future is ready). Both are needed: `ReturnMeansDrained` speaks of the queue and
  of requests, and the step that returns knows only that `taskDone` is empty.
  From it follow `MonitorIsExact`, `ServeReturnsDrained`,
  `NoSpontaneousShutdown`, the action properties `NothingInFlightIsCut` and
  `HandlerPanicsAreContained`, and `PromiseKeptSafely`: the initial states and
  the steps of Server are those of GracefulShutdown. Of the liveness properties
  `ShutdownCompletes` and `ConnectionsDrain` one half is safety and proved: no
  step of a shutdown takes it back (`ShutdownOnlyProgresses`, with a rank for the
  phase of a connection and one for each of its requests); for this a connection
  that was told must be closing (`ToldAreClosing`). What is left to TLC is that
  the steps are taken.
* **Routing**: `TypeOK /\ CursorOnComponents /\ NothingLostOrRepeated` is
  inductive. Components have one end (`OneEnd`) and end in the order in which
  they begin (`EndsMonotone`), so cursor and history advance alike
  (`AdvanceUses`).
* **RequestBody**: what is collected is a beginning of the body within the limit
  (`Progress`), and each answer tells something about the lengths and the type (`Answers`). From
  that follow what a handler can rely on and that every error has its cause
  (`ErrorsAreExact`). Every step comes nearer to the answer (`AnswersComeNearer`), so that of `Answered` only the
  fairness is left to TLC.
* **Multipart**: as long as the body suits the form, what the deserialiser is at
  and what serde asks for determine each other (`InStep`): within a file the
  fields given are those before the state (`Given`), outside of one the state
  is `none` or the first of a part. Once the input is at its closing boundary
  the parser is not inside a part (`Closed`), and a body that is refused is
  refused for what is in it (`RefusalsHaveCauses`). `ParserComesToItsEnd` is
  about every body, suited or not: each step leaves less to do (`Work`: the parts
  that may come, then the state within the part, then what serde is asking).
* **Body**: the bytes are accounted for except in the compressed lazy body
  (`Accounts`), and kind, encoding and header agree (`Choice`). The allowance
  must exceed 1: otherwise an empty input would give an exact hint. A hint is
  exceeded only by a compressor that adds more than the allowance, and then only
  its upper end. Every poll takes the body on to its end (`BodiesGetOn`).
  `HeaderIsRight` is for weights of any size: 2^63 itself sorts first and
  those that wrap behind the legal ones, of which the heaviest is still chosen. The theorems
  are of `Steps`, the specification without its fairness, so that StaticFile can
  cite them.
* **StaticFile**: `Known` says what `file` has found out as long as nothing has
  changed, and every step is a step of Body (`BodyStep`). So `FSpec => Steps`
  (`FileIsAHandler`), what is proved of Body holds of its bodies
  (`FilesAreSoundBodies`), a wrong length has one of the two causes, and a file
  that is there is served unless a call failed (`FilesAreServed`).
* **Forms**: `HeldIsRun` says that `item_state` holds exactly the fields at the end of
  what the loop has passed that are of one group (`Run`), and `Placed` that the
  others are placed as `PlacedOnce` wants it; an item that is added comes after
  all others (`RunIsLast`, `AddPlaced`). `Shown` relates the last value of each field
  in the form to its cell, with which `OkMeansShown` follows for any `Displayed`. `Submittable` says what a cell
  can hold by the kind of its field, so that a field is submitted with one value,
  also a select that was set twice (`FieldsAreSubmitted`).
* **Cookies**: the jar has what the responses received have said, but for values
  that expired and are gone (`JarAsTold`); a request has what had been said when
  it was sent, for the paths it is under (`SentAsTold`); and the headers of a
  response decide as its handler has called (`HeadersAsCalled`). Without the
  first two, nothing is known of what `cookie` is given. `Longest` and
  `ExtractFinds` say what `extract` finds,
  `AppendDecides` that the header appended last decides. From it
  `CookiesAreWhatWasSet` follows, and step by step the refinement of SealedStore
  (`CookiesStaySealed`), for any names, paths, requests and clock.

Only model-checked: the liveness properties and the fairness part of
`PromiseKept`, for TLAPS proves nothing of ENABLED here. Every invariant and every
action property of the passing runs is proved.

## Not modelled

Statuses and `IntoResponse` (functions without state), the parsing of tokens by
the macros (compile time; what they parse is modelled), re-exports and examples;
logging; the `Content-Type` of a file, the wording and the classes of forms,
domain and `HttpOnly` of a cookie; what compressors, serde, encryption and hyper
do inside; several browsers, which share nothing but the key; a task that outlives its
connection after an upgrade.

## Plan

Done: server, routing and arguments, request body, multipart, response body,
static files, forms and their macro, cookies. What could be added:

1. *Exchange*: Server's request slot composed with Routing's outcome,
   RequestBody and Body, so that a panic in an argument, a handler and a body
   meet the shutdown; the abstract specification is one answer per request.
2. A submitted form read back: what Forms sends given to Multipart or to the
   form deserialiser, the value of the struct being what was meant.
3. Proofs: the refinement of Exchange.
