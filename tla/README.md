# A TLA+ verification of wish

wish is a Go library for SSH servers: a server is a chain of middlewares, and
the middlewares it ships serve Git repositories, copy files with scp, run Bubble
Tea programs, limit rates, restrict access, log and recover from panics. This
directory holds TLA+ models of it, TLC configurations that check them on small
instances, and TLAPS proofs for every instance. `PROJECT.json` is the index: the
lines each definition models, the runs, the mutants that show that a property
can fail, the findings, the hazards and the theorems.

    tlc -workers 2 -config MCGitServer_serve.cfg MCGitServer    # a run
    tlapm GitServerProofs.tla                                   # the proofs

## The system

Every session has a goroutine of its own and runs the server's handler once. The
handlers share what the middlewares keep between sessions: the rate limiter's
cache, the repositories and files on disk, and the process itself.

| Component | State | Operations | What is hard | What makes it correct |
|---|---|---|---|---|
| Middleware chain (`options.go`, `wish.go`, `recover`, `accesscontrol`, `activeterm`, `logging`, `comment`, `elapsed`) | the call stack of each session, its exit status | call and return of handlers, refusals, panics | reverse order of registration; panics through handlers that have work left; recover runs two things | order, gates that hold, contained panics, one exit status |
| Rate limiter (`ratelimiter`) | LRU cache of token buckets | `Allow` | lookup, test and insertion are separate steps of racing sessions; eviction | bound on each bucket, isolation of sources |
| scp, file system handler (`scp/filesystem.go`) | a root, the disk | `prefixed` and its callers | the same path is resolved again and again; roots at the edge | confinement, stability of resolution |
| scp, copy from the client (`scp/copy_from_client.go`, `limit_reader.go`) | `path`, `mtime`, `atime`, the open file, the stream | T, C, D, E lines, data, NULs | a client that hangs up or lies anywhere; failing calls; sizes wider than int | complete files, both ends in step, no deadlock |
| scp, commands and copy to the client (`scp/scp.go`, `copy_to_client.go`, `fs.go`) | the entry tree, open files, closers | parse, glob, walk, append, write | prefix search for parents, files that change, errors with files open | the tree sent is the tree asked for, files are closed |
| Git (`git`) | a repository: path, HEAD, branches | receive-pack with creation and default branch, upload-pack | three to six processes per push, racing with those of other sessions | access control, a repository that can be cloned, no lost pushes |
| Authentication and options (`options.go`, `wish.go`) | the server's fields, host key and authorized keys files | options, `NewServer`, `isAuthorized` | bad and long lines in a key file, options that replace each other, crashes while a key is written | who satisfies an option is let in, one host key for ever |
| Bubble Tea (`bubbletea`) | program, window goroutine, context | run, resize, quit, suspend | three goroutines that end in any order | the session ends, no goroutine stays |
| Commands (`cmd.go`) | three handles, a process | `Run` | a client that is gone, an input that is no file | the process ends with its session |
| Examples | programs listed, messages under way, main's channel | chat, ticker, exec, shutdown | sends between event loops, signals at any time | chat is delivered, a server told to stop ends |
| Test sessions | | | | not modelled |

Interactions: the chain calls the Git, scp, rate limiting and Bubble Tea
handlers as its middlewares; scp's protocol code calls a `Handler`, here the file
system's or the one for an `fs.FS`; Git and `wish.Cmd` run processes whose input
and output are the session; the chat example's programs send to each other; a
server's restarts meet in the files it keeps.

## Modules

| Module | Models | Notes |
|---|---|---|
| `Middleware` | the chain | a stack machine per session |
| `TokenGate` | what `ratelimiter` promises | abstract, no cache and no tokens |
| `RateLimiter` | `ratelimiter.go` | cache and buckets are external parts; implements `TokenGate` |
| `ScpPaths` | `prefixed` and `path/filepath` | operators only, used by the next two |
| `ScpSource` | an scp command and a copy to the client, with both handlers | |
| `ScpSink` | a copy from the client, with the file system handler and a client | composes wire, client, server, disk |
| `GitServer` | `git.go` | git and go-git are external parts |
| `BubbleTea` | `bubbletea`, `cmd.go` | the program and the process are external parts |
| `TeaApps` | five example applications | composes with `BubbleTea` and gives the specification |
| `Server` | `options.go`, `wish.go`, the shutdown of the examples | the process over crashes and restarts |
| `MC...` | instances for TLC | |
| `...Proofs` | theorems | `RateLimiterProofs`, `ScpPathsProofs` (lemmas only), `ScpSinkProofs`, `ScpSourceProofs`, `GitServerProofs`, `ServerProofs`, `MiddlewareProofs`, `TeaAppsProofs` |

**Middleware.** A handler is a frame: where its middleware is in the chain and how
far the handler got. `Outermost` and `Inner` are the loop `h = m(h)` of
`WithMiddleware` and of `recover`. `Pass` and `Deny` are the three gates (the rate
limiter may answer either way), `Logging`, `Comment`, `Elapsed` the handlers with
something to write afterwards, `GuardChain` and `GuardNext` recover's two guards,
`AppIn`/`AppOut`/`Panic` any handler of an application: it may answer 0, 1 or nothing
before and after it runs the next one (`git.Fatal` and the `Fatal` helpers of scp and
Bubble Tea are the answer 1), may not run it, and may panic; other statuses are as 1, and
one that answers and then panics is two applications, one around the other. A panic drops
frames down to a running guard, or ends the process. `Exit` sends the first answer and
no other. `trace` is history: what ran, in order, and the exit status each event asked for.

**RateLimiter.** One action per call that takes a mutex: `CacheHit`/`CacheMiss`
(`cache.Get`), `LimiterAllow` (a cached limiter), `NewLimiterAllow` (a fresh one,
seen by nobody else yet), `CacheAdd`, then `Serve` or `Refuse`. Time is a counter,
tokens are counted in units so that rates are fractions of a token. A bucket is
named by the session that made it. `ImplementsGate` is the refinement: under the
mapping `Verdict` (what a session at each program counter has been told), every
step of `Allow` is a step of `TokenGate` or a stutter, and who asks is answered.
`TokenGate` has no tokens: it grants exactly when the grants, the new one included,
stay within burst and rate in every window, so the refinement says both that the
bucket never gives too much and that it never refuses without need.

**ScpPaths, ScpSource.** A path is a sequence of components and a flag;
`Clean`, `Join`, `Dir` and `Rel` compute on it what `path/filepath` does.
`Prefixed` is `fileSystemHandler.prefixed` with both of its prefix tests.
`GetInfo` reads the command, `Middleware` chooses what becomes of it. `Glob`
resolves and matches the path, `OpenMatch` opens a match, `WalkDir` and the
`Visit` actions walk one, each resolving what the step before gave it; a call that fails has looked at what it
resolved as well (`Looked`), and `touched` has it. `Place` is
the search of `RootEntry.Append` and `DirEntry.Append` for the directory that takes
a new entry, with the string prefix test of line 163 (`StartsWith` says which names
begin with which). The `Write` actions send the tree. `Received` is a reference
receiver: it reads what was sent the way an scp client does, and `Expected` says
what the client asked for in terms of the files alone, a directory being sent without a
length. A call may fail, the client
may go away, and someone else may write to a file that is open (`Resize`).

**ScpSink.** `wire` holds lines, data units and NULs in order. Reading a line takes
everything up to its end, so data in front of a header spoils it; reading data
takes whatever unit comes, headers included. `ReadFile` is handleNewFile up to
`os.OpenFile`, `LimitedRead` one read of the limit reader, `CopyDone`/`CopyFails`
the end of `io.Copy` with close and chtimes, `Trailer` the byte after a file.
`ToInt` is Go's conversion of an int64 to an int of a smaller width. The clients:
`lockstep` waits for each NUL as scp does, `free` sends anything at any time; both
may hang up at any point, in the way that gives EOF or in the way that gives an
error. Every call of the operating system may fail.

**GitServer.** One action per call that looks at or changes the repository, so the
sessions' calls interleave. `PlainInit` is three steps, the directories, the look at
HEAD and the write of it, and what another session did after the look is overwritten.
`listed` is history: who has listed the branches since HEAD was last initialised.
`UpdateRefs` is what receive-pack may do: add to a branch, delete a branch that is
not HEAD's, or reject. `RenameBranch` is `git branch -M`. Any command may fail, a
cancelled context included.

**BubbleTea, TeaApps.** A session has its handler (`pc`), its window goroutine
(`win`), its program (`prog`) and perhaps a command (`cmd`). The program's channel
is unbuffered, so what is modelled is the line of senders waiting at it (`line`):
Go serves them in order, and a `Send` to a program that is over returns at once.
`TakeOwn` is the program's own handling of quit and suspend behind the filter of
`MakeOptions`; a suspended program stops the process. `WindowDone` and
`WindowChange` are the two cases of the select; when the window channel is closed
the second is always ready. `Stdin` is the choice of `Cmd.Run` when all handles are set
(by `tea.Exec`) or none is, `WaitReturns` what
`os/exec` waits for: with an input that is no file, one more read of it. `TeaApps`
adds the handlers and models of `examples/bubbletea`, `bubbletea-exec`,
`bubbleteaprogram`, `multichat` and `exec`: `Arrive` is a `go p.Send`, the append
to the list of programs is a read and a write that race, `Tick` the goroutine that
sends the time for ever.

**Server.** `config` is the list of NewServer's arguments. `BuildOption` and
`GenerateKey`/`KeyGenerated` evaluate them, which is when `WithHostKeyPath` makes a
key (creation and writing of the file are two steps); `SetOption` applies
them one at a time to the server `NewServer` made, up to one that fails, and
`OptionsSet` and the `DefaultKey` actions are its own key. `Search` is the loop of
`isAuthorized` over the lines of the file: `Parse` is what a line does to it. A line that
is longer than `bufio`'s buffer is several in the model, as it is for `ReadLine`: its pieces
may be blank, comments, keys or nothing that parses, and `rest` marks those in front of
which there is more of the same line. `Login` is an attempt with one credential, `Edit` a change of the
authorized keys file. `Notify`, `Wait`, `Stop`, `ShutdownReturns` are main of
`examples/graceful-shutdown`, which the other examples share; `TellMain` is its
goroutine's `done <- nil`, `Signal` a delivery that is dropped when the channel is
full. `Crash` may come at any time; files stay.

## Runs

| Run | Instance | Shows |
|---|---|---|
| `chain_order` | one session, all chains of up to 2 of 9 middlewares and of 3 of 6 with a gate or a logger among them, applications that answer anything, two commands, with and without a terminal | order and nesting, gates, exit status, what panics skip, recover's next handler, when the process ends, sessions end under a recover |
| `rl_limits` | three sessions, two ports of one TCP address and another network, a cache of one entry (maxEntries 0), rate 2/3, clock to 2 | no bucket exceeds burst and accrual in any window; sources isolated, buckets kept until evicted or replaced; `Allow` implements `TokenGate`, with every refusal necessary and every call answered |
| `scp_copy` | both handlers and none, absolute, relative and bare roots, all paths of up to 4 components from `a ab . ..`, three wildcards, with and without -r, odd commands, three trees | nothing outside the root is looked at, found or not; Glob finds what was asked for, only bare roots refuse; the tree received is the tree asked for (directories told apart, root not relative); files closed however it ends, and open until they are sent |
| `sink_lockstep` | a protocol client, 6 messages, 2 names and a bad one, sizes 1 and 9 (wider than int), times 0 and 1 | in step, one answer per message, own times, below the target, no mutual waiting, hang-ups end the session |
| `sink_free` | any client, 4 messages, sizes 0, 1, 9 (wider than int), 11 (not an int64), target above the root | acknowledged files complete, nothing half written, confinement |
| `git_serve` | two sessions, three branches, all commands and access levels, deletions, path absent, partial, plain or a repository | access control; HEAD resolves once a push is reported that listed the branches after the last initialisation; a HEAD that resolves dangles only by a late initialisation |
| `tea_sessions` | four applications, two sessions in the chat room and one elsewhere, no, emulated and allocated terminals, 2 keys, 1 window change | types and the lines of senders; sessions end; chat is delivered |
| `server_runs` | seven sets of options (three of examples), seven credentials, seven key files, two of them with a long line, 2 starts, 1 edit, 1 client at a time | who is let in, one host key per file, shutdown |

The bounds are chosen so that each interesting case occurs: three middlewares put
something outside, something inside and a recover between them; two sessions of
one source and one of another race on a cache that must evict; four components
climb out of every root and back in; six messages hold a directory, a file with
times and its end; the trees have a directory in a directory, a directory beside
one whose name it begins with, and a file beside one; one window change and a
closed channel keep the select busy while the context is done; two keys are a line
of chat and a quit, or a command and a key for it; two starts are a key made and a
key found, or half made and found; two pushes interleave at every command (any number of them is
the subject of the theorems). Sessions of `Middleware` share nothing but the process, so
one is enough: `HandlerEnds` is about panics of the session itself, and those of the others,
which could only end the process, are the subject of `Contained`, proved for any number of
sessions. In the chains of three, logging stands for comment and elapsed, and the
rate limiter, which answers either way, for activeterm; the two commands are an allowed and
a forbidden one, since a session without one passes as an allowed one does. The bounds are `MaxTime`,
`MaxSends`, `MaxNames`, `MaxKeys`, `MaxResizes`, `MaxStarts`, `MaxSessions`, `MaxEdits` and the sizes of the constant sets;
`MaxInt64 = 10` and `MaxInt = 3` stand for the widths of the integer types.

Deadlock checking is off in all of them: sessions end, and a client may wait or
stop sending for ever.

### Findings

Four runs expect a violation: they check what a comment or a test says.

- `rl_race`: sessions of one address that miss the cache together get a full burst
  each, although the limiter "permits bursts of at most burst tokens" per address.
- `scp_relative_root`: with a relative root `a`, the entry `a/a/b` found by Glob is
  opened as `a/b`.
- `scp_prefix`: with directories `a` and `ab` side by side, `ab/f` is sent inside `a`:
  the search for the parent takes the first directory whose path the parent's path
  starts with, as a string ("Append the given entry to a child directory, or the root
  entry itself if none matches"). `TreeSentApart` shows that nothing else goes wrong.
- `git_kept`: `git branch -M` acts on the HEAD of the moment, not on the one that
  `r.Head()` saw; a push in between costs the commits of the first branch.

Other behaviours of the code that the models show and that are worth knowing:

- With a root that is cleaned to `..`, or ends in it, `prefixed` takes a path that climbs further
  for one below the root (the hypothesis of the theorem `Confinement`).
- With the root `.` or `/`, `prefixed` refuses every path below the root: no cleaned
  path starts with `./` or `//` (the exception in `Resolution`).
- A panic that a recover outside `logging` stops skips the disconnect line, which is
  not deferred (`LeftUnlessCrossed` says exactly when).
- `EnsureRepo` returns nil for a directory that is no repository, and for one that
  another session's `PlainInit` has not finished or has left behind, which its comment
  excludes; the push then fails in `receive-pack`.
- After a push deleted a branch, `ensureDefaultBranch` of another session may make
  HEAD name it, and report its push (the condition of `DefaultBranchSet`).
- Copied as a whole (`.`), an `fs.FS` loses its structure: the entry `.` takes the files
  at the top, but its path is no string prefix of any other, so what is deeper goes
  beside it (the last exception of `TreeSentApart`).
- The data of a file are sent to its end whatever size was announced: a file that grows
  or shrinks after it was opened puts the client out of step, and nothing tells it.
- `copyToClient` opens every file of a recursive copy before it sends the first.
- The window channel is closed with the session's requests. From then on the select
  receives zero sizes without waiting, and sends them to the program, until it chooses
  the context: it spins, and ends because the choice is random.
- A command run by `tea.Exec` in a session with an emulated terminal gets the session
  as its input, which is no file: when the command has ended, `Wait` returns only after
  the client's next key, or the end of the session.
- The comment at `cmd.go:83` says that a partial set of handles "keeps the default
  session/PTY wiring"; without a terminal each handle that is set is used.
- In the chat room two sessions that connect together may lose one of them from the
  list, which is never shortened either, and two lines may be shown in different orders
  in different sessions (each `go p.Send` gets to the channel when it does).
- `examples/bubbleteaprogram`'s goroutine never ends, and its handler, having ended the
  session with `Fatalln`, goes on to the next handler.
- A crash between the creation and the writing of a host key leaves a file that no later
  start can use: the server does not come up, and does not make another key
  (`HostKeyStable` holds because of it). An error of `NewServer` is only logged by the
  examples, whose goroutine then panics on the missing server.
- A line longer than `bufio`'s buffer in an authorized keys file is read in pieces, and each
  piece is handled as a line. When the rest of a long comment is a key, that key is let in
  although no line lists it: `Admission` speaks of the keys that are read (`KeysRead`), and
  `OnlyListedAdmitted` says that such pieces are the only exception to what the lines list.
  When the rest does not parse it ends the search, as an indented comment does, and keys
  after it are not let in.
- With two first pushes to one path, a session whose `PlainInit` found no HEAD writes one after
  the other session's push (of `dev`) was taken, made the default branch and reported: HEAD
  names a `master` that is not there, until the next push is reported. `DefaultBranchSet`
  and `HeadStays` show that nothing but such an initialisation does this (deletions aside).
- A gate passed to `recover.Middleware` does not guard the handlers after the recover,
  which run whatever the wrapped chain did (`NextAfterRecover`).

## Fairness

Each specification assumes weak fairness of the steps of each goroutine (Go's
scheduler runs every runnable goroutine; calls of the operating system and git
commands return) and, in two places, something more that the code justifies:

- `TeaApps`: strong fairness of the window goroutine's choice of `<-ctx.Done()`. Go's
  select chooses among the ready cases at random, so a case that is ready again and
  again is chosen; weak fairness would let the closed window channel win for ever. The
  order of the line of senders is that of Go's channels. A process whose context is done
  is killed.
- `Server`: the 30 seconds of Shutdown's context pass.

Clients need not connect, send, read, press keys, leave or hang up, commands need not
end by themselves, and neither clock nor ticker need tick. `SessionEnds` therefore
speaks of clients that hung up and handlers that returned, `Answered` (scp) of a
client that waits, and `ShutsDown` holds with clients that stay. Handlers of
applications are taken to return or panic.

## Proofs

Proved for every value of the constants, under the named `ASSUME`s only (TLC
evaluates them in every run of the module). The further hypotheses are one about the root of the scp
handler, in `Confinement`, `SourceConfinement` and `FindsWhatWasAsked`, those of
`SendsWhatWasAsked`, and one about long lines in `OnlyListedAdmitted`, all below.

- `RateLimiterProofs`: `TypeCorrect`, `BurstsBounded`, `CacheCorrect`, `Isolation`,
  `NoFreshBurst`.
  `BucketBound` compares all pairs of grants, and says nothing of the tokens that
  remain, so it is not inductive. The invariant adds a ledger for each bucket: for
  every past grant, what was spent since plus what is left is at most a full bucket
  plus the accrual since. Isolation needs that a key found in the cache leads to a
  bucket made for that key, and that a fresh bucket is held by its maker only.
  `NoFreshBurst` speaks of sessions that are done; what is kept (`Kept`, `Settled`) is
  that a key that was never lost is in the cache, with the bucket of every session that
  was served from it, and that a session whose predecessors are done finds it there.
- `RateLimiterProofs`, second part: `GateImplemented`, the safety part of the refinement of
  `TokenGate` (initial states and steps). The ledger shows that a grant is within the
  bound; that a refusal is needed takes its other half, `Exact`: a bucket is full, or
  from some grant on nothing that accrued was lost to the cap.
- `ScpSinkProofs`: `SinkTypeCorrect`, `AckedFilesComplete`, `NoPartialFiles`, for any
  client and any widths of the integers. The invariant adds that the only file that
  is not delivered is the one being written, and that past the comparison of sizes it
  has the announced length. `StaysInSync`, `OneAnswerEach` and `TimesKept` follow from
  `LockInv`, which says for each phase of a client that follows the protocol what is on
  the wire, where the server may be, and how many answers are on their way; for the data
  of a file it says that what was sent, what is on the wire and what was read add up.
- `ScpPathsProofs` and `ScpSinkProofs`, on paths: `Confinement` and `StaysBelowTarget`,
  for names, roots, targets and copies of any length. `Clean` is a recursive function over
  the components; what it computes is characterised by `Normal` (no empty component and
  no `.`, and `..` only at the start of a relative path), and a clean path cleaned again
  is itself. So the safe path never climbs and what is joined to the root stays in it.
  `Confinement` assumes `Named(Root)`: the last component of the cleaned root is not
  `..`. For a root `..` it does not hold, since a path `../../x` begins with `../`
  and `prefixed` takes it for one below the root. `StaysBelowTarget` needs to know where
  the server's path is: `FollowInv` says that it is the target with as many names
  appended as directories are entered.
- `ScpSourceProofs`: `SourceTypeCorrect`, `FilesGetClosed`, `SourceConfinement`,
  `FindsWhatWasAsked`, `SendsWhatWasAsked`, for every command, both handlers, and trees of any
  size. An open file
  has its closer registered (`Closing`), so whichever call fails, `Return` closes it. `Place`
  goes down the tree by a recursive function on the indices of entries; that it ends in a
  directory appended earlier (`Placed`) is an induction from the last entry to the root. For
  confinement, of looks that fail as of those that find something, what `prefixed` returns is resolved again by each method, so the lemmas about
  `Clean` of `ScpPathsProofs` are used at each step; a walk of an `fs.FS` resolves nothing,
  and `Visiting` says that it only ever meets names. `SourceConfinement` assumes of the root
  what `Confinement` does, and that it does not end in `*`: the handler globs a root `*` as a
  pattern, and reads the directory above. `FindsWhatWasAsked` assumes only the latter. Its
  core is `AskedPlace`: whatever the path, the place looked at has below the root the names
  that `Asked` reads off the command. `Keep` filters a sequence by a set where one would
  write `SelectSeq`, into whose definition the provers cannot look.
- `SendsWhatWasAsked`, the same module: the client of a copy that ended well has exactly the
  files it asked for, each in its own directory. It is stated under what `TreeSentApart` asks
  for, that directories side by side are told apart by their string prefixes, that the root is
  not relative, and that it is not the whole of an `fs.FS` (and, as above, that the root does not
  end in `*`); without the first the run
  `scp_prefix` violates it. Its invariant `TreeInv` has one part for each phase:
  - while calls are left, `Gathered`: every entry is that of a file that is wanted, at its
    location, and a child of the first entry of its directory (`EntriesOf`), and every file
    that is wanted has an entry or lies at or below what a call leads to (`Ahead`). A step of
    the walk swaps a call for an entry and the calls of what is in the directory
    (`StepGathers`). Two things make this hold: resolving what Glob or the walk returned gives
    the location it came from (`ResolvedLoc`, `LocatedLoc`), and `Place` finds the first entry
    of the directory (`PlaceCanonical`), because by `SearchStep` the search goes down one name
    at a time: what is a string prefix and no path prefix would be one of two directories that
    `Distinguishable` excludes;
  - while the tree is written, `Sent`: the receiver has just the entries written so far, each
    under its path (`Item`), it is in the directory of each entry when that entry's turn comes
    (`Leaves`), and an entry that is not written is next or in a directory that is not written
    (`Left`). So when nothing is left to write, the least entry not written would have a parent
    not written before it, and there is none (`NothingLeft`);
  - at the end, what was received is `Expected` (`SentAll`).

  Nothing is assumed of the tree but `TreesAssumption`: names are names, the root is a
  directory, and what something is in is a directory too. The receiver, `Reading`, is a recursive
  function over the messages; `AfterAppend` says that a message more is read where the
  receiver was.
- `GitServerProofs`: `GitTypeCorrect`, `AccessControlled`, `DefaultBranchExists`,
  `HeadNeverDangles`. For access control the invariant remembers that a session past
  the check has the access its command needs. For the default branch it says that
  while HEAD dangles, the branch each running `ensureDefaultBranch` has chosen still
  exists: renames remove a branch only when HEAD names it. An initialisation that is late makes
  HEAD dangle with nobody there to repair it, so the invariant speaks of the sessions in
  `listed`, which have listed the branches since. A deletion breaks it too, and
  the invariant and the property hold until the first one; `HeadNeverDangles` holds
  with deletions, and excepts the late initialisation (`LateInit`).
- `ServerProofs`: `ServerTypeCorrect`, `OneHostKey`, `OnlyReadAdmitted`, `OnlyListedAdmitted`, for any
  options, files and number of runs. `HostKeyStable` speaks of the keys clients have seen and not of files, so
  the invariant adds that the key of a server is the one its file holds, that every
  key a file ever presented is the one it still holds, and that a file without a key
  has presented none; and where the process is tells what it has (a file half written
  while a key is made, a server while options are applied). A crash leaves the files
  alone, and a key is only ever written to a file that holds none. `OnlyReadAdmitted`
  needs to know what handlers a server has: `Equipped` says that after n options each
  handler is one of those of its method among the first n, or none when there are none;
  and `SearchFinds`, by induction over the lines, that the search answers yes only for keys
  that it reads, and for all of them when every line parses. `OnlyListedAdmitted` follows
  for files in which no rest of a long line is a key; without that hypothesis it is false.
- `MiddlewareProofs`: every invariant of the chain (`TypesOfChain`, `RunLastFirst`,
  `GatesHoldAlways`, `PanicsContained`, `StatusAlwaysTells`, `RecoverPassesOn`,
  `LeftOnce`), for chains of any length, recovers with chains of any length in them, and
  any number of sessions. They speak of what ran, and the steps look at the stack;
  `ChainInv` ties the two: a stack holds exactly the handlers outside its innermost one
  that have not ended (`StackOK`); what its handlers are still to run (`Rest`) has not
  run yet (`Fresh`), and what they ran before is in the history (`Passed`); a handler
  with something to write afterwards is on the stack with no panic through it, or is gone
  and has written or been crossed (`Within`, `Leaves`). Each step either calls a
  handler, or returns from one, or unwinds to a recover or out of the process, and the
  invariant is shown for each of these. A handler that runs is never one that ran before,
  which is what makes "once" true. For `StatusAlwaysTells` the invariant has `Answer`: the
  status sent so far is that of the first event in the history that asked for one, and none
  is sent as long as there is no such event; an event appended is the first to answer only if
  none was before it (`AnswersAdded`).
- `TeaAppsProofs`: `AppsTypeCorrect`, for any applications, sessions and keys. That
  nobody queues twice for a program depends on where the goroutines are: one that is not
  sending has nothing in the line (`Waiting`), and the handler that starts one finds it
  not started yet, which follows from how far the handler is (`Stages`).

Only model-checked: all liveness (`HandlerEnds`, `Answered`, `SessionEnds`, those of `TeaApps`,
`ShutsDown` and the fairness of `TokenGate`), which is beyond the prover. Every invariant
that a passing run checks is the statement of a theorem. The induction theorems of the library cannot be used, but
an induction over numbers can be had from the least element of a set, as `NatSetInduction`
in `ScpPathsProofs` and `ByInduction` in `MiddlewareProofs` and `ServerProofs` do.

## Not modelled

Wording, formatting and logging; file modes, times finer than seconds and before the
epoch; Windows paths, terminals and processes; symbolic links, hard links and files
that are removed during a copy (opening them fails); wildcards other than `*` as a
whole last component; forced pushes; handles of a `wish.Cmd` that are set partly, which nothing in the repository
does; torn reads of a slice that another goroutine
writes (the append of the chat room is a read and a write of the whole); the SSH
library, Bubble Tea, `os/exec`, keygen, git and go-git, of which the models use what
the code relies on; the sftp handler of `examples/scp`, which is an interface of
another library; examples that only print, parse flags or forward ports; the test
helpers.

## Plan

Done: all modules of the first plan; the composition of `ScpSource` with `ScpSink`
turned out to add nothing that `Received` does not show, since the source never
reads what a client answers.

Open, should the code change or the provers grow: liveness theorems; symbolic links, which
would make confinement a matter of the file system and not of paths; and copying what
`Distinguishable` excludes, once `RootEntry.Append` compares paths by component: the theorem
would then lose that condition and `SearchStep` would not need it.
