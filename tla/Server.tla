------------------------------- MODULE Server -------------------------------
(***************************************************************************)
(* A server from its options to its end, over several runs of its process: *)
(* the options are built and applied (options.go, NewServer in wish.go),   *)
(* the server listens, admits clients by what the options set up, and is   *)
(* shut down the way examples/graceful-shutdown does it.  The host key and *)
(* the authorized keys files outlive the process, which may crash at any   *)
(* time.                                                                   *)
(*                                                                         *)
(* Keys are numbers.  Options that set one field to a value nothing here   *)
(* depends on (address, version, banner, timeouts, subsystem, middleware)  *)
(* are one kind, "field".                                                  *)
(***************************************************************************)
EXTENDS Sequences, SequencesExt, Integers, FiniteSets

CONSTANTS Configs,     \* the arguments of NewServer, sequences of options
          Credentials, \* what clients try to log in with
          Files,       \* contents of the authorized keys file: what ReadLine returns
          MaxStarts,   \* runs of the process
          MaxSessions, \* clients logged in at a time
          MaxEdits     \* changes to the authorized keys file

HostPaths == {"host", "id_ed25519"}

PublicKeyOptions == {"authorized", "ca", "pubkey"}

AuthOptions == PublicKeyOptions \cup {"password", "keyboard"}

ASSUME ConfigsAssumption ==
    \A c \in Configs : /\ c \in Seq(Range(c))
                       /\ \A i \in DOMAIN c : /\ c[i].opt \in {"field", "hostkey"} \cup AuthOptions
                                              /\ c[i].opt = "hostkey" => c[i].about \in HostPaths

ASSUME CredentialsAssumption == \A c \in Credentials : c.method \in {"publickey", "password", "keyboard"}

ASSUME FilesAssumption == \A f \in Files : f.there \in BOOLEAN /\ f.lines \in Seq(Range(f.lines))

VARIABLES config,      \* the options main gives NewServer
          phase,       \* main: where the process is
          made,        \* how many of NewServer's arguments are evaluated, then applied
          srv,         \* the server NewServer returns
          done,        \* how many values main's channel holds
          listener,    \* the goroutine in ListenAndServe
          timedOut,    \* Shutdown's context is done
          sessions,    \* clients that are logged in
          hostFiles,   \* the key in each file: 0 for no file, -1 for half of one
          keysMade,    \* keys generated so far
          authFile,    \* the authorized keys file: [there, lines]
          edits,       \* changes to it so far
          starts,      \* runs of the process so far
          signalled,   \* history: main was told to stop
          login,       \* history: the last attempt to log in
          presented    \* history: the keys each file gave a listening server

process == <<made, srv, done, listener, timedOut, sessions>>
disk    == <<hostFiles, keysMade, authFile, edits>>
history == <<signalled, login, presented>>
vars    == <<config, phase, starts, process, disk, history>>


-----------------------------------------------------------------------------
(* Options *)

(* An option, what it is about, and the keys or answers its handler takes *)
Opt(name, about, takes) == [opt |-> name, about |-> about, takes |-> takes]

WithHostKeyPath(p) == Opt("hostkey", p, {})
WithAuthorizedKeys == Opt("authorized", "file", {})
WithTrustedUserCAKeys == Opt("ca", "file", {})
WithPublicKeyAuth(keys) == Opt("pubkey", "handler", keys)
WithPasswordAuth(pw) == Opt("password", "handler", {pw})
WithKeyboardInteractiveAuth(answer) == Opt("keyboard", "handler", {answer})
WithField(name) == Opt("field", name, {})

(* The arguments three of the examples give NewServer: their handlers take *)
(* the known users' keys (key 1 is Carlos's) or any ed25519 key (1 and 2), *)
(* one password, and one set of answers.                                   *)
MultiAuth == <<WithField("address"), WithHostKeyPath("host"), WithPublicKeyAuth({1}), WithPasswordAuth(7),
               WithKeyboardInteractiveAuth(5), WithField("middleware")>>

Identity == <<WithField("address"), WithHostKeyPath("host"), WithPublicKeyAuth({1, 2}),
              WithField("middleware")>>

GracefulShutdown == <<WithField("address"), WithHostKeyPath("host"), WithField("middleware")>>

NoServer == [ok |-> FALSE]

NoLogin == [c |-> [method |-> "none"], ok |-> FALSE]

NewSsh == [ok |-> TRUE, pubkey |-> WithField("none"), password |-> WithField("none"),
           keyboard |-> WithField("none"), signer |-> "none", key |-> 0]

(* Mutant: what is in the file is not parsed. *)
WithSignerUnparsed(s, p) == IF hostFiles[p] # 0 THEN [s EXCEPT !.signer = p, !.key = hostFiles[p]] ELSE NoServer

(* HostKeyFile *)
WithSigner(s, p) == IF hostFiles[p] > 0 THEN [s EXCEPT !.signer = p, !.key = hostFiles[p]] ELSE NoServer

(* An option applied to the server: one of each kind of handler, the last  *)
(* set counting, and one host key, since all are of one type.  The host    *)
(* key file must hold a key, the authorized keys file must be there.       *)
Apply(s, o) ==
    CASE o.opt = "hostkey" -> WithSigner(s, o.about)
      [] o.opt \in {"authorized", "ca"} -> IF authFile.there THEN [s EXCEPT !.pubkey = o] ELSE NoServer
      [] o.opt = "pubkey" -> [s EXCEPT !.pubkey = o]
      [] o.opt = "password" -> [s EXCEPT !.password = o]
      [] o.opt = "keyboard" -> [s EXCEPT !.keyboard = o]
      [] OTHER -> s

-----------------------------------------------------------------------------
(* isAuthorized *)

(* What rd.ReadLine returns is blank, a comment, a key, or something that  *)
(* does not parse (a comment that is indented is one).  It is a line, or,  *)
(* of a line that is longer than the reader's buffer, a piece: rest is     *)
(* whether more than blanks stand before it in its line.                   *)
Line(kind, key, rest) == [kind |-> kind, key |-> key, rest |-> rest]

(* Mutant: comments are parsed like any other line. *)
ParseComments(found, l, key) ==
    IF found # "searching" THEN found
    ELSE IF l.kind \in {"junk", "comment"} THEN "no"
    ELSE IF l.kind = "key" /\ l.key = key THEN "yes" ELSE found

(* What the search for a key comes to with one line or piece more: one     *)
(* that does not parse ends it.  isPrefix, which tells a piece from a      *)
(* line, is not looked at.                                                 *)
Parse(found, l, key) ==
    IF found # "searching" THEN found
    ELSE IF l.kind = "junk" THEN "no"
    ELSE IF l.kind = "key" /\ l.key = key THEN "yes" ELSE found

Search(lines, key) ==
    LET found[i \in 0..Len(lines)] ==
            IF i = 0 THEN "searching" ELSE Parse(found[i - 1], lines[i], key)
    IN  found[Len(lines)]

(* The file is read again for every attempt. *)
IsAuthorized(file, key) == file.there /\ Search(file.lines, key) = "yes"

(* The handlers' answers to a credential [method, key, ca, valid] *)
PublicKeyHandler(c) ==
    CASE srv.pubkey.opt = "authorized" -> IsAuthorized(authFile, c.key)
      [] srv.pubkey.opt = "ca" -> c.ca # 0 /\ IsAuthorized(authFile, c.ca) /\ c.valid
      [] OTHER -> c.key \in srv.pubkey.takes

Has(o) == o.opt # "field"

(* Package ssh: a method is offered when it has a handler, and a server    *)
(* without any lets everyone in.                                           *)
Admits(c) ==
    \/ ~ Has(srv.pubkey) /\ ~ Has(srv.password) /\ ~ Has(srv.keyboard)
    \/ c.method = "publickey" /\ Has(srv.pubkey) /\ PublicKeyHandler(c)
    \/ c.method = "password" /\ Has(srv.password) /\ c.key \in srv.password.takes
    \/ c.method = "keyboard" /\ Has(srv.keyboard) /\ c.key \in srv.keyboard.takes

-----------------------------------------------------------------------------
(* The process comes up *)

Init == /\ config \in Configs
        /\ phase = "down" /\ starts = 0
        /\ made = 0 /\ srv = NoServer /\ done = 0 /\ listener = "none" /\ timedOut = FALSE
        /\ sessions = {}
        /\ hostFiles = [p \in HostPaths |-> 0]
        /\ keysMade = 0
        /\ authFile \in Files /\ edits = 0
        /\ signalled = FALSE /\ login = NoLogin
        /\ presented = [p \in HostPaths |-> {}]

Goto(from, to) == phase = from /\ phase' = to

Start == /\ Goto("down", "options")
         /\ starts < MaxStarts
         /\ starts' = starts + 1
         /\ made' = 0 /\ srv' = NoServer /\ done' = 0 /\ listener' = "none" /\ timedOut' = FALSE
         /\ sessions' = {}
         /\ UNCHANGED <<config, disk, history>>

(* The process ends, at any time and however: its clients are gone. *)
Dies == /\ phase' = "down"
        /\ sessions' = {}
        /\ listener' = "none"
        /\ signalled' = FALSE /\ login' = NoLogin
        /\ UNCHANGED <<config, starts, made, srv, done, timedOut, disk, presented>>

Crash == phase # "down" /\ Dies

(* Mutant: a host key is generated whether or not there is one. *)
NeedsKeyAlways(p) == TRUE

(* os.IsNotExist: the file is not there *)
NeedsKey(p) == hostFiles[p] = 0

Option == config[made + 1]

(* WithHostKeyPath generates a key when it is called, before NewServer is. *)
BuildsKey == /\ made < Len(config) /\ Option.opt = "hostkey"
             /\ NeedsKey(Option.about)

(* keygen.New with WithWrite creates the file and then writes the key. *)
CreateKeyFile(p) == /\ hostFiles' = [hostFiles EXCEPT ![p] = -1]
                    /\ UNCHANGED <<config, starts, process, keysMade, authFile, edits, history>>

WriteKeyFile(p) == /\ hostFiles' = [hostFiles EXCEPT ![p] = keysMade + 1]
                   /\ keysMade' = keysMade + 1

GenerateKey == /\ Goto("options", "generating") /\ BuildsKey
               /\ CreateKeyFile(Option.about)

KeyGenerated == /\ Goto("generating", "options")
                /\ WriteKeyFile(Option.about)
                /\ made' = made + 1
                /\ UNCHANGED <<config, starts, srv, done, listener, timedOut, sessions, authFile, edits,
                               history>>

(* The option returned fails when it is applied: there still is no file.   *)
GenerateFails == /\ phase = "options" /\ BuildsKey
                 /\ made' = made + 1
                 /\ UNCHANGED <<config, phase, starts, srv, done, listener, timedOut, sessions, disk,
                                history>>

BuildOption == /\ phase = "options" /\ made < Len(config) /\ ~ BuildsKey
               /\ made' = made + 1
               /\ UNCHANGED <<config, phase, starts, srv, done, listener, timedOut, sessions, disk,
                              history>>

(* NewServer is called with the options made; *)
NewServer == /\ Goto("options", "apply") /\ made = Len(config)
             /\ made' = 0
             /\ srv' = NewSsh
             /\ UNCHANGED <<config, starts, done, listener, timedOut, sessions, disk, history>>

(* they are applied in order, up to one that fails, *)
SetOption == /\ phase = "apply" /\ made < Len(config)
             /\ srv' = Apply(srv, Option)
             /\ made' = made + 1
             /\ phase' = IF srv'.ok THEN "apply" ELSE "built"
             /\ UNCHANGED <<config, starts, done, listener, timedOut, sessions, disk, history>>

(* and a server without a host key gets one of its own. *)
OptionsSet == /\ phase = "apply" /\ made = Len(config)
              /\ phase' = IF srv.signer = "none" THEN "default" ELSE "built"
              /\ UNCHANGED <<config, starts, process, disk, history>>

DefaultKey == "id_ed25519"

(* keygen.New reads the key that is there. *)
ReadDefaultKey == /\ Goto("default", "built") /\ ~ NeedsKey(DefaultKey)
                  /\ srv' = WithSigner(srv, DefaultKey)
                  /\ UNCHANGED <<config, starts, made, done, listener, timedOut, sessions, disk, history>>

MakeDefaultKey == /\ Goto("default", "making") /\ NeedsKey(DefaultKey)
                  /\ CreateKeyFile(DefaultKey)

DefaultKeyMade == /\ Goto("making", "built")
                  /\ WriteKeyFile(DefaultKey)
                  /\ srv' = [srv EXCEPT !.signer = DefaultKey, !.key = keysMade + 1]
                  /\ UNCHANGED <<config, starts, made, done, listener, timedOut, sessions, authFile,
                                 edits, history>>

DefaultKeyFails == /\ Goto("default", "built") /\ NeedsKey(DefaultKey)
                   /\ srv' = NoServer
                   /\ UNCHANGED <<config, starts, made, done, listener, timedOut, sessions, disk, history>>

-----------------------------------------------------------------------------
(* main, once it has a server *)

(* signal.Notify, and the goroutine; an error of NewServer is only logged. *)
Notify == /\ Goto("built", "notified")
          /\ listener' = "starting"
          /\ UNCHANGED <<config, starts, made, srv, done, timedOut, sessions, disk, history>>

Wait == /\ Goto("notified", "waiting")
        /\ UNCHANGED <<config, starts, process, disk, history>>

(* Without a server ListenAndServe panics, in a goroutine of its own. *)
ListenPanics == listener = "starting" /\ ~ srv.ok /\ Dies

Listen == /\ listener = "starting" /\ srv.ok
          /\ listener' = "up"
          /\ presented' = [presented EXCEPT ![srv.signer] = @ \cup {srv.key}]
          /\ UNCHANGED <<config, phase, starts, made, srv, done, timedOut, sessions, disk, signalled,
                         login>>

(* Any error but ErrServerClosed: main is told, when its channel has room. *)
ListenFails == /\ listener \in {"starting", "up"} /\ srv.ok
               /\ listener' = "failed"
               /\ UNCHANGED <<config, phase, starts, made, srv, done, timedOut, sessions, disk, history>>

(* Mutant: the channel is not buffered. *)
RoomUnbuffered == IF phase = "waiting" THEN 1 ELSE 0

(* make(chan os.Signal, 1) *)
Room == 1

TellMain == /\ listener = "failed" /\ done < Room
            /\ listener' = "ended"
            /\ done' = done + 1
            /\ UNCHANGED <<config, phase, starts, made, srv, timedOut, sessions, disk, history>>

(* Package signal does not wait for room in the channel. *)
Signal == /\ phase \in {"notified", "waiting", "stopping"} /\ ~ signalled
          /\ done' = IF done < Room THEN done + 1 ELSE done
          /\ signalled' = TRUE
          /\ UNCHANGED <<config, phase, starts, made, srv, listener, timedOut, sessions, disk, login,
                         presented>>

(* <-done, and Shutdown, which closes the listener *)
Stop == /\ Goto("waiting", "stopping") /\ done > 0
        /\ done' = done - 1
        /\ listener' = IF listener = "up" THEN "ended" ELSE listener
        /\ UNCHANGED <<config, starts, made, srv, timedOut, sessions, disk, history>>

(* context.WithTimeout *)
Timeout == /\ phase = "stopping" /\ ~ timedOut
           /\ timedOut' = TRUE
           /\ UNCHANGED <<config, phase, starts, made, srv, done, listener, sessions, disk, history>>

(* Shutdown waits for the connections, or for its context; main returns. *)
ShutdownReturns == phase = "stopping" /\ (sessions = {} \/ timedOut) /\ Dies

-----------------------------------------------------------------------------
(* Clients, and whoever keeps the authorized keys file *)

Login(c) == /\ listener = "up" /\ Cardinality(sessions) < MaxSessions
            /\ login' = [c |-> c, ok |-> Admits(c), file |-> authFile]
            /\ sessions' = IF Admits(c) THEN sessions \cup {c} ELSE sessions
            /\ UNCHANGED <<config, phase, starts, made, srv, done, listener, timedOut, disk, signalled,
                           presented>>

Leave(c) == /\ c \in sessions
            /\ sessions' = sessions \ {c}
            /\ UNCHANGED <<config, phase, starts, made, srv, done, listener, timedOut, disk, history>>

Edit == /\ edits < MaxEdits
        /\ authFile' \in Files
        /\ edits' = edits + 1
        /\ UNCHANGED <<config, phase, starts, process, hostFiles, keysMade, history>>

Main == \/ GenerateKey \/ KeyGenerated \/ BuildOption
        \/ NewServer \/ SetOption \/ OptionsSet
        \/ ReadDefaultKey \/ MakeDefaultKey \/ DefaultKeyMade
        \/ Notify \/ Wait \/ Stop \/ ShutdownReturns

Next == \/ Start \/ Crash \/ Main \/ GenerateFails \/ DefaultKeyFails
        \/ ListenPanics \/ Listen \/ ListenFails \/ TellMain \/ Signal \/ Timeout
        \/ \E c \in Credentials : Login(c) \/ Leave(c)
        \/ Edit

(* main goes on when it can, the goroutine gets its message through, and   *)
(* the 30 seconds pass.  Clients need not leave.                           *)
Spec == Init /\ [][Next]_vars /\ WF_vars(Main) /\ WF_vars(TellMain) /\ WF_vars(Timeout)

-----------------------------------------------------------------------------
(* Properties *)

(* The values the variables take.  A server that listens has a host key,   *)
(* and what main's channel holds is at most one value.                     *)
TypeOK == /\ phase \in {"down", "options", "generating", "apply", "default", "making", "built", "notified",
                         "waiting", "stopping"}
          /\ made \in 0..Len(config)
          /\ done \in 0..1
          /\ listener \in {"none", "starting", "up", "failed", "ended"}
          /\ listener = "up" => srv.ok /\ srv.signer \in HostPaths /\ srv.key \in 1..keysMade
          /\ \A p \in HostPaths : hostFiles[p] \in -1..keysMade
          /\ sessions # {} => phase \in {"notified", "waiting", "stopping"}

(* The keys an authorized keys file holds for isAuthorized, and those that *)
(* its lines list: what follows a comment in its line is part of it.       *)
KeysRead(file) == {file.lines[i].key : i \in {n \in DOMAIN file.lines : file.lines[n].kind = "key"}}

KeysListed(file) ==
    {file.lines[i].key : i \in {n \in DOMAIN file.lines : file.lines[n].kind = "key" /\ ~ file.lines[n].rest}}

(* What an option means, given the keys of the file: the key is in the     *)
(* authorized keys file, the certificate is valid and its authority is in  *)
(* the file, or the handler's own test.                                    *)
Satisfies(c, o, file, keys) ==
    CASE o.opt = "authorized" -> file.there /\ c.key \in keys
      [] o.opt = "ca" -> c.ca # 0 /\ c.valid /\ file.there /\ c.ca \in keys
      [] OTHER -> c.key \in o.takes

MethodOf(o) == IF o.opt \in PublicKeyOptions THEN "publickey" ELSE o.opt

Auth == {o \in Range(config) : o.opt \in AuthOptions}

Asked == {o \in Auth : MethodOf(o) = login.c.method}

Fit(keys) == {o \in Asked : Satisfies(login.c, o, login.file, keys)}

Parses(file) == \A i \in DOMAIN file.lines : file.lines[i].kind # "junk"

(* Who is let in satisfies one of the options for the method he used, by   *)
(* the authorized keys file as it is at that time and as it is read, long  *)
(* lines in pieces, or there is no such option at all ("By default this    *)
(* server will accept all incoming connections").  Who satisfies all those *)
(* for his method is let in, if there is one and all of the file parses.   *)
Admission ==
    login # NoLogin =>
      /\ login.ok => Auth = {} \/ Fit(KeysRead(login.file)) # {}
      /\ Auth = {} \/ (Asked # {} /\ Fit(KeysListed(login.file)) = Asked /\ Parses(login.file)) => login.ok

(* The same by what the lines of the file list ("WithAuthorizedKeys allows *)
(* the use of an SSH authorized_keys file to allowlist users", and a line  *)
(* that begins with "#" is skipped): nobody is let in by a key that is     *)
(* only mentioned in a comment.                                            *)
AllowList == login # NoLogin /\ login.ok => Auth = {} \/ Fit(KeysListed(login.file)) # {}

(* The clients of a server see one host key for ever: neither a restart,   *)
(* nor a crash while the key is written, nor an option that fails makes a  *)
(* file give a server another key than it gave one before ("A new SSH key  *)
(* pair of type ed25519 will be created if one does not exist").           *)
HostKeyStable == \A p \in HostPaths : Cardinality(presented[p]) <= 1

(* Told to stop, by a signal at any time after signal.Notify or by the     *)
(* listener's failure, the process ends, however many clients stay         *)
(* ("After the timeout, it shuts down anyway").                            *)
ShutsDown == (signalled \/ listener = "failed") ~> (phase = "down")
=============================================================================
