---------------------------- MODULE ServerProofs ----------------------------
(***************************************************************************)
(* Proofs about Server, for any options, credentials, files and number of  *)
(* runs: its variables keep their types, no client ever sees a server      *)
(* change its host key, and who is let in is whom the options let in.      *)
(***************************************************************************)
EXTENDS Server, TLAPS, FiniteSetTheorems, NaturalsInduction

Phases == {"down", "options", "generating", "apply", "default", "making", "built", "notified",
           "waiting", "stopping"}

Serving == {"notified", "waiting", "stopping"}

AnyOption == (UNION {Range(c) : c \in Configs}) \cup {WithField("none")}

Built == [ok : {TRUE}, pubkey : AnyOption, password : AnyOption, keyboard : AnyOption,
          signer : {"none"} \cup HostPaths, key : Int]

Servers == [ok : {FALSE}] \cup Built

(* The types, with those of the variables that TypeOK leaves out *)
Typed == /\ config \in Configs
         /\ phase \in Phases
         /\ made \in 0..Len(config)
         /\ done \in 0..1
         /\ listener \in {"none", "starting", "up", "failed", "ended"}
         /\ srv \in Servers
         /\ keysMade \in Nat
         /\ hostFiles \in [HostPaths -> Int]
         /\ \A p \in HostPaths : hostFiles[p] \in -1..keysMade
         /\ presented \in [HostPaths -> SUBSET Int]

(* Where the process is tells what it has: a file half written while a key *)
(* is made, a server while options are applied, with a key at the end.     *)
InPhase == /\ phase = "generating" => /\ made < Len(config)
                                      /\ Option.opt = "hostkey"
                                      /\ hostFiles[Option.about] = -1
           /\ phase = "making" => hostFiles[DefaultKey] = -1
           /\ phase \in {"apply", "default", "making"} => srv.ok
           /\ phase \in {"built"} \cup Serving => (srv.ok => srv.signer # "none")
           /\ listener # "none" => phase \in Serving
           /\ listener = "up" => srv.ok
           /\ sessions # {} => phase \in Serving

(* A server's key is the one its file holds, *)
KeyHeld == srv.ok /\ srv.signer # "none" => /\ srv.key = hostFiles[srv.signer]
                                           /\ srv.key > 0

(* and so are all the keys the file ever gave one. *)
PresentedHeld == \A p \in HostPaths : /\ presented[p] \subseteq {hostFiles[p]}
                                      /\ hostFiles[p] <= 0 => presented[p] = {}

ServerInv == Typed /\ InPhase /\ KeyHeld /\ PresentedHeld

-----------------------------------------------------------------------------

(* An option of the configuration is one AnyOption has, and a host key     *)
(* option names one of the files.                                          *)
LEMMA OptionTyped ==
    ASSUME config \in Configs, made \in 0..Len(config), made < Len(config)
    PROVE /\ Option \in AnyOption
          /\ Option.opt = "hostkey" => Option.about \in HostPaths
<1>1. config \in Seq(Range(config))
  BY ConfigsAssumption
<1>2. made + 1 \in DOMAIN config
  BY <1>1
<1>3. Option \in Range(config)
  BY <1>2 DEF Option, Range
<1>4. Option.opt = "hostkey" => Option.about \in HostPaths
  BY <1>2, ConfigsAssumption DEF Option
<1> QED
  BY <1>3, <1>4 DEF AnyOption

(* The process begins without a server and without keys. *)
LEMMA InitInv == Init => ServerInv
<1> SUFFICES ASSUME Init PROVE ServerInv
  OBVIOUS
<1>1. config \in Seq(Range(config)) /\ config \in Configs
  BY ConfigsAssumption DEF Init
<1>2. Len(config) \in Nat
  BY <1>1
<1>3. Typed
  BY <1>1, <1>2 DEF Init, Typed, Phases, Servers, NoServer, HostPaths
<1>4. InPhase
  BY DEF Init, InPhase, Serving, NoServer
<1>5. KeyHeld /\ PresentedHeld
  BY DEF Init, KeyHeld, PresentedHeld, NoServer
<1> QED
  BY <1>3, <1>4, <1>5 DEF ServerInv

(* The steps that leave the server and the files as they are. *)
LEMMA OtherStep ==
    ASSUME ServerInv,
           \/ Wait \/ ListenFails \/ TellMain \/ Signal \/ Stop \/ Timeout \/ BuildOption \/ GenerateFails
           \/ Notify \/ Edit \/ OptionsSet \/ Crash \/ ListenPanics \/ ShutdownReturns
           \/ \E c \in Credentials : Login(c) \/ Leave(c)
    PROVE ServerInv'
<1> USE DEF ServerInv, Typed, InPhase, KeyHeld, PresentedHeld, Phases, Serving, Goto, process, disk, history,
            Option
<1>0. Len(config) \in Nat
  BY ConfigsAssumption
<1>1. CASE Wait \/ Notify \/ OptionsSet
  BY <1>0, <1>1 DEF Wait, Notify, OptionsSet
<1>2. CASE ListenFails \/ TellMain \/ Signal \/ Stop \/ Timeout
  BY <1>0, <1>2 DEF ListenFails, TellMain, Signal, Stop, Timeout, Room
<1>3. CASE BuildOption \/ GenerateFails
  BY <1>0, <1>3 DEF BuildOption, GenerateFails, BuildsKey
<1>4. CASE Edit
  BY <1>0, <1>4 DEF Edit
<1>5. CASE Crash \/ ListenPanics \/ ShutdownReturns
  BY <1>0, <1>5 DEF Crash, ListenPanics, ShutdownReturns, Dies
<1>6. ASSUME NEW c \in Credentials, Login(c) \/ Leave(c) PROVE ServerInv'
  BY <1>0, <1>6 DEF Login, Leave
<1> QED
  BY <1>1, <1>2, <1>3, <1>4, <1>5, <1>6

(* A start forgets the server of the last run. *)
LEMMA StartStep == ASSUME ServerInv, Start PROVE ServerInv'
<1>0. Len(config) \in Nat
  BY ConfigsAssumption DEF ServerInv, Typed
<1> QED
  BY <1>0 DEF ServerInv, Typed, InPhase, KeyHeld, PresentedHeld, Phases, Serving, Goto, disk, history,
              Start, NoServer, Servers

(* A key is made only where there is no file.  The file that is created    *)
(* gave no server a key yet, and so no server has one of it.               *)
LEMMA CreateStep == ASSUME ServerInv, GenerateKey \/ MakeDefaultKey PROVE ServerInv'
<1> USE DEF ServerInv, Goto, process, history, Option, CreateKeyFile, NeedsKey
<1>1. PICK p \in HostPaths : /\ hostFiles[p] = 0
                             /\ hostFiles' = [hostFiles EXCEPT ![p] = -1]
                             /\ phase' \in {"generating", "making"}
                             /\ phase' = "generating" => /\ phase = "options" /\ made < Len(config)
                                                         /\ Option.opt = "hostkey" /\ p = Option.about
                             /\ phase' = "making" => phase = "default" /\ p = DefaultKey
  BY OptionTyped DEF GenerateKey, MakeDefaultKey, BuildsKey, DefaultKey, HostPaths, Typed
<1>2. UNCHANGED <<config, starts, process, keysMade, authFile, edits, history>>
  BY DEF GenerateKey, MakeDefaultKey
<1>3. phase \notin Serving
  BY <1>1 DEF Serving, GenerateKey, MakeDefaultKey
<1>4. Typed'
  BY <1>1, <1>2 DEF Typed, Phases
<1>5. InPhase'
  BY <1>1, <1>2, <1>3 DEF InPhase, Typed, Serving
<1>6. KeyHeld'
  BY <1>1, <1>2 DEF KeyHeld, Typed, Servers, Built
<1>7. PresentedHeld'
  BY <1>1, <1>2 DEF PresentedHeld, Typed
<1> QED
  BY <1>4, <1>5, <1>6, <1>7

(* What is a server is built. *)
LEMMA OkBuilt == ASSUME NEW r \in Servers, r.ok PROVE r \in Built
<1>1. ASSUME r \in [ok : {FALSE}] PROVE FALSE
  <2>1. r.ok = FALSE
    BY <1>1
  <2> QED
    BY <2>1
<1> QED
  BY <1>1 DEF Servers

(* A server that is given the key of a file is a server with that key. *)
LEMMA SignerTyped ==
    ASSUME NEW p \in HostPaths, NEW k \in Int, NEW r \in Built
    PROVE /\ [r EXCEPT !.signer = p, !.key = k] \in Built
          /\ [r EXCEPT !.signer = p, !.key = k].ok
          /\ [r EXCEPT !.signer = p, !.key = k].signer = p
          /\ [r EXCEPT !.signer = p, !.key = k].key = k
BY DEF Built

(* The key is written where its file was created, which still gave none. *)
LEMMA WriteStep == ASSUME ServerInv, KeyGenerated \/ DefaultKeyMade PROVE ServerInv'
<1> USE DEF ServerInv, Goto, history, WriteKeyFile
<1>0. Len(config) \in Nat
  BY ConfigsAssumption DEF Typed
<1>1. CASE KeyGenerated
  <2>1. /\ Option.about \in HostPaths
        /\ made < Len(config) /\ hostFiles[Option.about] = -1
    BY <1>1, OptionTyped DEF KeyGenerated, InPhase, Typed
  <2> DEFINE p == Option.about
  <2>2. /\ phase = "generating" /\ phase' = "options" /\ made' = made + 1 /\ keysMade' = keysMade + 1
        /\ hostFiles' = [hostFiles EXCEPT ![p] = keysMade + 1]
        /\ UNCHANGED <<config, srv, done, listener, sessions, presented>>
    BY <1>1 DEF KeyGenerated
  <2> HIDE DEF p
  <2>3. p \in HostPaths /\ hostFiles[p] = -1
    BY <2>1 DEF p
  <2>4. Typed'
    BY <1>0, <2>1, <2>2, <2>3 DEF Typed, Phases
  <2>5. InPhase'
    BY <2>2 DEF InPhase, Serving
  <2>6. KeyHeld' /\ PresentedHeld'
    BY <2>2, <2>3 DEF KeyHeld, PresentedHeld, Typed, Servers, Built
  <2> QED
    BY <2>4, <2>5, <2>6
<1>2. CASE DefaultKeyMade
  <2>1. /\ phase = "making" /\ phase' = "built" /\ keysMade' = keysMade + 1
        /\ hostFiles' = [hostFiles EXCEPT ![DefaultKey] = keysMade + 1]
        /\ srv' = [srv EXCEPT !.signer = DefaultKey, !.key = keysMade + 1]
        /\ UNCHANGED <<config, made, done, listener, sessions, presented>>
    BY <1>2 DEF DefaultKeyMade
  <2>2. hostFiles[DefaultKey] = -1 /\ DefaultKey \in HostPaths /\ srv.ok /\ DefaultKey # "none"
    BY <2>1 DEF InPhase, DefaultKey, HostPaths
  <2>8. srv \in Built /\ keysMade + 1 \in Int
    BY <2>2, OkBuilt DEF Typed
  <2>3. srv' \in Servers /\ srv'.ok
    BY <2>1, <2>2, <2>8, SignerTyped DEF Servers
  <2>4. srv'.signer = DefaultKey /\ srv'.key = keysMade + 1
    BY <2>1, <2>2, <2>8, SignerTyped
  <2>7. Typed'
    BY <2>1, <2>2, <2>3 DEF Typed, Phases
  <2>5. InPhase'
    BY <2>1, <2>2, <2>4 DEF InPhase, Serving
  <2>6. KeyHeld' /\ PresentedHeld'
    BY <2>1, <2>2, <2>4 DEF KeyHeld, PresentedHeld, Typed
  <2> QED
    BY <2>5, <2>6, <2>7
<1> QED
  BY <1>1, <1>2

(* A server takes its key from a file that holds one. *)
LEMMA ApplyTyped ==
    ASSUME ServerInv, srv.ok, NEW o \in AnyOption,
           o.opt = "hostkey" => o.about \in HostPaths
    PROVE LET s == Apply(srv, o)
          IN  /\ s \in Servers
              /\ s.ok /\ s.signer # "none" => s.key = hostFiles[s.signer] /\ s.key > 0
<1>1. CASE o.opt = "hostkey"
  BY <1>1 DEF ServerInv, Typed, KeyHeld, Apply, WithSigner, Servers, Built, NoServer
<1>2. CASE o.opt \in {"authorized", "ca"}
  BY <1>2 DEF ServerInv, Typed, KeyHeld, Apply, Built, Servers, NoServer
<1>3. CASE o.opt = "pubkey"
  BY <1>3 DEF ServerInv, Typed, KeyHeld, Apply, Built, Servers
<1>4. CASE o.opt = "password"
  BY <1>4 DEF ServerInv, Typed, KeyHeld, Apply, Built, Servers
<1>5. CASE o.opt = "keyboard"
  BY <1>5 DEF ServerInv, Typed, KeyHeld, Apply, Built, Servers
<1>6. CASE o.opt \notin {"hostkey", "authorized", "ca", "pubkey", "password", "keyboard"}
  BY <1>6 DEF ServerInv, Typed, KeyHeld, Apply
<1> QED
  BY <1>1, <1>2, <1>3, <1>4, <1>5, <1>6

(* NewServer, its options, and the default key that is there or fails. *)
LEMMA NewServerStep ==
    ASSUME ServerInv, NewServer \/ SetOption \/ ReadDefaultKey \/ DefaultKeyFails
    PROVE ServerInv'
<1> USE DEF ServerInv, Goto, disk, history
<1>0. Len(config) \in Nat
  BY ConfigsAssumption DEF Typed
<1>1. CASE NewServer
  <2>0. WithField("none") \in AnyOption
    BY DEF AnyOption
  <2>a. NewSsh \in Built
    BY <2>0 DEF NewSsh, Built
  <2>b. NewSsh.ok /\ NewSsh.signer = "none"
    BY DEF NewSsh
  <2>1. srv' \in Servers /\ srv'.ok /\ srv'.signer = "none"
    BY <1>1, <2>a, <2>b DEF NewServer, Servers
  <2>2. Typed'
    BY <1>0, <1>1, <2>1 DEF NewServer, Typed, Phases
  <2> QED
    BY <1>1, <2>1, <2>2 DEF NewServer, InPhase, KeyHeld, PresentedHeld, Serving
<1>2. CASE SetOption
  <2>1. srv.ok /\ made < Len(config) /\ srv' = Apply(srv, Option)
    BY <1>2 DEF SetOption, InPhase
  <2>2. Option \in AnyOption /\ (Option.opt = "hostkey" => Option.about \in HostPaths)
    BY <2>1, OptionTyped DEF Typed
  <2>3. /\ srv' \in Servers
        /\ srv'.ok /\ srv'.signer # "none" => srv'.key = hostFiles[srv'.signer] /\ srv'.key > 0
    BY <2>1, <2>2, ApplyTyped
  <2>4. /\ phase = "apply" /\ phase' = IF srv'.ok THEN "apply" ELSE "built"
        /\ made' = made + 1
        /\ UNCHANGED <<config, done, listener, sessions, hostFiles, keysMade, presented>>
    BY <1>2 DEF SetOption
  <2>5. Typed'
    BY <1>0, <2>1, <2>3, <2>4 DEF Typed, Phases
  <2> QED
    BY <2>3, <2>4, <2>5 DEF InPhase, KeyHeld, PresentedHeld, Serving
<1>3. CASE ReadDefaultKey \/ DefaultKeyFails
  <2>0. DefaultKey \in HostPaths /\ srv \in Built /\ hostFiles[DefaultKey] \in Int
    BY <1>3, OkBuilt DEF ReadDefaultKey, DefaultKeyFails, Typed, DefaultKey, HostPaths, InPhase
  <2>a. \/ srv' = NoServer
        \/ /\ hostFiles[DefaultKey] > 0
           /\ srv' = [srv EXCEPT !.signer = DefaultKey, !.key = hostFiles[DefaultKey]]
    BY <1>3 DEF ReadDefaultKey, DefaultKeyFails, WithSigner
  <2>b. NoServer \in Servers /\ ~ NoServer.ok
    BY DEF NoServer, Servers
  <2> DEFINE k == hostFiles[DefaultKey]
             signed == [srv EXCEPT !.signer = DefaultKey, !.key = k]
  <2>c. signed \in Built /\ signed.signer = DefaultKey /\ signed.key = k
    <3> k \in Int
      BY <2>0
    <3> HIDE DEF k
    <3> QED
      BY <2>0 DEF Built
  <2>d. srv' = NoServer \/ (k > 0 /\ srv' = signed)
    BY <2>a
  <2> HIDE DEF signed
  <2>1. srv' \in Servers
    BY <2>b, <2>c, <2>d DEF Servers
  <2>2. srv'.ok => /\ srv'.signer = DefaultKey /\ srv'.key = hostFiles[DefaultKey] /\ srv'.key > 0
    BY <2>b, <2>c, <2>d
  <2>3. /\ phase = "default" /\ phase' = "built"
        /\ UNCHANGED <<config, made, done, listener, sessions, hostFiles, keysMade, presented>>
    BY <1>3 DEF ReadDefaultKey, DefaultKeyFails
  <2>4. Typed'
    BY <2>1, <2>3 DEF Typed, Phases
  <2> QED
    BY <2>2, <2>3, <2>4 DEF InPhase, KeyHeld, PresentedHeld, Serving, DefaultKey
<1> QED
  BY <1>1, <1>2, <1>3

(* A server that listens presents the key its file holds. *)
LEMMA ListenStep == ASSUME ServerInv, Listen PROVE ServerInv'
<1>1. /\ srv.ok /\ phase \in Serving /\ listener' = "up"
      /\ presented' = [presented EXCEPT ![srv.signer] = @ \cup {srv.key}]
      /\ UNCHANGED <<config, phase, made, srv, done, sessions, hostFiles, keysMade>>
  BY DEF Listen, ServerInv, InPhase, disk
<1>2. srv.signer \in HostPaths /\ srv.key = hostFiles[srv.signer] /\ srv.key > 0
  BY <1>1 DEF ServerInv, InPhase, KeyHeld, Typed, Servers, Built, Serving
<1>3. Typed'
  BY <1>1, <1>2 DEF ServerInv, Typed, Phases
<1>4. InPhase' /\ KeyHeld'
  BY <1>1 DEF ServerInv, InPhase, KeyHeld, Serving, Option
<1>5. PresentedHeld'
  BY <1>1, <1>2 DEF ServerInv, PresentedHeld, Typed
<1> QED
  BY <1>3, <1>4, <1>5 DEF ServerInv

(* The invariant is kept by every step. *)
LEMMA InvStep == ASSUME ServerInv, [Next]_vars PROVE ServerInv'
<1>1. CASE UNCHANGED vars
  BY <1>1 DEF ServerInv, Typed, InPhase, KeyHeld, PresentedHeld, Option, vars, process, disk, history
<1>2. CASE Next
  BY <1>2, OtherStep, StartStep, CreateStep, WriteStep, NewServerStep, ListenStep DEF Next, Main
<1> QED
  BY <1>1, <1>2

(* The inductive invariant holds of every behaviour of a server. *)
THEOREM Invariance == Spec => []ServerInv
<1> QED
  BY InitInv, InvStep, PTL DEF Spec

(* The variables of a server keep their types, and a server that listens   *)
(* has a host key, whatever the options, the crashes and the failures.     *)
THEOREM ServerTypeCorrect == Spec => []TypeOK
<1>1. ServerInv => TypeOK
  <2> SUFFICES ASSUME ServerInv PROVE TypeOK
    OBVIOUS
  <2>1. ASSUME listener = "up"
        PROVE srv.ok /\ srv.signer \in HostPaths /\ srv.key \in 1..keysMade
    <3>1. srv.ok /\ srv.signer # "none" /\ srv.key = hostFiles[srv.signer] /\ srv.key > 0
      BY <2>1 DEF ServerInv, InPhase, KeyHeld
    <3>2. srv.signer \in HostPaths
      BY <3>1 DEF ServerInv, Typed, Servers, Built
    <3> QED
      BY <3>1, <3>2 DEF ServerInv, Typed
  <2> QED
    BY <2>1 DEF ServerInv, Typed, InPhase, TypeOK, Phases, Serving
<1> QED
  BY <1>1, Invariance, PTL

(* No client ever sees a server of one host key file with another key than *)
(* before, over any number of runs, crashes and failed generations.        *)
THEOREM OneHostKey == Spec => []HostKeyStable
<1>1. ServerInv => HostKeyStable
  <2> SUFFICES ASSUME ServerInv, NEW p \in HostPaths PROVE Cardinality(presented[p]) <= 1
    BY DEF HostKeyStable
  <2>1. presented[p] = {} \/ presented[p] = {hostFiles[p]}
    BY DEF ServerInv, PresentedHeld
  <2>2. Cardinality({}) = 0 /\ Cardinality({hostFiles[p]}) = 1
    BY FS_EmptySet, FS_Singleton
  <2> QED
    BY <2>1, <2>2
<1> QED
  BY <1>1, Invariance, PTL
-----------------------------------------------------------------------------
(* Who is let in *)

(* A set of natural numbers has a least element. *)
LEMMA LeastNat ==
  ASSUME NEW T, T \subseteq Nat, T # {}
  PROVE  \E x \in T : \A y \in T : x <= y
  <1> DEFINE R == {ss \in Nat \X Nat : ss[1] < ss[2]}
  <1>1. IsWellFoundedOn(R, Nat)
    <2>1. R = OpToRel(<, Nat)
      BY DEF OpToRel
    <2> QED BY <2>1, NatLessThanWellFounded
  <1>2. PICK x \in T : \A y \in T : ~ (<<y, x>> \in R)
    <2> HIDE DEF R
    <2> QED BY <1>1, WFMin
  <1>3. \A y \in T : x <= y
    <2> SUFFICES ASSUME NEW y \in T, y < x PROVE FALSE
      BY <1>2
    <2>1. <<y, x>> \in R
      OBVIOUS
    <2> QED BY <1>2, <2>1
  <1> QED BY <1>3

(* Induction on the natural numbers. *)
LEMMA ByInduction ==
  ASSUME NEW S, 0 \in S, \A n \in Nat : n \in S => n + 1 \in S
  PROVE  Nat \subseteq S
  <1> DEFINE T == Nat \ S
  <1>1. SUFFICES ASSUME T # {} PROVE FALSE
    OBVIOUS
  <1>2. T \subseteq Nat
    OBVIOUS
  <1>3. PICK x \in T : \A y \in T : x <= y
    <2> HIDE DEF T
    <2> QED BY <1>1, <1>2, LeastNat
  <1>4. x # 0 /\ x - 1 \in Nat
    BY <1>3
  <1>5. x - 1 \in T
    BY <1>3, <1>4
  <1> QED BY <1>3, <1>4, <1>5

(* The search goes through the lines one after the other. *)
LEMMA SearchSteps ==
    ASSUME NEW S, NEW lines \in Seq(S), NEW key
    PROVE \E found : /\ Search(lines, key) = found[Len(lines)]
                     /\ found[0] = "searching"
                     /\ \A i \in 1..Len(lines) : found[i] = Parse(found[i - 1], lines[i], key)
<1> DEFINE n == Len(lines)
           Body(f, k) == [i \in 0..k |->
                            IF i = 0 THEN "searching" ELSE Parse(f[i - 1], lines[i], key)]
           Defined == {k \in Nat : \E f : f = Body(f, k)}
           F == CHOOSE f : f = Body(f, n)
<1>1. n \in Nat
  OBVIOUS
<1>2. 0 \in Defined
  <2>1. [i \in 0..0 |-> "searching"] = Body([i \in 0..0 |-> "searching"], 0)
    OBVIOUS
  <2> QED
    BY <2>1
<1>3. ASSUME NEW k \in Nat, k \in Defined PROVE k + 1 \in Defined
  <2>1. PICK f : f = Body(f, k)
    BY <1>3
  <2> DEFINE g == [i \in 0..(k + 1) |-> IF i <= k THEN f[i] ELSE Parse(f[k], lines[k + 1], key)]
  <2>2. \A i \in 0..k : f[i] = IF i = 0 THEN "searching" ELSE Parse(f[i - 1], lines[i], key)
    BY <2>1
  <2>3. ASSUME NEW i \in 0..(k + 1)
        PROVE g[i] = IF i = 0 THEN "searching" ELSE Parse(g[i - 1], lines[i], key)
    <3>1. g[i] = IF i <= k THEN f[i] ELSE Parse(f[k], lines[k + 1], key)
      OBVIOUS
    <3>2. i # 0 => i - 1 \in 0..(k + 1) /\ i - 1 <= k /\ g[i - 1] = f[i - 1]
      OBVIOUS
    <3>3. CASE i <= k
      BY <2>2, <3>1, <3>2, <3>3
    <3>4. CASE i = k + 1
      <4>1. i - 1 = k /\ i # 0 /\ ~ (i <= k)
        BY <3>4
      <4> HIDE DEF g
      <4> QED
        BY <3>1, <3>2, <3>4, <4>1
    <3> QED
      BY <3>3, <3>4
  <2>4. g = Body(g, k + 1) /\ k + 1 \in Nat
    BY <2>3
  <2> HIDE DEF g
  <2> QED
    BY <2>4
<1>4. n \in Defined
  <2> HIDE DEF Defined
  <2> QED
    BY <1>1, <1>2, <1>3, ByInduction
<1>5. F = Body(F, n)
  BY <1>4
<1>6. Search(lines, key) = F[n]
  BY DEF Search
<1> HIDE DEF F
<1>7. \A i \in 0..n : F[i] = IF i = 0 THEN "searching" ELSE Parse(F[i - 1], lines[i], key)
  BY <1>5
<1>8. F[0] = "searching" /\ \A i \in 1..n : F[i] = Parse(F[i - 1], lines[i], key)
  BY <1>1, <1>7
<1> QED
  BY <1>6, <1>8

(* It finds only keys that are in the file as it is read, and every key    *)
(* that is in one all of which parses.                                     *)
LEMMA SearchFinds ==
    ASSUME NEW f \in Files, NEW key
    PROVE /\ IsAuthorized(f, key) => f.there /\ key \in KeysRead(f)
          /\ f.there /\ key \in KeysRead(f) /\ Parses(f) => IsAuthorized(f, key)
<1> DEFINE s == f.lines
           n == Len(s)
           Match(i) == s[i].kind = "key" /\ s[i].key = key
           Fine == \A i \in 1..n : s[i].kind # "junk"
<1>1. s \in Seq(Range(s)) /\ DOMAIN s = 1..n /\ n \in Nat
  BY FilesAssumption
<1>2. PICK found : /\ Search(s, key) = found[n]
                   /\ found[0] = "searching"
                   /\ \A i \in 1..n : found[i] = Parse(found[i - 1], s[i], key)
  BY <1>1, SearchSteps
<1> DEFINE Holds(k) == /\ found[k] \in {"searching", "yes", "no"}
                       /\ found[k] = "yes" => \E i \in 1..k : Match(i)
                       /\ Fine => found[k] # "no"
                       /\ found[k] = "searching" => \A i \in 1..k : ~ Match(i)
           Good == {k \in Nat : k <= n => Holds(k)}
<1>3. 0 \in Good
  BY <1>2
<1>4. ASSUME NEW k \in Nat, k \in Good PROVE k + 1 \in Good
  <2> SUFFICES ASSUME k + 1 <= n PROVE Holds(k + 1)
    OBVIOUS
  <2>1. k + 1 \in 1..n /\ (k + 1) - 1 = k /\ k <= n
    BY <1>1
  <2>2. found[k + 1] = Parse(found[k], s[k + 1], key)
    BY <1>2, <2>1
  <2>3. Holds(k)
    BY <1>4, <2>1
  <2> DEFINE l == s[k + 1]
             a == found[k]
             b == found[k + 1]
  <2>5. b = Parse(a, l, key)
    BY <2>2
  <2>6. Fine => l.kind # "junk"
    BY <2>1
  <2>7. a \in {"searching", "yes", "no"}
    BY <2>3
  <2> HIDE DEF a, b, l
  <2>8. /\ b \in {"searching", "yes", "no"}
        /\ b = "yes" => a = "yes" \/ (l.kind = "key" /\ l.key = key)
        /\ b = "no" => a = "no" \/ l.kind = "junk"
        /\ b = "searching" => a = "searching" /\ ~ (l.kind = "key" /\ l.key = key)
    BY <2>5, <2>7 DEF Parse
  <2>9. \A i \in 1..(k + 1) : i \in 1..k \/ i = k + 1
    OBVIOUS
  <2> QED
    BY <2>3, <2>6, <2>8, <2>9 DEF a, b, l
<1>5. n \in Good
  <2> HIDE DEF Good
  <2> QED
    BY <1>1, <1>3, <1>4, ByInduction
<1>6. Holds(n)
  BY <1>1, <1>5
<1>7. key \in KeysRead(f) <=> \E i \in 1..n : Match(i)
  BY <1>1 DEF KeysRead
<1>8. Parses(f) <=> Fine
  BY <1>1 DEF Parses
<1>9. IsAuthorized(f, key) <=> f.there /\ found[n] = "yes"
  BY <1>2 DEF IsAuthorized
<1> HIDE DEF Fine, Match
<1> QED
  BY <1>1, <1>6, <1>7, <1>8, <1>9

(* The handler h of a method is one of the first n options for it, or      *)
(* there is none of these.                                                 *)
Takes(h, method, n) ==
    LET its == {i \in 1..n : config[i].opt \in AuthOptions /\ MethodOf(config[i]) = method}
    IN  IF its = {} THEN h = WithField("none") ELSE \E i \in its : h = config[i]

Handlers(n) == /\ Takes(srv.pubkey, "publickey", n)
               /\ Takes(srv.password, "password", n)
               /\ Takes(srv.keyboard, "keyboard", n)

(* A server that is being made has the handlers of the options applied so  *)
(* far, one that is made those of all of them.                             *)
Equipped == /\ phase = "apply" => Handlers(made)
            /\ phase \in {"default", "making"} => Handlers(Len(config))
            /\ phase \in {"built"} \cup Serving => (srv.ok => Handlers(Len(config)))

(* What is known of the last attempt to log in *)
LastLogin == Admission /\ (login # NoLogin => login.file \in Files)

AdmissionInv == ServerInv /\ authFile \in Files /\ Equipped /\ LastLogin

(* An option more. *)
LEMMA TakesMore ==
    ASSUME config \in Configs, made \in 0..Len(config), made < Len(config),
           NEW h, NEW method, Takes(h, method, made)
    PROVE Takes(IF Option.opt \in AuthOptions /\ MethodOf(Option) = method THEN Option ELSE h,
                method, made + 1)
<1> DEFINE its(n) == {i \in 1..n : config[i].opt \in AuthOptions /\ MethodOf(config[i]) = method}
           last == Option.opt \in AuthOptions /\ MethodOf(Option) = method
<1>1. made \in Nat /\ 1..(made + 1) = 1..made \cup {made + 1}
  BY ConfigsAssumption
<1>2. its(made + 1) = its(made) \cup (IF last THEN {made + 1} ELSE {})
  BY <1>1 DEF Option
<1>3. Option = config[made + 1]
  BY DEF Option
<1>4. IF its(made) = {} THEN h = WithField("none") ELSE \E i \in its(made) : h = config[i]
  BY DEF Takes
<1> HIDE DEF its, last
<1>5. LET x == IF last THEN Option ELSE h
      IN  IF its(made + 1) = {} THEN x = WithField("none") ELSE \E i \in its(made + 1) : x = config[i]
  BY <1>2, <1>3, <1>4
<1> QED
  BY <1>5 DEF Takes, its, last

(* An option that can be applied replaces the handler of its method.       *)
LEMMA ApplyHandlers ==
    ASSUME srv \in Built, NEW o, o.opt \in {"field", "hostkey"} \cup AuthOptions, Apply(srv, o).ok
    PROVE LET s == Apply(srv, o)
              For(m) == o.opt \in AuthOptions /\ MethodOf(o) = m
          IN  /\ s.pubkey = IF For("publickey") THEN o ELSE srv.pubkey
              /\ s.password = IF For("password") THEN o ELSE srv.password
              /\ s.keyboard = IF For("keyboard") THEN o ELSE srv.keyboard
<1> USE DEF Built, MethodOf, AuthOptions, PublicKeyOptions
<1>0. ~ NoServer.ok
  BY DEF NoServer
<1>1. CASE o.opt = "hostkey"
  BY <1>0, <1>1 DEF Apply, WithSigner
<1>2. CASE o.opt \in {"authorized", "ca"}
  BY <1>0, <1>2 DEF Apply
<1>3. CASE o.opt = "pubkey"
  BY <1>3 DEF Apply
<1>4. CASE o.opt = "password"
  BY <1>4 DEF Apply
<1>5. CASE o.opt = "keyboard"
  BY <1>5 DEF Apply
<1>6. CASE o.opt = "field"
  BY <1>6 DEF Apply
<1> QED
  BY <1>1, <1>2, <1>3, <1>4, <1>5, <1>6

(* The options that are for a method *)
AskedOf(method) == {o \in Range(config) : o.opt \in AuthOptions /\ MethodOf(o) = method}

(* With all the options applied, the handler of a method is one of those   *)
(* for it.                                                                 *)
LEMMA HandlerAsked ==
    ASSUME config \in Configs, NEW h, NEW method, Takes(h, method, Len(config))
    PROVE /\ AskedOf(method) = {} => ~ Has(h)
          /\ AskedOf(method) # {} => Has(h) /\ h \in AskedOf(method)
<1> DEFINE its == {i \in 1..Len(config) : config[i].opt \in AuthOptions /\ MethodOf(config[i]) = method}
<1>1. DOMAIN config = 1..Len(config)
  BY ConfigsAssumption
<1>2. AskedOf(method) = {config[i] : i \in its}
  BY <1>1 DEF AskedOf, Range
<1>3. IF its = {} THEN h = WithField("none") ELSE \E i \in its : h = config[i]
  BY DEF Takes
<1>4. WithField("none").opt = "field" /\ "field" \notin AuthOptions
  BY DEF WithField, Opt, AuthOptions, PublicKeyOptions
<1> HIDE DEF its
<1>5. CASE its = {}
  BY <1>2, <1>3, <1>4, <1>5 DEF Has
<1>6. CASE its # {}
  <2>1. h \in AskedOf(method) /\ AskedOf(method) # {}
    BY <1>2, <1>3, <1>6
  <2> QED
    BY <2>1, <1>4 DEF Has, AskedOf
<1> QED
  BY <1>5, <1>6

(* Every key that a file lists is one that is read.                        *)
LEMMA ListedIsRead == ASSUME NEW f PROVE KeysListed(f) \subseteq KeysRead(f)
  BY DEF KeysListed, KeysRead

(* A server with all its handlers lets in whom the options let in.         *)
LEMMA LoginAdmits ==
    ASSUME AdmissionInv, NEW c \in Credentials, Login(c)
    PROVE LastLogin'
<1> DEFINE auth  == {o \in Range(config) : o.opt \in AuthOptions}
           asked == AskedOf(c.method)
           Suits(o) == Satisfies(c, o, authFile, KeysRead(authFile))
           fit   == {o \in asked : Suits(o)}
<1>1. /\ config' = config /\ login' = [c |-> c, ok |-> Admits(c), file |-> authFile]
      /\ listener = "up"
  BY DEF Login
<1>2. config \in Configs /\ authFile \in Files /\ Handlers(Len(config))
  <2>1. phase \in Serving /\ srv.ok
    BY <1>1 DEF AdmissionInv, ServerInv, InPhase
  <2> QED
    BY <2>1 DEF AdmissionInv, ServerInv, Typed, Equipped
<1>3. /\ AskedOf("publickey") = {} => ~ Has(srv.pubkey)
      /\ AskedOf("publickey") # {} => Has(srv.pubkey) /\ srv.pubkey \in AskedOf("publickey")
  BY <1>2, HandlerAsked DEF Handlers
<1>4. /\ AskedOf("password") = {} => ~ Has(srv.password)
      /\ AskedOf("password") # {} => Has(srv.password) /\ srv.password \in AskedOf("password")
  BY <1>2, HandlerAsked DEF Handlers
<1>5. /\ AskedOf("keyboard") = {} => ~ Has(srv.keyboard)
      /\ AskedOf("keyboard") # {} => Has(srv.keyboard) /\ srv.keyboard \in AskedOf("keyboard")
  BY <1>2, HandlerAsked DEF Handlers
<1>6. c.method \in {"publickey", "password", "keyboard"}
  BY CredentialsAssumption
<1>7. auth = AskedOf("publickey") \cup AskedOf("password") \cup AskedOf("keyboard")
  BY DEF AskedOf, MethodOf, AuthOptions, PublicKeyOptions
<1>8. srv.pubkey \in AskedOf("publickey") =>
         /\ PublicKeyHandler(c) => Suits(srv.pubkey)
         /\ Suits(srv.pubkey) /\ Parses(authFile) => PublicKeyHandler(c)
  <2>1. ASSUME NEW key
        PROVE /\ IsAuthorized(authFile, key) => authFile.there /\ key \in KeysRead(authFile)
              /\ authFile.there /\ key \in KeysRead(authFile) /\ Parses(authFile) => IsAuthorized(authFile, key)
    BY <1>2, SearchFinds
  <2> QED
    BY <2>1 DEF PublicKeyHandler, Satisfies
<1>9. srv.password \in AskedOf("password") =>
         (c.key \in srv.password.takes <=> Suits(srv.password))
  BY DEF AskedOf, MethodOf, Satisfies, PublicKeyOptions
<1>10. srv.keyboard \in AskedOf("keyboard") =>
         (c.key \in srv.keyboard.takes <=> Suits(srv.keyboard))
  BY DEF AskedOf, MethodOf, Satisfies, PublicKeyOptions
<1> HIDE DEF auth, Suits
<1>11. Admits(c) => auth = {} \/ fit # {}
  BY <1>3, <1>4, <1>5, <1>7, <1>8, <1>9, <1>10 DEF Admits
<1>12. auth = {} \/ (asked # {} /\ (\A o \in asked : Suits(o)) /\ Parses(authFile)) => Admits(c)
  <2>1. CASE auth = {}
    BY <1>3, <1>4, <1>5, <1>7, <2>1 DEF Admits
  <2>2. ASSUME asked # {}, \A o \in asked : Suits(o), Parses(authFile) PROVE Admits(c)
    BY <1>3, <1>4, <1>5, <1>6, <1>8, <1>9, <1>10, <2>2 DEF Admits
  <2> QED
    BY <2>1, <2>2
<1>13. login'.c = c /\ login'.ok = Admits(c) /\ login'.file = authFile
  BY <1>1
<1>14. /\ Auth' = auth /\ Asked' = asked
       /\ Fit(KeysRead(login.file))' = fit
       /\ Fit(KeysListed(login.file))' \subseteq fit
  <2>1. Auth' = auth
    BY <1>1 DEF Auth, auth
  <2>2. Asked' = asked
    BY <1>1, <1>13 DEF Asked, Auth, AskedOf
  <2>3. /\ KeysRead(login.file)' = KeysRead(authFile)
        /\ KeysListed(login.file)' \subseteq KeysRead(authFile)
    BY <1>13, ListedIsRead
  <2> QED
    BY <1>13, <2>1, <2>2, <2>3 DEF Fit, Satisfies, Suits
<1>15. Parses(login.file)' <=> Parses(authFile)
  BY <1>13
<1>16. Admission'
  BY <1>11, <1>12, <1>13, <1>14, <1>15 DEF Admission
<1> QED
  BY <1>2, <1>13, <1>16 DEF LastLogin

(* The steps that are not about handlers: those that end up without a      *)
(* server, and those that change nothing that handlers depend on.          *)
LEMMA AdmissionKept ==
    ASSUME AdmissionInv, ServerInv', UNCHANGED config, authFile' \in Files,
           login' = login \/ login' = NoLogin,
           \/ phase' \in {"down", "options", "generating"}
           \/ phase' \in {"built"} \cup Serving /\ ~ srv'.ok
           \/ /\ srv'.pubkey = srv.pubkey /\ srv'.password = srv.password /\ srv'.keyboard = srv.keyboard
              /\ srv'.ok => srv.ok
              /\ \/ phase' = phase /\ (phase = "apply" => made' = made)
                 \/ phase = "apply" /\ made = Len(config) /\ phase' \in {"default", "built"}
                 \/ phase = "default" /\ phase' \in {"making", "built"}
                 \/ phase = "making" /\ phase' = "built"
                 \/ phase \in {"built"} \cup Serving /\ phase' \in {"built"} \cup Serving
    PROVE AdmissionInv'
<1>1. LastLogin'
  <2>1. CASE login' = login
    BY <2>1 DEF AdmissionInv, LastLogin, Admission, Fit, Asked, Auth
  <2>2. CASE login' = NoLogin
    BY <2>2 DEF LastLogin, Admission
  <2> QED
    BY <2>1, <2>2
<1>2. Equipped'
  <2>1. CASE phase' \in {"down", "options", "generating"} \/ (phase' \in {"built"} \cup Serving /\ ~ srv'.ok)
    BY <2>1 DEF Equipped, Serving
  <2>2. CASE /\ srv'.pubkey = srv.pubkey /\ srv'.password = srv.password /\ srv'.keyboard = srv.keyboard
             /\ srv'.ok => srv.ok
             /\ \/ phase' = phase /\ (phase = "apply" => made' = made)
                \/ phase = "apply" /\ made = Len(config) /\ phase' \in {"default", "built"}
                \/ phase = "default" /\ phase' \in {"making", "built"}
                \/ phase = "making" /\ phase' = "built"
                \/ phase \in {"built"} \cup Serving /\ phase' \in {"built"} \cup Serving
    <3>1. Handlers(Len(config)) => Handlers(Len(config))'
      BY <2>2 DEF Handlers, Takes
    <3>2. made' = made /\ Handlers(made) => Handlers(made)'
      BY <2>2 DEF Handlers, Takes
    <3>3. made = Len(config) /\ Handlers(made) => Handlers(Len(config))
      OBVIOUS
    <3> QED
      BY <2>2, <3>1, <3>2, <3>3 DEF AdmissionInv, Equipped, Serving
  <2> QED
    BY <2>1, <2>2
<1> QED
  BY <1>1, <1>2 DEF AdmissionInv

(* An option that is applied brings its handler. *)
LEMMA OptionEquips == ASSUME AdmissionInv, SetOption PROVE AdmissionInv'
<1>1. /\ phase = "apply" /\ made < Len(config) /\ made' = made + 1
      /\ srv' = Apply(srv, Option) /\ phase' = IF srv'.ok THEN "apply" ELSE "built"
      /\ UNCHANGED <<config, authFile, login>>
  BY DEF SetOption, Goto, disk, history
<1>2. ServerInv' /\ ServerInv
  BY InvStep DEF AdmissionInv, Next, Main
<1>3. CASE ~ srv'.ok
  BY <1>1, <1>2, <1>3, AdmissionKept DEF AdmissionInv
<1>4. CASE srv'.ok
  <2>1. config \in Configs /\ made \in 0..Len(config) /\ srv \in Built
    BY <1>1, <1>2, OkBuilt DEF ServerInv, Typed, InPhase
  <2>2. Option.opt \in {"field", "hostkey"} \cup AuthOptions
    <3>1. made + 1 \in DOMAIN config
      BY <1>1, <2>1, ConfigsAssumption
    <3> QED
      BY <2>1, <3>1, ConfigsAssumption DEF Option
  <2> DEFINE For(m) == Option.opt \in AuthOptions /\ MethodOf(Option) = m
  <2>3. /\ srv'.pubkey = IF For("publickey") THEN Option ELSE srv.pubkey
        /\ srv'.password = IF For("password") THEN Option ELSE srv.password
        /\ srv'.keyboard = IF For("keyboard") THEN Option ELSE srv.keyboard
    BY <1>1, <1>4, <2>1, <2>2, ApplyHandlers
  <2>4. Handlers(made)
    BY <1>1 DEF AdmissionInv, Equipped
  <2>5. /\ Takes(srv'.pubkey, "publickey", made + 1)
        /\ Takes(srv'.password, "password", made + 1)
        /\ Takes(srv'.keyboard, "keyboard", made + 1)
    BY <1>1, <2>1, <2>3, <2>4, TakesMore DEF Handlers
  <2>6. Handlers(made)'
    BY <1>1, <2>5 DEF Handlers, Takes
  <2>7. Equipped'
    BY <1>1, <1>4, <2>6 DEF Equipped, Serving
  <2>8. LastLogin'
    BY <1>1 DEF AdmissionInv, LastLogin, Admission, Fit, Asked, Auth
  <2> QED
    BY <1>1, <1>2, <2>7, <2>8 DEF AdmissionInv
<1> QED
  BY <1>3, <1>4

(* Every step keeps what is known of the handlers and of the last login.   *)
LEMMA AdmissionStep == ASSUME AdmissionInv, [Next]_vars PROVE AdmissionInv'
<1>1. ServerInv /\ ServerInv' /\ authFile \in Files
  BY InvStep DEF AdmissionInv
<1>2. CASE UNCHANGED vars
  BY <1>1, <1>2, AdmissionKept DEF vars, process, disk, history
<1>3. CASE Start \/ Crash \/ ListenPanics \/ ShutdownReturns \/ GenerateKey \/ KeyGenerated
            \/ BuildOption \/ GenerateFails
  <2>1. /\ phase' \in {"down", "options", "generating"} /\ UNCHANGED <<config, authFile>>
        /\ login' = login \/ login' = NoLogin
    BY <1>3 DEF Start, Crash, ListenPanics, ShutdownReturns, Dies, GenerateKey, KeyGenerated, CreateKeyFile,
                BuildOption, GenerateFails, Goto, disk, history
  <2> QED
    BY <1>1, <2>1, AdmissionKept
<1>4. CASE NewServer
  <2>1. /\ phase' = "apply" /\ made' = 0 /\ srv' = NewSsh /\ UNCHANGED <<config, authFile, login>>
    BY <1>4 DEF NewServer, Goto, disk, history
  <2>2. \A i \in 1..0 : FALSE
    OBVIOUS
  <2>3. NewSsh.pubkey = WithField("none") /\ NewSsh.password = WithField("none")
        /\ NewSsh.keyboard = WithField("none")
    BY DEF NewSsh
  <2>4. Handlers(made)'
    BY <2>1, <2>2, <2>3 DEF Handlers, Takes
  <2>5. Equipped'
    BY <2>1, <2>4 DEF Equipped, Serving
  <2>6. LastLogin'
    BY <2>1 DEF AdmissionInv, LastLogin, Admission, Fit, Asked, Auth
  <2> QED
    BY <1>1, <2>1, <2>5, <2>6 DEF AdmissionInv
<1>5. CASE OptionsSet
  <2>1. /\ phase = "apply" /\ made = Len(config) /\ phase' \in {"default", "built"}
        /\ UNCHANGED <<config, srv, authFile, login>>
    BY <1>5 DEF OptionsSet, process, disk, history
  <2> QED
    BY <1>1, <2>1, AdmissionKept
<1>6. CASE ReadDefaultKey \/ DefaultKeyFails
  <2>1. /\ phase = "default" /\ phase' = "built" /\ UNCHANGED <<config, authFile, login>>
        /\ srv' = NoServer \/ srv' = [srv EXCEPT !.signer = DefaultKey, !.key = hostFiles[DefaultKey]]
    BY <1>6 DEF ReadDefaultKey, DefaultKeyFails, WithSigner, Goto, disk, history
  <2>2. srv \in Built /\ srv.ok
    BY <1>1, <2>1, OkBuilt DEF ServerInv, Typed, InPhase
  <2>3. CASE srv' = NoServer
    BY <1>1, <2>1, <2>3, AdmissionKept DEF NoServer
  <2>4. CASE srv' = [srv EXCEPT !.signer = DefaultKey, !.key = hostFiles[DefaultKey]]
    <3>1. srv'.pubkey = srv.pubkey /\ srv'.password = srv.password /\ srv'.keyboard = srv.keyboard
      BY <2>2, <2>4 DEF Built
    <3> QED
      BY <1>1, <2>1, <2>2, <3>1, AdmissionKept
  <2> QED
    BY <2>1, <2>3, <2>4
<1>7. CASE MakeDefaultKey
  <2>1. phase = "default" /\ phase' = "making" /\ UNCHANGED <<config, srv, authFile, login>>
    BY <1>7 DEF MakeDefaultKey, CreateKeyFile, Goto, process, history
  <2> QED
    BY <1>1, <2>1, AdmissionKept
<1>8. CASE DefaultKeyMade
  <2>1. /\ phase = "making" /\ phase' = "built" /\ UNCHANGED <<config, authFile, login>>
        /\ srv' = [srv EXCEPT !.signer = DefaultKey, !.key = keysMade + 1]
    BY <1>8 DEF DefaultKeyMade, Goto, history
  <2>2. srv \in Built /\ srv.ok
    BY <1>1, <2>1, OkBuilt DEF ServerInv, Typed, InPhase
  <2>3. srv'.pubkey = srv.pubkey /\ srv'.password = srv.password /\ srv'.keyboard = srv.keyboard
    BY <2>1, <2>2 DEF Built
  <2> QED
    BY <1>1, <2>1, <2>2, <2>3, AdmissionKept
<1>9. CASE \/ Notify \/ Wait \/ Stop \/ Listen \/ ListenFails \/ TellMain \/ Signal \/ Timeout \/ Edit
           \/ \E c \in Credentials : Leave(c)
  <2>1. /\ UNCHANGED <<config, srv, made, login>> /\ authFile' \in Files
        /\ \/ phase' = phase
           \/ phase \in {"built"} \cup Serving /\ phase' \in {"built"} \cup Serving
    BY <1>1, <1>9 DEF Notify, Wait, Stop, Listen, ListenFails, TellMain, Signal, Timeout, Edit, Leave, Goto,
                      Serving, process, disk, history
  <2> QED
    BY <1>1, <2>1, AdmissionKept
<1>10. ASSUME NEW c \in Credentials, Login(c) PROVE AdmissionInv'
  <2>1. /\ UNCHANGED <<config, srv, made, phase, authFile>>
    BY <1>10 DEF Login, disk
  <2>2. Equipped'
    BY <2>1 DEF AdmissionInv, Equipped, Handlers, Takes, Serving
  <2> QED
    BY <1>1, <1>10, <2>1, <2>2, LoginAdmits DEF AdmissionInv
<1> QED
  BY <1>2, <1>3, <1>4, <1>5, <1>6, <1>7, <1>8, <1>9, <1>10, OptionEquips DEF Next, Main

(* What is known of the handlers and of the last login holds always. *)
LEMMA AdmissionAlways == Spec => []AdmissionInv
<1>1. Init => AdmissionInv
  <2> SUFFICES ASSUME Init PROVE AdmissionInv
    OBVIOUS
  <2>1. Equipped /\ LastLogin
    BY DEF Init, Equipped, Serving, LastLogin, Admission
  <2> QED
    BY <2>1, InitInv DEF AdmissionInv, Init
<1>2. AdmissionInv /\ [Next]_vars => AdmissionInv'
  BY AdmissionStep
<1> QED
  BY <1>1, <1>2, PTL DEF Spec

(* Who is let in satisfies an option for the method he used, by the key    *)
(* file of that moment as isAuthorized reads it, and who satisfies all     *)
(* there are is let in, for any options in any order and any files, with   *)
(* lines longer than the reader's buffer in them, crashes and restarts     *)
(* included (options.go: isAuthorized, WithAuthorizedKeys,                 *)
(* WithTrustedUserCAKeys).                                                 *)
THEOREM OnlyReadAdmitted == Spec => []Admission
<1>1. AdmissionInv => Admission
  BY DEF AdmissionInv, LastLogin
<1> QED
  BY <1>1, AdmissionAlways, PTL

(* Where no piece of a longer line is a key by itself, nobody is let in by *)
(* a key that the file does not list: the condition is just what isPrefix, *)
(* which isAuthorized does not look at, would make true of every file.     *)
THEOREM OnlyListedAdmitted ==
    ASSUME \A f \in Files : KeysRead(f) = KeysListed(f)
    PROVE  Spec => []AllowList
<1>1. AdmissionInv => AllowList
  BY DEF AdmissionInv, LastLogin, Admission, AllowList
<1> QED
  BY <1>1, AdmissionAlways, PTL
=============================================================================
