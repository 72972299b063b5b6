------------------------------ MODULE GitServer ------------------------------
(***************************************************************************)
(* git/git.go: the git middleware, serving sessions that push to or fetch  *)
(* from one repository.  Each session runs on a goroutine of its own and   *)
(* every git command is a process of its own, so the steps of gitPack,     *)
(* EnsureRepo and ensureDefaultBranch interleave between sessions.         *)
(*                                                                         *)
(* git and go-git are external, modelled by what the code here relies on:  *)
(*  - PlainInit makes the directories, looks whether HEAD exists, and then *)
(*    writes a HEAD that names master, in steps of which no lock is held   *)
(*    over two: what another session did since the look is overwritten;    *)
(*  - receive-pack adds the pushed commits to a branch, or deletes a       *)
(*    branch that is not the one HEAD names (receive.denyDeleteCurrent), or*)
(*    rejects the update, and succeeds in all three cases;                 *)
(*    no push is forced (a forced one drops what it replaces);             *)
(*  - "branch -M b" renames the branch HEAD names to b, in place of any    *)
(*    branch b there is, and makes HEAD name it; when the branch HEAD      *)
(*    names does not exist, only HEAD changes;                             *)
(*  - a command may fail, in particular when the client is gone and the    *)
(*    session's context is cancelled.                                      *)
(* go-git lists loose and packed references, so any branch may come first; *)
(* a branch is the set of sessions whose commits are on it.                *)
(***************************************************************************)
EXTENDS Naturals

CONSTANTS Sessions,
          Branches,   \* branch names
          Master,     \* the branch the HEAD of a new repository names
          Commands,   \* s.Command(): "receive", "upload", "deep" (a repo path
                      \* with more than one "/"), or "other"
          Levels,     \* what AuthRepo may answer, 0..3
          InitialDirs \* what may be at the repository's path at first

ASSUME BranchesAssumption == Master \in Branches

ASSUME CommandsAssumption == Commands \subseteq {"receive", "upload", "deep", "other"}

ASSUME LevelsAssumption == Levels \subseteq 0..3

ASSUME DirsAssumption == InitialDirs \subseteq {"absent", "plain", "partial", "repo"}

VARIABLES
    cmd,       \* each session's command
    branch,    \* the branch it pushes
    access,    \* gh.AuthRepo(repo, pk)
    pc,        \* where its handler is
    first,     \* ensureDefaultBranch's fb
    applied,   \* history: the sessions whose commits receive-pack took
    deleted,   \* history: the branches a push deleted
    listed,    \* history: the sessions that listed the branches since HEAD
               \* was last initialised
    dir,       \* what is at the repository's path
    head,      \* the branch HEAD names
    branches   \* refs/heads: the commits on each branch

vars == <<cmd, branch, access, pc, first, applied, deleted, listed, dir, head, branches>>

request == <<cmd, branch, access>>
repo == <<dir, head, branches>>
pushes == <<applied, deleted>>
history == <<pushes, listed>>

ReadOnlyAccess == 1
ReadWriteAccess == 2

NoBranch == "none"   \* the zero value of fb

-----------------------------------------------------------------------------

Init == /\ cmd \in [Sessions -> Commands]
        /\ branch \in [Sessions -> Branches]
        /\ access \in [Sessions -> Levels]
        /\ pc = [s \in Sessions |-> "start"]
        /\ first = [s \in Sessions |-> NoBranch]
        /\ applied = {}
        /\ deleted = {}
        /\ listed = {}
        /\ dir \in InitialDirs
        /\ head = Master
        /\ branches = [b \in {} |-> {}]

Goto(s, from, to) == pc[s] = from /\ pc' = [pc EXCEPT ![s] = to]

(* Fatal: the session ends with exit status 1. *)
Fatal(s, from) == Goto(s, from, "failed")

(* A command that is not a git command, or not of two words: sh(s). *)
PassOn(s) == /\ cmd[s] = "other"
             /\ Goto(s, "start", "passed")
             /\ UNCHANGED <<request, first, history, repo>>

(* Mutant: reading is enough to push. *)
MayServeReaders(s) == /\ cmd[s] \in {"receive", "upload"}
                      /\ access[s] >= ReadOnlyAccess

MayServe(s) == \/ cmd[s] = "receive" /\ access[s] >= ReadWriteAccess
               \/ cmd[s] = "upload" /\ access[s] >= ReadOnlyAccess

(* The repository's name and the access level are checked before anything  *)
(* is run: ErrInvalidRepo or ErrNotAuthed.                                 *)
Deny(s) == /\ cmd[s] # "other" /\ ~ MayServe(s)
           /\ Fatal(s, "start")
           /\ UNCHANGED <<request, first, history, repo>>

Admit(s) == /\ MayServe(s)
            /\ Goto(s, "start", cmd[s])
            /\ UNCHANGED <<request, first, history, repo>>

-----------------------------------------------------------------------------
(* git-upload-pack and git-upload-archive *)

UploadMissing(s) == /\ dir = "absent"
                    /\ Fatal(s, "upload")
                    /\ UNCHANGED <<request, first, history, repo>>

(* runGit(s, "", cmd, rp), then gh.Fetch *)
Upload(s) == /\ dir # "absent"
             /\ \/ dir = "repo" /\ Goto(s, "upload", "fetched")
                \/ Fatal(s, "upload")
             /\ UNCHANGED <<request, first, history, repo>>

-----------------------------------------------------------------------------
(* git-receive-pack: EnsureRepo, receive-pack, ensureDefaultBranch,        *)
(* update-server-info, and then gh.Push.                                   *)

(* fileExists(rp); the error of any of EnsureRepo's calls ends it. *)
EnsureRepo(s) == /\ \/ Goto(s, "receive", IF dir = "absent" THEN "init" ELSE "pack")
                    \/ Fatal(s, "receive")
                 /\ UNCHANGED <<request, first, history, repo>>

(* git.PlainInit(rp, true): the directories, *)
InitDirs(s) == /\ \/ Goto(s, "init", "init_look")
                     /\ dir' = IF dir = "absent" THEN "partial" ELSE dir
                  \/ Fatal(s, "init") /\ dir' = dir
               /\ UNCHANGED <<request, first, history, head, branches>>

(* the look at HEAD, ErrRepositoryAlreadyExists when there is one, *)
InitLooks(s) == /\ \/ dir # "repo" /\ Goto(s, "init_look", "init_head")
                   \/ Fatal(s, "init_look")
                /\ UNCHANGED <<request, first, history, repo>>

(* and HEAD, whatever became of the repository since. *)
InitHead(s) == /\ \/ /\ Goto(s, "init_head", "pack")
                     /\ dir' = "repo"
                     /\ head' = Master
                     /\ listed' = {}
                  \/ /\ Fatal(s, "init_head")
                     /\ UNCHANGED <<dir, head, listed>>
               /\ UNCHANGED <<request, first, pushes, branches>>

Added(s) == [b \in DOMAIN branches \cup {branch[s]} |->
               IF b # branch[s] THEN branches[b]
               ELSE IF b \in DOMAIN branches THEN branches[b] \cup {s} ELSE {s}]

Deleted(s) == [b \in DOMAIN branches \ {branch[s]} |-> branches[b]]

(* What receive-pack does to the references. *)
UpdateRefs(s) == \/ /\ dir = "repo"
                    /\ branches' = Added(s)
                    /\ applied' = applied \cup {s} /\ UNCHANGED <<deleted, listed>>
                 \/ /\ dir = "repo"
                    /\ branch[s] \in DOMAIN branches \ {head}
                    /\ branches' = Deleted(s)
                    /\ deleted' = deleted \cup {branch[s]} /\ UNCHANGED <<applied, listed>>
                 \/ UNCHANGED <<branches, history>>

(* runGit(s, "", "receive-pack", rp): a client that goes away before it    *)
(* ends may have its update taken and its session failed.                  *)
ReceivePack(s) == /\ \/ dir = "repo" /\ Goto(s, "pack", "list")
                     \/ Fatal(s, "pack")
                  /\ UpdateRefs(s)
                  /\ UNCHANGED <<request, first, dir, head>>

(* Mutant: the end of the list of branches is not looked for. *)
FirstBranchAny(s) == /\ \/ first' = first
                        \/ \E b \in DOMAIN branches : first' = [first EXCEPT ![s] = b]
                     /\ Goto(s, "list", "head")
                     /\ listed' = listed \cup {s}
                     /\ UNCHANGED <<request, pushes, repo>>

(* PlainOpen, Branches and brs.Next(): io.EOF when there is no branch *)
FirstBranch(s) == /\ \/ /\ \E b \in DOMAIN branches : first' = [first EXCEPT ![s] = b]
                        /\ Goto(s, "list", "head")
                        /\ listed' = listed \cup {s}
                     \/ Fatal(s, "list") /\ UNCHANGED <<first, listed>>
                  /\ UNCHANGED <<request, pushes, repo>>

(* Mutant: HEAD is taken to be right once there is a branch. *)
CheckHeadTrusting(s) == /\ Goto(s, "head", "info")
                        /\ UNCHANGED <<request, first, history, repo>>

(* r.Head(): ErrReferenceNotFound when the branch HEAD names is not there *)
CheckHead(s) == /\ \/ Goto(s, "head", IF head \in DOMAIN branches THEN "info" ELSE "rename")
                   \/ Fatal(s, "head")
                /\ UNCHANGED <<request, first, history, repo>>

Renamed(from, to) == [b \in (DOMAIN branches \ {from}) \cup {to} |->
                        IF b = to THEN branches[from] ELSE branches[b]]

(* Mutant: HEAD is made to name the branch, and the branch it named before *)
(* is deleted.                                                             *)
RenameBranchDropping(s) ==
    /\ \/ /\ Goto(s, "rename", "info")
          /\ head' = first[s]
          /\ branches' = [b \in DOMAIN branches \ {head} |-> branches[b]]
       \/ /\ Fatal(s, "rename")
          /\ UNCHANGED <<head, branches>>
    /\ UNCHANGED <<request, first, history, dir>>

(* runGit(s, repoPath, "branch", "-M", fb.Name().Short()) *)
RenameBranch(s) ==
    /\ \/ /\ Goto(s, "rename", "info")
          /\ head' = first[s]
          /\ branches' = IF head \in DOMAIN branches THEN Renamed(head, first[s]) ELSE branches
       \/ /\ Fatal(s, "rename")
          /\ UNCHANGED <<head, branches>>
    /\ UNCHANGED <<request, first, history, dir>>

(* runGit(s, rp, "update-server-info"), then gh.Push *)
ServerInfo(s) == /\ Goto(s, "info", "pushed") \/ Fatal(s, "info")
                 /\ UNCHANGED <<request, first, history, repo>>

Step(s) == \/ PassOn(s) \/ Deny(s) \/ Admit(s) \/ UploadMissing(s) \/ Upload(s)
           \/ EnsureRepo(s) \/ InitDirs(s) \/ InitLooks(s) \/ InitHead(s) \/ ReceivePack(s)
           \/ FirstBranch(s) \/ CheckHead(s) \/ RenameBranch(s) \/ ServerInfo(s)

Next == \E s \in Sessions : Step(s)

(* Goroutines run, and git commands end (the context of a session whose    *)
(* client is gone is cancelled).                                           *)
Spec == Init /\ [][Next]_vars /\ \A s \in Sessions : WF_vars(Step(s))

-----------------------------------------------------------------------------
(* Properties *)

Ends == {"passed", "failed", "fetched", "pushed"}

(* The values each variable takes. *)
TypeOK == /\ cmd \in [Sessions -> Commands]
          /\ branch \in [Sessions -> Branches]
          /\ access \in [Sessions -> Levels]
          /\ pc \in [Sessions -> {"start", "upload", "receive", "init", "init_look", "init_head", "pack",
                                  "list", "head", "rename", "info"} \cup Ends]
          /\ first \in [Sessions -> Branches \cup {NoBranch}]
          /\ applied \subseteq Sessions
          /\ deleted \subseteq Branches
          /\ listed \subseteq Sessions
          /\ dir \in {"absent", "plain", "partial", "repo"}
          /\ head \in Branches
          /\ DOMAIN branches \subseteq Branches
          /\ \A b \in DOMAIN branches : branches[b] \subseteq Sessions

(* Once a push was reported that listed the branches after HEAD was last   *)
(* initialised, the repository can be cloned: HEAD names a branch that     *)
(* exists, whatever other sessions are doing with the repository (what     *)
(* ensureDefaultBranch is for).  A push that deletes a branch ends the     *)
(* promise: ensureDefaultBranch may have chosen that one.                  *)
DefaultBranchSet ==
    (deleted = {} /\ \E s \in listed : pc[s] = "pushed") => head \in DOMAIN branches

(* Only what an authorised push brought is in the repository, and only a   *)
(* session that may write gets as far as running receive-pack ("Hooks      *)
(* implementation will be checked for access on a per repo basis").        *)
OnlyAuthorised == /\ \A b \in DOMAIN branches : \A s \in branches[b] :
                        cmd[s] = "receive" /\ access[s] >= 2
                  /\ \A s \in Sessions : pc[s] = "pushed" => cmd[s] = "receive" /\ access[s] >= 2
                  /\ \A s \in Sessions : pc[s] = "fetched" => cmd[s] = "upload" /\ access[s] >= 1

(* A repository that can be cloned stays so, but for an initialisation     *)
(* that writes HEAD when another session has made the repository since the *)
(* first of them looked: neither a rename that was decided on an older     *)
(* HEAD nor a deletion makes HEAD name a branch that is not there.         *)
LateInit == \E s \in Sessions : pc[s] = "init_head" /\ pc'[s] = "pack" /\ dir = "repo"

HeadStays == [][(head \in DOMAIN branches) => (LateInit \/ head' \in DOMAIN (branches'))]_vars

(* "Hooks.Push ... will be called on successful completion": the commits   *)
(* of a push that was taken and reported stay reachable from some branch,  *)
(* as long as nobody deleted one.                                          *)
PushKept == deleted = {} =>
    \A s \in applied : pc[s] = "pushed" => \E b \in DOMAIN branches : s \in branches[b]
=============================================================================
