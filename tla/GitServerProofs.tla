--------------------------- MODULE GitServerProofs ---------------------------
(***************************************************************************)
(* Proofs about GitServer, for any number of sessions and branches, any    *)
(* access levels and any state of the repository's path.                   *)
(***************************************************************************)
EXTENDS GitServer, TLAPS

(* Where a session may be that passed the access check of a push. *)
Pushing == {"receive", "init", "init_look", "init_head", "pack", "list", "head", "rename", "info", "pushed"}

(* Past the access check, a session has the access its command needs: the  *)
(* strengthening that makes OnlyAuthorised inductive.                      *)
Admitted == \A s \in Sessions :
              /\ pc[s] \in Pushing => cmd[s] = "receive" /\ access[s] >= ReadWriteAccess
              /\ pc[s] \in {"upload", "fetched"} => cmd[s] = "upload" /\ access[s] >= ReadOnlyAccess

(* Past the listing, ensureDefaultBranch has a branch to name. *)
Chosen == \A s \in Sessions : pc[s] \in {"head", "rename"} => first[s] \in Branches

(* There are no references before there is a repository. *)
Unborn == dir # "repo" => DOMAIN branches = {}

Inv == TypeOK /\ OnlyAuthorised /\ Admitted /\ Chosen /\ Unborn

(* Strings and the levels are what they are written as. *)
USE DEF ReadOnlyAccess, ReadWriteAccess

(* The types, for a step of one session. *)
LEMMA TypeStep ==
    ASSUME Inv, NEW s \in Sessions, Step(s)
    PROVE TypeOK'
<1> USE BranchesAssumption DEF Ends, request, repo, history, pushes, Goto, Fatal, NoBranch
<1>1. CASE PassOn(s) \/ Deny(s) \/ UploadMissing(s) \/ Upload(s) \/ EnsureRepo(s)
           \/ InitLooks(s) \/ CheckHead(s) \/ ServerInfo(s)
  BY <1>1 DEF Inv, TypeOK, PassOn, Deny, UploadMissing, Upload, EnsureRepo, InitLooks, CheckHead, ServerInfo
<1>2. CASE Admit(s)
  BY <1>2 DEF Inv, TypeOK, Admit, MayServe
<1>3. CASE InitDirs(s)
  BY <1>3 DEF Inv, TypeOK, InitDirs
<1>4. CASE InitHead(s)
  BY <1>4 DEF Inv, TypeOK, InitHead
<1>5. CASE ReceivePack(s)
  BY <1>5 DEF Inv, TypeOK, ReceivePack, UpdateRefs, Added, Deleted
<1>6. CASE FirstBranch(s)
  BY <1>6 DEF Inv, TypeOK, FirstBranch
<1>7. CASE RenameBranch(s)
  BY <1>7 DEF Inv, TypeOK, RenameBranch, Renamed, Chosen
<1> QED
  BY <1>1, <1>2, <1>3, <1>4, <1>5, <1>6, <1>7 DEF Step

(* The rest of the invariant, for a step of one session. *)
LEMMA InvStep ==
    ASSUME Inv, NEW s \in Sessions, Step(s)
    PROVE Inv'
<1> USE DEF Pushing, request, repo, history, pushes, Goto, Fatal
<1>0. TypeOK'
  BY TypeStep
<1>1. CASE PassOn(s) \/ Deny(s) \/ UploadMissing(s) \/ Upload(s) \/ EnsureRepo(s) \/ CheckHead(s)
           \/ InitLooks(s) \/ ServerInfo(s)
  BY <1>0, <1>1 DEF Inv, TypeOK, OnlyAuthorised, Admitted, Chosen, Unborn,
                    PassOn, Deny, UploadMissing, Upload, EnsureRepo, InitLooks, CheckHead, ServerInfo
<1>2. CASE Admit(s)
  BY <1>0, <1>2, LevelsAssumption DEF Inv, TypeOK, OnlyAuthorised, Admitted, Chosen, Unborn, Admit, MayServe
<1>3. CASE InitDirs(s)
  BY <1>0, <1>3 DEF Inv, TypeOK, OnlyAuthorised, Admitted, Chosen, Unborn, InitDirs
<1>4. CASE InitHead(s)
  BY <1>0, <1>4 DEF Inv, TypeOK, OnlyAuthorised, Admitted, Chosen, Unborn, InitHead
<1>5. CASE ReceivePack(s)
  <2>1. cmd[s] = "receive" /\ access[s] >= 2
    BY <1>5 DEF ReceivePack, Inv, Admitted
  <2>2. OnlyAuthorised'
    BY <1>5, <2>1 DEF ReceivePack, UpdateRefs, Added, Deleted, Inv, TypeOK, OnlyAuthorised
  <2>3. (Admitted /\ Chosen /\ Unborn)'
    BY <1>5, <2>1 DEF ReceivePack, UpdateRefs, Inv, TypeOK, Admitted, Chosen, Unborn
  <2> QED
    BY <1>0, <2>2, <2>3 DEF Inv
<1>6. CASE FirstBranch(s)
  BY <1>0, <1>6 DEF Inv, TypeOK, OnlyAuthorised, Admitted, Chosen, Unborn, FirstBranch
<1>7. CASE RenameBranch(s)
  <2>1. OnlyAuthorised'
    BY <1>7 DEF RenameBranch, Renamed, Inv, TypeOK, OnlyAuthorised
  <2>2. (Admitted /\ Chosen)'
    BY <1>7 DEF RenameBranch, Inv, TypeOK, Admitted, Chosen
  <2>3. Unborn'
    BY <1>7 DEF RenameBranch, Inv, Unborn
  <2> QED
    BY <1>0, <2>1, <2>2, <2>3 DEF Inv
<1> QED
  BY <1>1, <1>2, <1>3, <1>4, <1>5, <1>6, <1>7 DEF Step

(* The invariant holds of every behaviour. *)
THEOREM GitInvariant == Spec => []Inv
<1>1. Init => Inv
  BY BranchesAssumption, DirsAssumption DEF Init, Inv, TypeOK, OnlyAuthorised, Admitted, Chosen, Unborn, Ends, Pushing,
          NoBranch
<1>2. Inv /\ [Next]_vars => Inv'
  <2> SUFFICES ASSUME Inv, [Next]_vars PROVE Inv'
    OBVIOUS
  <2>1. CASE Next
    BY <2>1, InvStep DEF Next
  <2>2. CASE UNCHANGED vars
    BY <2>2 DEF vars, Inv, TypeOK, OnlyAuthorised, Admitted, Chosen, Unborn
  <2> QED
    BY <2>1, <2>2
<1> QED
  BY <1>1, <1>2, PTL DEF Spec

(* Every variable keeps its type. *)
THEOREM GitTypeCorrect == Spec => []TypeOK
<1>1. Inv => TypeOK
  BY DEF Inv
<1> QED
  BY <1>1, GitInvariant, PTL

(* Nothing reaches a branch, and neither hook reports a success, but by a  *)
(* session whose access level gh.AuthRepo granted for that command.        *)
THEOREM AccessControlled == Spec => []OnlyAuthorised
<1>1. Inv => OnlyAuthorised
  BY DEF Inv
<1> QED
  BY <1>1, GitInvariant, PTL

-----------------------------------------------------------------------------
(* Of the sessions that listed the branches since HEAD was initialised:    *)
(* HEAD resolves for one that is past ensureDefaultBranch; and while it    *)
(* does not, the branch each that runs it found is still there, since only *)
(* a rename of the branch HEAD names removes one.                          *)
HeadInv == deleted = {} =>
             /\ (\E s \in listed : pc[s] \in {"info", "pushed"}) => head \in DOMAIN branches
             /\ head \notin DOMAIN branches =>
                  \A s \in listed : pc[s] \in {"head", "rename"} => first[s] \in DOMAIN branches

(* A step of one session keeps it. *)
LEMMA HeadStep ==
    ASSUME Inv, HeadInv, NEW s \in Sessions, Step(s)
    PROVE HeadInv'
<1> USE DEF request, repo, history, pushes, Goto, Fatal
<1>1. CASE PassOn(s) \/ Deny(s) \/ UploadMissing(s) \/ Upload(s) \/ EnsureRepo(s) \/ Admit(s)
  BY <1>1 DEF Inv, TypeOK, HeadInv, PassOn, Deny, UploadMissing, Upload, EnsureRepo, Admit, MayServe
<1>2. CASE CheckHead(s) \/ ServerInfo(s)
  BY <1>2 DEF Inv, TypeOK, HeadInv, CheckHead, ServerInfo
<1>3. CASE InitDirs(s) \/ InitLooks(s)
  BY <1>3 DEF Inv, TypeOK, HeadInv, InitDirs, InitLooks
<1>4. CASE InitHead(s)
  BY <1>4 DEF Inv, TypeOK, HeadInv, InitHead
<1>5. CASE ReceivePack(s)
  <2>1. deleted' = {} => deleted = {} /\ DOMAIN branches \subseteq DOMAIN (branches')
    BY <1>5 DEF ReceivePack, UpdateRefs, Added
  <2>2. UNCHANGED <<first, head, listed>>
    BY <1>5 DEF ReceivePack, UpdateRefs
  <2>3. pc' = [pc EXCEPT ![s] = "list"] \/ pc' = [pc EXCEPT ![s] = "failed"]
    BY <1>5 DEF ReceivePack
  <2>4. \A t \in Sessions : pc'[t] \in {"info", "pushed", "head", "rename"} => pc'[t] = pc[t]
    BY <2>3 DEF Inv, TypeOK
  <2> QED
    BY <2>1, <2>2, <2>4 DEF Inv, TypeOK, HeadInv
<1>6. CASE FirstBranch(s)
  BY <1>6 DEF Inv, TypeOK, HeadInv, FirstBranch
<1>7. CASE RenameBranch(s)
  BY <1>7 DEF Inv, TypeOK, HeadInv, RenameBranch, Renamed
<1> QED
  BY <1>1, <1>2, <1>3, <1>4, <1>5, <1>6, <1>7 DEF Step

(* HEAD names a branch that exists once gh.Push is told of a push that     *)
(* listed the branches after the last initialisation, until some push      *)
(* deletes a branch, for any number of sessions racing through EnsureRepo, *)
(* go-git's PlainInit, receive-pack and ensureDefaultBranch.               *)
THEOREM DefaultBranchExists == Spec => []DefaultBranchSet
<1>1. Init => HeadInv
  BY DEF Init, HeadInv
<1>2. Inv /\ HeadInv /\ [Next]_vars => HeadInv'
  <2> SUFFICES ASSUME Inv, HeadInv, [Next]_vars PROVE HeadInv'
    OBVIOUS
  <2>1. CASE Next
    BY <2>1, HeadStep DEF Next
  <2>2. CASE UNCHANGED vars
    BY <2>2 DEF vars, HeadInv
  <2> QED
    BY <2>1, <2>2
<1>3. HeadInv => DefaultBranchSet
  BY DEF HeadInv, DefaultBranchSet
<1> QED
  BY <1>1, <1>2, <1>3, GitInvariant, PTL DEF Spec

(* A step of one session makes a HEAD that resolves dangle only when it is *)
(* an initialisation that comes late.                                      *)
LEMMA HeadStaysStep ==
    ASSUME Inv, NEW s \in Sessions, Step(s), head \in DOMAIN branches
    PROVE LateInit \/ head' \in DOMAIN (branches')
<1> USE DEF request, repo, history, pushes, Goto, Fatal
<1>1. CASE InitHead(s)
  BY <1>1 DEF Inv, TypeOK, Unborn, InitHead, LateInit
<1>2. CASE ReceivePack(s)
  BY <1>2 DEF ReceivePack, UpdateRefs, Added, Deleted
<1>3. CASE RenameBranch(s)
  BY <1>3 DEF RenameBranch, Renamed
<1>4. CASE ~ InitHead(s) /\ ~ ReceivePack(s) /\ ~ RenameBranch(s)
  BY <1>4 DEF Step, PassOn, Deny, Admit, UploadMissing, Upload, EnsureRepo, InitDirs,
              InitLooks, FirstBranch, CheckHead, ServerInfo
<1> QED
  BY <1>1, <1>2, <1>3, <1>4

(* Once HEAD resolves it does so until PlainInit writes it over another    *)
(* session's repository, renames and deletions included.                   *)
THEOREM HeadNeverDangles == Spec => HeadStays
<1>1. Inv /\ [Next]_vars => [(head \in DOMAIN branches) => (LateInit \/ head' \in DOMAIN (branches'))]_vars
  BY HeadStaysStep DEF Next
<1> QED
  BY <1>1, GitInvariant, PTL DEF Spec, HeadStays
=============================================================================
