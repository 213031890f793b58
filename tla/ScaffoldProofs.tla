--------------------------- MODULE ScaffoldProofs ---------------------------
(* Theorems about Scaffold: any number of invocations, names and teams,    *)
(* whatever fails and whenever reviewers merge.                            *)
EXTENDS Scaffold, TLAPS

(* A branch is pushed before a pull request names it, and a push replaces  *)
(* no other commit: what is under a pull request is there to stay.         *)
HeadsExist == \A p \in prs : branches[p.head] # NoCommit

(* What an invocation has behind it.  The branch of one that has pushed    *)
(* holds its commit: another one of the same application and second is     *)
(* refused.                                                                *)
Progress(r) ==
  /\ pc[r] \in {"push", "createPR", "done"} =>
       commit[r] \in Commits /\ commit[r].app = AppOf[r]
  /\ pc[r] \in {"createPR", "done"} => branches[Branch(r)] = commit[r]
  /\ pc[r] = "done" => \E p \in prs : p.by = r /\ p.head = Branch(r)

ScaffoldInv == TypeOK /\ HeadsExist /\ \A r \in Runs : Progress(r)

-----------------------------------------------------------------------------
(* How the steps change the remote side. *)

(* Branches only ever gain a commit, and pull requests are only opened or  *)
(* closed.                                                                 *)
BranchesGrow ==
  \A b \in Branches : branches[b] # NoCommit => branches'[b] = branches[b]

PRsStay ==
  \A p \in prs : \E q \in prs' : q.by = p.by /\ q.head = p.head

LEMMA BranchType ==
  ASSUME TypeOK, NEW r \in Runs
  PROVE  Branch(r) \in Branches /\ AppOf[r] \in Apps
  BY ScaffoldAssumption DEF TypeOK, Branch, Branches

LEMMA CommitType ==
  ASSUME NEW c \in Commits
  PROVE  /\ c # NoCommit /\ c.app \in Apps /\ c.file \in Files
         /\ c.base \in [Apps -> Files \cup {NoFile}]
  BY NoCommitAssumption DEF Commits, Trees

(* A step of r that leaves pull requests alone. *)
LEMMA OthersProgress ==
  ASSUME ScaffoldInv, BranchesGrow, PRsStay, NEW s \in Runs,
         pc'[s] = pc[s], started'[s] = started[s], commit'[s] = commit[s]
  PROVE  Progress(s)'
<1>1. Branch(s)' = Branch(s) /\ Branch(s) \in Branches /\ Progress(s)
  BY BranchType DEF ScaffoldInv, Branch
<1>2. commit[s] \in Commits => commit[s] # NoCommit
  BY CommitType
<1> QED
  BY <1>1, <1>2 DEF Progress, BranchesGrow, PRsStay

(* Every step of an invocation but Push and CreatePR. *)
LEMMA LocalStep ==
  ASSUME ScaffoldInv, UNCHANGED <<branches, prs>>
  PROVE  BranchesGrow /\ PRsStay /\ HeadsExist'
  BY DEF ScaffoldInv, BranchesGrow, PRsStay, HeadsExist

-----------------------------------------------------------------------------
LEMMA InitInv == Init => ScaffoldInv
<1> SUFFICES ASSUME Init PROVE ScaffoldInv
  OBVIOUS
<1>1. TypeOK
  BY ScaffoldAssumption DEF Init, TypeOK, Times, Trees, EmptyTree
<1> QED
  BY <1>1 DEF Init, ScaffoldInv, HeadsExist, Progress

LEMMA StartInv ==
  ASSUME ScaffoldInv, NEW r \in Runs, Start(r)
  PROVE  ScaffoldInv'
<1>1. TypeOK'
  BY DEF Start, Goto, ScaffoldInv, TypeOK
<1>2. BranchesGrow /\ PRsStay /\ HeadsExist'
  BY LocalStep DEF Start
<1>3. ASSUME NEW s \in Runs PROVE Progress(s)'
  <2>1. CASE s = r
    BY <2>1 DEF Start, Goto, ScaffoldInv, TypeOK, Progress
  <2>2. CASE s # r
    BY <1>2, <2>2, OthersProgress DEF Start, Goto, ScaffoldInv, TypeOK
  <2> QED
    BY <2>1, <2>2
<1> QED
  BY <1>1, <1>2, <1>3 DEF ScaffoldInv

LEMMA CloneInv ==
  ASSUME ScaffoldInv, NEW r \in Runs, Clone(r)
  PROVE  ScaffoldInv'
<1>1. TypeOK'
  BY DEF Clone, Fail, Goto, ScaffoldInv, TypeOK
<1>2. BranchesGrow /\ PRsStay /\ HeadsExist'
  BY LocalStep DEF Clone
<1>3. ASSUME NEW s \in Runs PROVE Progress(s)'
  <2>1. CASE s = r
    BY <2>1 DEF Clone, Fail, Goto, ScaffoldInv, TypeOK, Progress
  <2>2. CASE s # r
    BY <1>2, <2>2, OthersProgress DEF Clone, Fail, Goto, ScaffoldInv, TypeOK
  <2> QED
    BY <2>1, <2>2
<1> QED
  BY <1>1, <1>2, <1>3 DEF ScaffoldInv

LEMMA CommitInv ==
  ASSUME ScaffoldInv, NEW r \in Runs, Commit(r)
  PROVE  ScaffoldInv'
<1> DEFINE file == [team |-> TeamOf[r], at |-> time]
           new  == [base |-> clone[r], app |-> AppOf[r], file |-> file]
<1>1. new \in Commits /\ new.app = AppOf[r]
  BY ScaffoldAssumption DEF ScaffoldInv, TypeOK, Commits, Files, Times
<1>2. UNCHANGED <<time, started, clone, main, branches, prs>>
  BY DEF Commit
<1>3. \/ commit' = [commit EXCEPT ![r] = new] /\ Goto(r, "push") /\ faults' = faults
      \/ commit' = commit /\ Goto(r, "failed") /\ faults' \in {faults, faults + 1}
  BY DEF Commit, Fail
<1> HIDE DEF new
<1>4. TypeOK'
  BY <1>1, <1>2, <1>3 DEF Goto, ScaffoldInv, TypeOK
<1>5. BranchesGrow /\ PRsStay /\ HeadsExist'
  BY <1>2, LocalStep
<1>6. ASSUME NEW s \in Runs PROVE Progress(s)'
  <2>1. CASE s = r
    BY <1>1, <1>3, <2>1 DEF Goto, ScaffoldInv, TypeOK, Progress
  <2>2. CASE s # r
    BY <1>2, <1>3, <1>5, <2>2, OthersProgress DEF Goto, ScaffoldInv, TypeOK
  <2> QED
    BY <2>1, <2>2
<1> QED
  BY <1>4, <1>5, <1>6 DEF ScaffoldInv

LEMMA PushInv ==
  ASSUME ScaffoldInv, NEW r \in Runs, Push(r)
  PROVE  ScaffoldInv' /\ BranchesGrow
<1> DEFINE pushed == [branches EXCEPT ![Branch(r)] = commit[r]]
<1>1. /\ Branch(r) \in Branches /\ commit[r] \in Commits /\ commit[r].app = AppOf[r]
      /\ commit[r] # NoCommit
  BY BranchType, CommitType DEF Push, ScaffoldInv, Progress
<1>2. UNCHANGED <<time, started, clone, commit, main, prs>>
  BY DEF Push
<1>3. /\ \/ branches' = branches
         \/ branches' = pushed /\ branches[Branch(r)] \in {NoCommit, commit[r]}
      /\ faults' \in {faults, faults + 1}
      /\ \/ Goto(r, "failed")
         \/ Goto(r, "createPR") /\ branches' = pushed
  BY DEF Push, Fail
<1>4. BranchesGrow
  BY <1>1, <1>3 DEF BranchesGrow, ScaffoldInv, TypeOK
<1>5. PRsStay /\ HeadsExist'
  <2>1. \A p \in prs : p.head \in Branches
    BY DEF ScaffoldInv, TypeOK, PRs
  <2> QED
    BY <1>2, <1>4, <2>1 DEF PRsStay, HeadsExist, BranchesGrow, ScaffoldInv
<1>6. TypeOK'
  BY <1>1, <1>2, <1>3 DEF Goto, ScaffoldInv, TypeOK
<1>7. ASSUME NEW s \in Runs PROVE Progress(s)'
  <2>1. CASE s = r
    <3>1. branches' = pushed => branches'[Branch(r)] = commit[r]
      BY <1>1 DEF ScaffoldInv, TypeOK
    <3>2. Branch(r)' = Branch(r) /\ pc'[r] \in {"failed", "createPR"}
      BY <1>2, <1>3 DEF Goto, ScaffoldInv, TypeOK, Branch
    <3>3. pc'[r] = "createPR" => branches' = pushed
      BY <1>3 DEF Goto, ScaffoldInv, TypeOK
    <3> QED
      BY <1>1, <1>2, <2>1, <3>1, <3>2, <3>3 DEF Progress
  <2>2. CASE s # r
    BY <1>2, <1>3, <1>4, <1>5, <2>2, OthersProgress DEF Goto, ScaffoldInv, TypeOK
  <2> QED
    BY <2>1, <2>2
<1> QED
  BY <1>4, <1>5, <1>6, <1>7 DEF ScaffoldInv

LEMMA CreatePRInv ==
  ASSUME ScaffoldInv, NEW r \in Runs, CreatePR(r)
  PROVE  ScaffoldInv'
<1> DEFINE new == [head |-> Branch(r), by |-> r, open |-> TRUE]
<1>1. /\ pc[r] = "createPR" /\ Branch(r) \in Branches /\ branches[Branch(r)] = commit[r]
      /\ commit[r] \in Commits /\ commit[r] # NoCommit /\ Progress(r)
  BY BranchType, CommitType DEF CreatePR, ScaffoldInv, Progress
<1>2. UNCHANGED <<time, started, clone, commit, main, branches>>
  BY DEF CreatePR
<1>3. /\ prs' \in {prs, prs \cup {new}} /\ faults' \in {faults, faults + 1}
      /\ \/ Goto(r, "failed")
         \/ Goto(r, "done") /\ prs' = prs \cup {new}
  BY DEF CreatePR, Opened, Fail
<1>4. new \in PRs /\ new.head = Branch(r) /\ new.by = r
  BY <1>1 DEF PRs
<1> HIDE DEF new
<1>5. BranchesGrow /\ PRsStay /\ HeadsExist'
  BY <1>1, <1>2, <1>3, <1>4 DEF BranchesGrow, PRsStay, HeadsExist, ScaffoldInv
<1>6. TypeOK'
  BY <1>2, <1>3, <1>4 DEF Goto, ScaffoldInv, TypeOK
<1>7. ASSUME NEW s \in Runs PROVE Progress(s)'
  <2>1. CASE s = r
    <3>1. Branch(r)' = Branch(r) /\ pc'[r] \in {"failed", "done"}
      BY <1>2, <1>3 DEF Goto, ScaffoldInv, TypeOK, Branch
    <3>2. pc'[r] = "done" => new \in prs'
      BY <1>3 DEF Goto, ScaffoldInv, TypeOK
    <3> QED
      BY <1>1, <1>2, <1>4, <2>1, <3>1, <3>2 DEF Progress
  <2>2. CASE s # r
    BY <1>2, <1>3, <1>5, <2>2, OthersProgress DEF Goto, ScaffoldInv, TypeOK
  <2> QED
    BY <2>1, <2>2
<1> QED
  BY <1>5, <1>6, <1>7 DEF ScaffoldInv

LEMMA MergeInv ==
  ASSUME ScaffoldInv, NEW p \in prs, Merge(p)
  PROVE  ScaffoldInv'
<1> DEFINE c == branches[p.head]
           closed == [p EXCEPT !.open = FALSE]
<1>1. p \in PRs /\ p.head \in Branches
  BY DEF ScaffoldInv, TypeOK, PRs
<1>2. c \in Commits /\ c.app \in Apps /\ c.file \in Files
  BY <1>1, CommitType DEF ScaffoldInv, HeadsExist, TypeOK
<1>3. closed \in PRs /\ closed.head = p.head /\ closed.by = p.by
  BY <1>1 DEF PRs
<1>4. /\ main' = [main EXCEPT ![c.app] = c.file]
      /\ prs' = (prs \ {p}) \cup {closed}
      /\ UNCHANGED <<time, pc, started, clone, commit, branches, faults>>
  BY DEF Merge
<1> HIDE DEF closed, c
<1>5. TypeOK'
  BY <1>2, <1>3, <1>4 DEF ScaffoldInv, TypeOK, Trees
<1>6. BranchesGrow /\ PRsStay /\ HeadsExist'
  BY <1>3, <1>4 DEF BranchesGrow, PRsStay, HeadsExist, ScaffoldInv
<1>7. \A s \in Runs : Progress(s)'
  BY <1>4, <1>6, OthersProgress
<1> QED
  BY <1>5, <1>6, <1>7 DEF ScaffoldInv

LEMMA NextInv ==
  ASSUME ScaffoldInv, [Next]_vars
  PROVE  ScaffoldInv' /\ \A p \in prs : branches'[p.head] = branches[p.head]
<1>1. \A p \in prs : p.head \in Branches /\ branches[p.head] # NoCommit
  BY DEF ScaffoldInv, TypeOK, PRs, HeadsExist
<1>2. ASSUME UNCHANGED <<time, pc, started, clone, commit, main, branches, prs, faults>>
             \/ Tick
      PROVE  ScaffoldInv' /\ UNCHANGED branches
  <2>1. TypeOK' /\ UNCHANGED <<pc, started, commit, branches, prs>>
    BY <1>2, ScaffoldAssumption DEF Tick, ScaffoldInv, TypeOK, Times
  <2> QED
    BY <2>1, LocalStep, OthersProgress DEF ScaffoldInv
<1>3. ASSUME NEW r \in Runs, Start(r) \/ Clone(r) \/ Commit(r) \/ CreatePR(r)
      PROVE  ScaffoldInv' /\ UNCHANGED branches
  BY <1>3, StartInv, CloneInv, CommitInv, CreatePRInv
     DEF Start, Clone, Commit, CreatePR
<1>4. ASSUME NEW r \in Runs, Push(r)
      PROVE  ScaffoldInv' /\ \A p \in prs : branches'[p.head] = branches[p.head]
  BY <1>1, <1>4, PushInv DEF BranchesGrow
<1>5. ASSUME NEW p \in prs, Merge(p) PROVE ScaffoldInv' /\ UNCHANGED branches
  BY <1>5, MergeInv DEF Merge
<1> QED
  BY <1>2, <1>3, <1>4, <1>5 DEF Next, vars

LEMMA InvHolds == Spec => []ScaffoldInv
  BY InitInv, NextInv, PTL DEF Spec

(* Every variable keeps its type.  main does only because a pull request   *)
(* is never opened for a branch that is not there.                         *)
THEOREM ScaffoldTypeCorrect == Spec => []TypeOK
  BY InvHolds, PTL DEF ScaffoldInv

(* An invocation that ends well has a pull request for a branch that holds *)
(* its own commit, however many invocations pick the same name in the same *)
(* second.                                                                 *)
THEOREM DoneIsOpened == Spec => []DoneMeansOpened
<1>1. ScaffoldInv => DoneMeansOpened
  BY DEF ScaffoldInv, Progress, DoneMeansOpened
<1> QED
  BY <1>1, InvHolds, PTL

(* The commit under a pull request never changes. *)
THEOREM ReviewedCommitsStay == Spec => ReviewedIsMerged
<1>1. ScaffoldInv /\ [Next]_vars =>
        [\A p \in prs : branches'[p.head] = branches[p.head]]_vars
  BY NextInv
<1> QED
  BY <1>1, InvHolds, PTL DEF Spec, ReviewedIsMerged

-----------------------------------------------------------------------------
(* Nothing gets into main but through a pull request: what main holds for  *)
(* an application is the file of a commit that was merged, and the commit  *)
(* is that of an invocation for this application by the team in the file.  *)
MainIsReviewed ==
  \A a \in Apps : main[a] # NoFile =>
    \E p \in prs : /\ ~p.open
                   /\ branches[p.head].app = a /\ branches[p.head].file = main[a]

(* Commits come from invocations. *)
MadeByRun(c) ==
  \E r \in Runs : c.app = AppOf[r] /\ c.file.team = TeamOf[r]

CommitsAreMade ==
  /\ \A r \in Runs : commit[r] # NoCommit => MadeByRun(commit[r])
  /\ \A b \in Branches : branches[b] # NoCommit => MadeByRun(branches[b])

MainIsGenerated ==
  \A a \in Apps : main[a] # NoFile =>
    \E r \in Runs : AppOf[r] = a /\ TeamOf[r] = main[a].team

LEMMA MadeNext ==
  ASSUME ScaffoldInv, CommitsAreMade, [Next]_vars
  PROVE  CommitsAreMade'
<1>1. ASSUME UNCHANGED <<commit, branches>> PROVE CommitsAreMade'
  BY <1>1 DEF CommitsAreMade, MadeByRun
<1>2. ASSUME NEW r \in Runs, Commit(r) PROVE CommitsAreMade'
  <2> DEFINE file == [team |-> TeamOf[r], at |-> time]
             new  == [base |-> clone[r], app |-> AppOf[r], file |-> file]
  <2>1. MadeByRun(new)
    BY DEF MadeByRun
  <2>2. branches' = branches /\ \A s \in Runs : commit'[s] \in {commit[s], new}
    BY <1>2 DEF Commit, ScaffoldInv, TypeOK
  <2> QED
    BY <2>1, <2>2 DEF CommitsAreMade, MadeByRun
<1>3. ASSUME NEW r \in Runs, Push(r) PROVE CommitsAreMade'
  <2>1. /\ commit' = commit /\ commit[r] # NoCommit
        /\ \A b \in Branches : branches'[b] \in {branches[b], commit[r]}
    BY <1>3, BranchType, CommitType DEF Push, ScaffoldInv, Progress, TypeOK
  <2> QED
    BY <2>1 DEF CommitsAreMade, MadeByRun
<1>4. CASE UNCHANGED vars
  BY <1>1, <1>4 DEF vars
<1> QED
  BY <1>1, <1>2, <1>3, <1>4 DEF Next, Start, Clone, CreatePR, Merge, Tick

LEMMA ReviewedNext ==
  ASSUME ScaffoldInv, MainIsReviewed, [Next]_vars
  PROVE  MainIsReviewed'
<1>1. \A p \in prs : p \in PRs /\ branches'[p.head] = branches[p.head]
  BY NextInv DEF ScaffoldInv, TypeOK
<1>2. ASSUME main' = main, \A p \in prs : ~p.open => p \in prs'
      PROVE  MainIsReviewed'
  BY <1>1, <1>2 DEF MainIsReviewed
<1>3. ASSUME NEW p \in prs, Merge(p) PROVE MainIsReviewed'
  <2> DEFINE c == branches[p.head]
             closed == [p EXCEPT !.open = FALSE]
  <2>1. ~closed.open /\ closed.head = p.head
    BY <1>1 DEF PRs
  <2>2. /\ p.open /\ main' = [main EXCEPT ![c.app] = c.file] /\ branches' = branches
        /\ prs' = (prs \ {p}) \cup {closed}
    BY <1>3 DEF Merge
  <2> HIDE DEF closed
  <2>3. ASSUME NEW a \in Apps, main'[a] # NoFile
        PROVE  \E q \in prs' : /\ ~q.open /\ branches'[q.head].app = a
                              /\ branches'[q.head].file = main'[a]
    <3>1. CASE a = c.app
      BY <2>1, <2>2, <3>1 DEF ScaffoldInv, TypeOK, Trees
    <3>2. CASE a # c.app
      BY <2>2, <2>3, <3>2 DEF MainIsReviewed, ScaffoldInv, TypeOK, Trees
    <3> QED
      BY <3>1, <3>2
  <2> QED
    BY <2>3 DEF MainIsReviewed
<1>4. ASSUME NEW r \in Runs, CreatePR(r) PROVE MainIsReviewed'
  BY <1>2, <1>4 DEF CreatePR, Opened
<1>5. CASE UNCHANGED vars
  BY <1>2, <1>5 DEF vars
<1> QED
  BY <1>2, <1>3, <1>4, <1>5 DEF Next, Start, Clone, Commit, Push, Tick

(* What main holds went through a pull request that was merged. *)
THEOREM MainWasReviewed == Spec => []MainIsReviewed
<1>1. Init => MainIsReviewed
  BY DEF Init, MainIsReviewed, EmptyTree
<1> QED
  BY <1>1, ReviewedNext, InvHolds, PTL DEF Spec

(* ... and was generated by an invocation for that application, with the   *)
(* team of that invocation.                                                *)
THEOREM MainWasGenerated == Spec => []MainIsGenerated
<1>1. Init => CommitsAreMade
  BY DEF Init, CommitsAreMade
<1>2. ScaffoldInv /\ CommitsAreMade /\ MainIsReviewed => MainIsGenerated
  <2> SUFFICES ASSUME ScaffoldInv, CommitsAreMade, MainIsReviewed,
                      NEW a \in Apps, main[a] # NoFile
               PROVE  \E r \in Runs : AppOf[r] = a /\ TeamOf[r] = main[a].team
    BY DEF MainIsGenerated
  <2>1. PICK p \in prs : branches[p.head].app = a /\ branches[p.head].file = main[a]
    BY DEF MainIsReviewed
  <2>2. p.head \in Branches /\ branches[p.head] # NoCommit
    BY DEF ScaffoldInv, TypeOK, PRs, HeadsExist
  <2> QED
    BY <2>1, <2>2 DEF CommitsAreMade, MadeByRun
<1> QED
  BY <1>1, <1>2, MadeNext, InvHolds, MainWasReviewed, PTL DEF Spec
=============================================================================
