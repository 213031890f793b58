------------------------------ MODULE Scaffold ------------------------------
(***************************************************************************)
(* helmsman-cli scaffold (internal/cli/scaffold.go): invocations that run  *)
(* side by side against one fleet repository.                              *)
(*                                                                         *)
(* An invocation clones the repository, writes appdeployments/<app>.yaml   *)
(* on a branch named after the application and the second it started in,   *)
(* commits, pushes and opens a pull request.  Any step may fail, and ends  *)
(* the invocation; nothing is undone on the remote side.  Reviewers merge. *)
(***************************************************************************)
EXTENDS Naturals

CONSTANTS
  Runs,       \* invocations
  Apps,       \* application names
  Teams,      \* owning teams
  AppOf,      \* [Runs -> Apps], --app-name
  TeamOf,     \* [Runs -> Teams], --team; stands for all other flags
  NoFile,     \* no appdeployments/<app>.yaml
  NoCommit,   \* no branch of that name
  MaxTime,    \* bound: seconds
  MaxFaults   \* bound: steps that fail

ASSUME ScaffoldAssumption ==
  /\ Runs # {} /\ AppOf \in [Runs -> Apps] /\ TeamOf \in [Runs -> Teams]
  /\ MaxTime \in Nat /\ MaxFaults \in Nat

Times == 0..MaxTime

(* A generated file; its header tells when.  The metadata name and         *)
(* spec.appName are the same, the namespace is always sample-app.          *)
Files == [team : Teams, at : Times]

ASSUME NoFileAssumption == NoFile \notin Files

Trees == [Apps -> Files \cup {NoFile}]

(* A commit changes one file of the tree it is based on.  Two commits that *)
(* agree in everything are the same commit.                                *)
Commits == [base : Trees, app : Apps, file : Files]

ASSUME NoCommitAssumption == NoCommit \notin Commits

Branches == Apps \X Times

VARIABLES
  time,      \* the clock, in seconds
  pc,        \* per invocation: the next step
  started,   \* per invocation: the second in its branch name
  clone,     \* per invocation: main as it was cloned
  commit,    \* per invocation: its commit
  main,      \* remote: the tree of main
  branches,  \* remote: [Branches -> Commits or NoCommit]
  prs,       \* GitHub: pull requests
  faults     \* counter of failed steps

vars == <<time, pc, started, clone, commit, main, branches, prs, faults>>

PRs == [head : Branches, by : Runs, open : BOOLEAN]

TypeOK ==
  /\ time \in Times
  /\ pc \in [Runs -> {"start", "clone", "commit", "push", "createPR",
                      "done", "failed"}]
  /\ started \in [Runs -> Times]
  /\ clone \in [Runs -> Trees]
  /\ commit \in [Runs -> Commits \cup {NoCommit}]
  /\ main \in Trees
  /\ branches \in [Branches -> Commits \cup {NoCommit}]
  /\ prs \subseteq PRs
  /\ faults \in Nat

EmptyTree == [a \in Apps |-> NoFile]

Init ==
  /\ time = 0
  /\ pc = [r \in Runs |-> "start"]
  /\ started = [r \in Runs |-> 0]
  /\ clone = [r \in Runs |-> EmptyTree]
  /\ commit = [r \in Runs |-> NoCommit]
  /\ main = EmptyTree
  /\ branches = [b \in Branches |-> NoCommit]
  /\ prs = {}
  /\ faults = 0

-----------------------------------------------------------------------------
Branch(r) == <<AppOf[r], started[r]>>

Goto(r, step) == pc' = [pc EXCEPT ![r] = step]

(* Variant: a failure that leaves the invocation in no known state. *)
FailUnknown(r) ==
  /\ faults < MaxFaults /\ faults' = faults + 1
  /\ Goto(r, "unknown")

(* A command or a request fails, or the process is stopped.  The temporary *)
(* directory is of no use to anybody else and left out.                    *)
Fail(r) ==
  /\ faults < MaxFaults /\ faults' = faults + 1
  /\ Goto(r, "failed")

(* A dry run, a missing token and a CR that cannot be generated leave no   *)
(* trace: such an invocation is one that is never started.                 *)
Start(r) ==
  /\ pc[r] = "start"
  /\ started' = [started EXCEPT ![r] = time]
  /\ Goto(r, "clone")
  /\ UNCHANGED <<time, clone, commit, main, branches, prs, faults>>

Clone(r) ==
  /\ pc[r] = "clone"
  /\ \/ clone' = [clone EXCEPT ![r] = main] /\ Goto(r, "commit") /\ UNCHANGED faults
     \/ Fail(r) /\ UNCHANGED clone
  /\ UNCHANGED <<time, started, commit, main, branches, prs>>

(* checkout -b, write, add, commit: the file is written whether there is   *)
(* one or not; git refuses a commit that changes nothing.                  *)
Commit(r) ==
  LET file == [team |-> TeamOf[r], at |-> time] IN
  /\ pc[r] = "commit"
  /\ \/ /\ clone[r][AppOf[r]] # file
        /\ commit' = [commit EXCEPT ![r] =
                        [base |-> clone[r], app |-> AppOf[r], file |-> file]]
        /\ Goto(r, "push") /\ UNCHANGED faults
     \/ /\ clone[r][AppOf[r]] = file
        /\ Goto(r, "failed") /\ UNCHANGED <<commit, faults>>
     \/ Fail(r) /\ UNCHANGED commit
  /\ UNCHANGED <<time, started, clone, main, branches, prs>>

(* Variant: push --force. *)
PushForced(r) ==
  /\ pc[r] = "push"
  /\ branches' = [branches EXCEPT ![Branch(r)] = commit[r]]
  /\ Goto(r, "createPR")
  /\ UNCHANGED <<time, started, clone, commit, main, prs, faults>>

(* git refuses to replace a commit the pushed one does not descend from;   *)
(* pushing what is there already is no error.  A push may fail after it    *)
(* took effect.                                                            *)
Push(r) ==
  LET takes == branches[Branch(r)] \in {NoCommit, commit[r]}
      pushed == [branches EXCEPT ![Branch(r)] = commit[r]]
  IN
  /\ pc[r] = "push"
  /\ \/ takes /\ branches' = pushed /\ Goto(r, "createPR") /\ UNCHANGED faults
     \/ ~takes /\ Goto(r, "failed") /\ UNCHANGED <<branches, faults>>
     \/ Fail(r) /\ branches' \in {branches} \cup (IF takes THEN {pushed} ELSE {})
  /\ UNCHANGED <<time, started, clone, commit, main, prs>>

Opened(r) == prs \cup {[head |-> Branch(r), by |-> r, open |-> TRUE]}

(* Variant: a pull request that exists already is good enough. *)
CreatePRLenient(r) ==
  /\ pc[r] = "createPR"
  /\ prs' = IF \E p \in prs : p.open /\ p.head = Branch(r) THEN prs ELSE Opened(r)
  /\ Goto(r, "done")
  /\ UNCHANGED <<time, started, clone, commit, main, branches, faults>>

(* GitHub refuses a second open pull request for one branch, and one for a *)
(* branch without commits beyond main: with the file in main already that  *)
(* depends on how it got there, by a merge or squashed.  The request may   *)
(* fail after it took effect: anything but 201 within 15 seconds is a      *)
(* failure.                                                                *)
CreatePR(r) ==
  LET takes   == ~\E p \in prs : p.open /\ p.head = Branch(r)
      refuses == ~takes \/ main[AppOf[r]] = commit[r].file
  IN
  /\ pc[r] = "createPR"
  /\ \/ takes /\ prs' = Opened(r) /\ Goto(r, "done") /\ UNCHANGED faults
     \/ refuses /\ Goto(r, "failed") /\ UNCHANGED <<prs, faults>>
     \/ Fail(r) /\ prs' \in {prs} \cup (IF takes THEN {Opened(r)} ELSE {})
  /\ UNCHANGED <<time, started, clone, commit, main, branches>>

(* A reviewer merges; a file that changed on both sides, and not     *)
(* in the same way, is a conflict.                                         *)
Merge(p) ==
  LET c == branches[p.head] IN
  /\ p \in prs /\ p.open
  /\ main[c.app] \in {c.base[c.app], c.file}
  /\ main' = [main EXCEPT ![c.app] = c.file]
  /\ prs' = (prs \ {p}) \cup {[p EXCEPT !.open = FALSE]}
  /\ UNCHANGED <<time, pc, started, clone, commit, branches, faults>>

Tick ==
  /\ time < MaxTime /\ time' = time + 1
  /\ UNCHANGED <<pc, started, clone, commit, main, branches, prs, faults>>

Next ==
  \/ \E r \in Runs : Start(r) \/ Clone(r) \/ Commit(r) \/ Push(r) \/ CreatePR(r)
  \/ \E p \in prs : Merge(p)
  \/ Tick

Spec == Init /\ [][Next]_vars

-----------------------------------------------------------------------------
(* "Review and merge the PR to deploy": the pull request an invocation     *)
(* reports holds the CR it generated, not that of an invocation that chose *)
(* the same branch name in the same second.                                *)
DoneMeansOpened ==
  \A r \in Runs : pc[r] = "done" =>
    /\ \E p \in prs : p.by = r /\ p.head = Branch(r)
    /\ branches[Branch(r)] = commit[r]

(* What reviewers have seen stays: the commit under a pull request never   *)
(* changes.                                                                *)
ReviewedIsMerged ==
  [][\A p \in prs : branches'[p.head] = branches[p.head]]_vars

(* "Adds an AppDeployment CR to the fleet repo": the file was not there    *)
(* when the branch was made.                                               *)
AddsApplication ==
  \A p \in prs : LET c == branches[p.head] IN c.base[c.app] = NoFile

=============================================================================
