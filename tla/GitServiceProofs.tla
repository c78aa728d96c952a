-------------------------- MODULE GitServiceProofs --------------------------
(***************************************************************************)
(* Invariants of GitService for every set of attempts, branches and files  *)
(* and every bound: the project's own checkout stays in step with its      *)
(* branch, a recorded merge stays in the branch it was made into, a        *)
(* worktree in conflict is shown as one, and what an agent committed is    *)
(* never lost.                                                             *)
(*                                                                         *)
(* The first two rest on who may move which branch.  The project's         *)
(* directory is always on Main, a worktree always on its own branch or     *)
(* detached; so a merge of the git CLI happens in the project's directory  *)
(* and nowhere else, one in memory never touches Main, and Main only       *)
(* grows.                                                                  *)
(*                                                                         *)
(* For WorkKept: the tree of a branch shows a mark if every commit after   *)
(* the one that made it, and that touches its file, keeps it (Stays);      *)
(* WorkInv says so of every history that git can still reach.  A rebase    *)
(* replays commits one by one, so that it keeps the marks is shown by      *)
(* induction over the commits replayed.                                    *)
(***************************************************************************)
EXTENDS GitService, Recursion

-----------------------------------------------------------------------------
(* Histories.                                                              *)

IsHistory(h) == \E S : h \in Seq(S)

(* A history with one more commit is a history, and begins with the old.   *)
LEMMA AppendHistory ==
  ASSUME NEW h, IsHistory(h), NEW e
  PROVE  IsHistory(Append(h, e)) /\ IsPrefix(h, Append(h, e))
<1>1. PICK S : h \in Seq(S)
  BY DEF IsHistory
<1>2. h \in Seq(S \cup {e})
  BY <1>1
<1> QED
  BY <1>2 DEF IsHistory, IsPrefix

LEMMA PrefixIsReflexive ==
  ASSUME NEW h, IsHistory(h)
  PROVE  IsPrefix(h, h)
BY DEF IsPrefix, IsHistory

LEMMA PrefixIsTransitive ==
  ASSUME NEW h, NEW k, NEW l, IsHistory(h), IsHistory(k), IsHistory(l),
         IsPrefix(h, k), IsPrefix(k, l)
  PROVE  IsPrefix(h, l)
<1>1. PICK S : h \in Seq(S) /\ k \in Seq(S) /\ l \in Seq(S)
  <2>1. PICK S1, S2, S3 : h \in Seq(S1) /\ k \in Seq(S2) /\ l \in Seq(S3)
    BY DEF IsHistory
  <2> QED
    BY <2>1, h \in Seq(S1 \cup S2 \cup S3), k \in Seq(S1 \cup S2 \cup S3),
       l \in Seq(S1 \cup S2 \cup S3)
<1>2. Len(h) <= Len(k) /\ Len(k) <= Len(l)
  BY DEF IsPrefix
<1>3. \A i \in 1..Len(h) : h[i] = k[i]
  BY <1>1 DEF IsPrefix
<1>4. \A i \in 1..Len(k) : k[i] = l[i]
  BY <1>1 DEF IsPrefix
<1> QED
  BY <1>1, <1>2, <1>3, <1>4 DEF IsPrefix

(* A nonempty set of positions has a greatest one.                         *)
LEMMA MaxIsThere ==
  ASSUME NEW n \in Nat, NEW T \in SUBSET (1..n), T # {}
  PROVE  Max(T) \in T
<1>1. T \subseteq 0 .. n
  OBVIOUS
<1>2. \E x \in T : \A y \in T : x >= y
  BY <1>1, GreatestIsThere
<1> QED
  BY <1>2 DEF Max

(* A commit of the difference between a tree and the tree of a history     *)
(* gives the history that tree.                                            *)
LEMMA TreeOfCommit ==
  ASSUME NEW h, IsHistory(h), NEW new, NEW kind, NEW f \in File
  PROVE  Tree(Append(h, Commit(Delta(new, Tree(h)), kind)))[f] = new[f]
<1> DEFINE d == Delta(new, Tree(h))
           k == Append(h, Commit(d, kind))
           old == {i \in 1..Len(h) : f \in DOMAIN h[i].change}
           all == {i \in 1..Len(k) : f \in DOMAIN k[i].change}
<1>1. /\ Len(h) \in Nat /\ Len(k) = Len(h) + 1 /\ k[Len(h) + 1] = Commit(d, kind)
      /\ \A i \in 1..Len(h) : k[i] = h[i]
  BY DEF IsHistory
<1>2. /\ Tree(k)[f] = IF all = {} THEN None ELSE k[Max(all)].change[f]
      /\ Tree(h)[f] = IF old = {} THEN None ELSE h[Max(old)].change[f]
  BY DEF Tree
<1>3. /\ Commit(d, kind).change = d
      /\ f \in DOMAIN d <=> new[f] # Tree(h)[f]
      /\ f \in DOMAIN d => d[f] = new[f]
  BY DEF Commit, Delta
<1> HIDE DEF d, k
<1>4. CASE f \in DOMAIN d
  <2>1. Len(h) + 1 \in all /\ \A i \in all : Len(h) + 1 >= i
    BY <1>1, <1>3, <1>4
  <2>2. Max(all) = Len(h) + 1
    BY <2>1, <1>1 DEF Max
  <2> QED
    BY <1>1, <1>2, <1>3, <1>4, <2>1, <2>2 DEF d, k
<1>5. CASE f \notin DOMAIN d
  <2>1. all = old
    BY <1>1, <1>3, <1>5
  <2>2. old # {} => k[Max(old)] = h[Max(old)]
    BY <1>1, MaxIsThere
  <2>3. Tree(k)[f] = Tree(h)[f]
    BY <1>2, <2>1, <2>2
  <2> QED
    BY <1>3, <1>5, <2>3 DEF d, k
<1> QED
  BY <1>4, <1>5

-----------------------------------------------------------------------------
(* The inductive invariant.                                                *)

(* Each of the handlers works on a target, a merge in a checkout on the    *)
(* project's own, one in memory on another.                                *)
HandlerOK(r) ==
  /\ r.op \in {"status", "cli", "memory", "moved"} => r.base \in Target
  /\ r.op = "cli" => r.base = Main /\ r.place = Main
  /\ r.op = "memory" => r.base # Main /\ IsHistory(r.ours)
  /\ r.op = "moved" => IsHistory(r.merged)
  /\ r.op = "rebase" => r.old \in Target /\ r.new \in Target

Branches ==
  /\ DOMAIN tip = Base \cup Attempt \cup {Origin}
  /\ \A b \in Target : IsHistory(tip[b])
  /\ Origin \in DOMAIN origin /\ IsHistory(origin[Origin])

Checkouts ==
  /\ DOMAIN at = Checkout /\ DOMAIN index = Checkout /\ DOMAIN index[Main] = File
  /\ at[Main] = OnBranch(Main)
  /\ \A a \in Attempt : at[a].branch \in {a, NoBranch}

Rows ==
  /\ DOMAIN target = Attempt /\ DOMAIN handler = Attempt /\ DOMAIN merges = Attempt
  /\ \A a \in Attempt : target[a] \in Target /\ HandlerOK(handler[a])
  /\ \A a \in Attempt : \A m \in merges[a] : m.base \in Target /\ IsHistory(m.commit)

(* A branch keeps a history: it begins with it, or did when a merge in     *)
(* memory overwrote it.                                                    *)
Keeps(b, h) ==
  \/ IsPrefix(h, tip[b])
  \/ \E l \in lost : l.base = b /\ IsPrefix(h, l.history)

(* A merge that is recorded is kept, and so is one not recorded yet.       *)
RecordIsKept == \A a \in Attempt : \A m \in merges[a] : Keeps(m.base, m.commit)

MovedIsKept == \A a \in Attempt :
  handler[a].op = "moved" => Keeps(handler[a].base, handler[a].merged)

(* The project's own branch is never overwritten.                          *)
MainIsKept == \A l \in lost : l.base # Main

GitInv == /\ Branches /\ Checkouts /\ Rows
          /\ RecordIsKept /\ MovedIsKept /\ MainIsKept /\ BaseCheckoutInStep

(* The initial states.                                                     *)
LEMMA EmptyIsHistory == IsHistory(<<>>)
<1>1. <<>> \in Seq({})
  OBVIOUS
<1> QED
  BY <1>1 DEF IsHistory

LEMMA GitInitInv == GitInit => GitInv
<1> SUFFICES ASSUME GitInit PROVE GitInv
  OBVIOUS
<1> USE GitAssumption
<1>1. Branches
  BY EmptyIsHistory DEF GitInit, Branches, Target
<1>2. Checkouts
  BY DEF GitInit, Checkouts, Checkout, EmptyTree, OnBranch
<1>3. Rows
  BY DEF GitInit, Rows, HandlerOK, Idle, Target
<1>5. RecordIsKept /\ MovedIsKept /\ MainIsKept
  BY DEF GitInit, RecordIsKept, MovedIsKept, MainIsKept, Idle
<1>6. BaseCheckoutInStep
  <2>1. index[Main] = EmptyTree /\ HeadOf(Main) = <<>>
    BY DEF GitInit, HeadOf, OnBranch, Checkout, NoBranch
  <2>2. \A f \in File : Tree(<<>>)[f] = None
    BY DEF Tree
  <2> QED
    BY <2>1, <2>2 DEF BaseCheckoutInStep, EmptyTree
<1> QED
  BY <1>1, <1>2, <1>3, <1>5, <1>6 DEF GitInv

-----------------------------------------------------------------------------
(* Steps that leave the targets and the project's checkout alone.          *)

HeadsQuiet ==
  /\ DOMAIN tip' = DOMAIN tip /\ \A b \in Target : tip'[b] = tip[b]
  /\ DOMAIN at' = Checkout /\ at'[Main] = at[Main]
  /\ \A a \in Attempt : at'[a].branch \in {a, NoBranch}

TreesQuiet ==
  /\ HeadsQuiet
  /\ DOMAIN origin' = DOMAIN origin /\ origin'[Origin] = origin[Origin]
  /\ DOMAIN index' = Checkout /\ index'[Main] = index[Main]
  /\ staged' = staged /\ lost' = lost

LEMMA TreesStep ==
  ASSUME Branches, Checkouts, BaseCheckoutInStep, TreesQuiet
  PROVE  Branches' /\ Checkouts' /\ BaseCheckoutInStep'
<1> USE GitAssumption
<1>1. Branches' /\ Checkouts'
  BY DEF Branches, Checkouts, TreesQuiet, HeadsQuiet
<1>2. HeadOf(Main)' = HeadOf(Main)
  <2>1. at[Main].branch = Main /\ at'[Main].branch = Main /\ Main # NoBranch
    BY DEF Checkouts, OnBranch, TreesQuiet, HeadsQuiet, NoBranch
  <2>2. tip'[Main] = tip[Main]
    BY DEF TreesQuiet, HeadsQuiet, Target
  <2> QED
    BY <2>1, <2>2 DEF HeadOf
<1>3. BaseCheckoutInStep'
  BY <1>2 DEF BaseCheckoutInStep, TreesQuiet, Tree
<1> QED
  BY <1>1, <1>3

(* Rows, handlers and records stay what they are, and so do the targets.   *)
LEMMA RecordsStep ==
  ASSUME Rows, RecordIsKept, MovedIsKept, MainIsKept,
         \A b \in Target : tip'[b] = tip[b],
         UNCHANGED <<target, handler, merges, lost>>
  PROVE  Rows' /\ RecordIsKept' /\ MovedIsKept' /\ MainIsKept'
<1>1. Rows' /\ MainIsKept'
  BY DEF Rows, MainIsKept
<1>2. RecordIsKept'
  BY DEF RecordIsKept, Keeps, Rows
<1>3. MovedIsKept'
  BY DEF MovedIsKept, Keeps, Rows, HandlerOK
<1> QED
  BY <1>1, <1>2, <1>3

(* ... as in the steps of an attempt in its own worktree.                  *)
LEMMA QuietStep ==
  ASSUME GitInv, TreesQuiet, UNCHANGED <<target, handler, merges>>
  PROVE  GitInv'
<1>1. Branches' /\ Checkouts' /\ BaseCheckoutInStep'
  BY TreesStep DEF GitInv
<1>2. Rows' /\ RecordIsKept' /\ MovedIsKept' /\ MainIsKept'
  BY RecordsStep DEF GitInv, TreesQuiet, HeadsQuiet
<1> QED
  BY <1>1, <1>2 DEF GitInv

(* A worktree's HEAD moves its own branch or no branch.                    *)
LEMMA MoveHeadQuiet ==
  ASSUME Branches, Checkouts, NEW a \in Attempt, NEW h, MoveHead(a, h)
  PROVE  HeadsQuiet
<1>1. /\ a \in Checkout /\ a # Main /\ a \notin Target
      /\ Main \in Checkout /\ Attempt \subseteq Checkout /\ Target \subseteq DOMAIN tip
  BY GitAssumption DEF Checkout, Target, Branches
<1>2. CASE at[a].branch = NoBranch
  BY <1>1, <1>2 DEF MoveHead, HeadsQuiet, Checkouts, Detached
<1>3. CASE at[a].branch # NoBranch
  <2>1. at[a].branch = a
    BY <1>3 DEF Checkouts
  <2> QED
    BY <1>1, <1>3, <2>1 DEF MoveHead, HeadsQuiet, Checkouts
<1> QED
  BY <1>2, <1>3

(* So does a rebase, whatever it replays.                                  *)
LEMMA RebaseQuiet ==
  ASSUME Branches, Checkouts, NEW a \in Attempt, NEW onto, NEW h, NEW commits,
         RunRebase(a, onto, h, commits)
  PROVE  HeadsQuiet /\ DOMAIN index' = Checkout /\ index'[Main] = index[Main]
<1>1. /\ a \in Checkout /\ a # Main /\ a \notin Target
      /\ Main \in Checkout /\ Attempt \subseteq Checkout /\ Target \subseteq DOMAIN tip
  BY GitAssumption DEF Checkout, Target, Branches
<1>2. PICK r, t :
         /\ index' = [index EXCEPT ![a] = t]
         /\ \/ tip' = [tip EXCEPT ![a] = r] /\ at' = [at EXCEPT ![a] = OnBranch(a)]
            \/ at' = [at EXCEPT ![a] = Detached(r)] /\ tip' = tip
  BY DEF RunRebase
<1>3. HeadsQuiet
  BY <1>1, <1>2 DEF HeadsQuiet, Checkouts, OnBranch, Detached
<1> QED
  BY <1>1, <1>2, <1>3 DEF Checkouts

(* HEADs, branches and the project's index are not written at all.         *)
LEMMA StillTrees ==
  ASSUME Branches, Checkouts, UNCHANGED <<tip, at, index, staged, origin, lost>>
  PROVE  TreesQuiet
BY DEF Branches, Checkouts, TreesQuiet, HeadsQuiet

(* An attempt's own index is not the project's.                            *)
LEMMA OwnIndex ==
  ASSUME Checkouts, NEW a \in Attempt, NEW t, index' = [index EXCEPT ![a] = t]
  PROVE  DOMAIN index' = Checkout /\ index'[Main] = index[Main]
BY GitAssumption DEF Checkouts, Checkout

(* What the agents do, and what the server does in their worktrees.        *)
LEMMA WorktreeSteps ==
  ASSUME GitInv, NEW a \in Attempt,
         \/ \E f \in File : AgentEdits(a, f) \/ delete_task_attempt_file(a, f)
         \/ commit(a) \/ RecordBefore(a) \/ AgentResolves(a) \/ AgentContinues(a)
         \/ abort_conflicts_task_attempt(a) \/ push_task_attempt_branch(a)
         \/ \E force \in BOOLEAN : reset_worktree_to_commit(a, force)
  PROVE  GitInv'
<1>0. Branches /\ Checkouts
  BY DEF GitInv
<1>1. ASSUME NEW f \in File, AgentEdits(a, f) PROVE GitInv'
  BY <1>0, <1>1, StillTrees, QuietStep DEF AgentEdits
<1>2. CASE RecordBefore(a)
  BY <1>0, <1>2, StillTrees, QuietStep DEF RecordBefore
<1>3. ASSUME NEW f \in File, delete_task_attempt_file(a, f) PROVE GitInv'
  <2>1. HeadsQuiet
    <3>1. \/ UNCHANGED <<tip, at>>
          \/ \E h : MoveHead(a, h)
      BY <1>3 DEF delete_task_attempt_file, delete_file_and_commit
    <3> QED
      BY <3>1, <1>0, MoveHeadQuiet DEF HeadsQuiet, Checkouts
  <2>2. /\ index' = [index EXCEPT ![a] = [@ EXCEPT ![f] = None]]
        /\ UNCHANGED <<origin, target, handler, merges, staged, lost>>
    BY <1>3 DEF delete_task_attempt_file, delete_file_and_commit
  <2>3. TreesQuiet
    BY <1>0, <2>1, <2>2, OwnIndex DEF TreesQuiet
  <2> QED
    BY <2>2, <2>3, QuietStep
<1>4. CASE commit(a)
  <2>1. HeadsQuiet
    <3>1. \/ UNCHANGED <<tip, at>>
          \/ \E h : MoveHead(a, h)
      BY <1>4 DEF commit
    <3> QED
      BY <3>1, <1>0, MoveHeadQuiet DEF HeadsQuiet, Checkouts
  <2>2. /\ index' = [index EXCEPT ![a] = Added(a)]
        /\ UNCHANGED <<origin, target, handler, merges, staged, lost>>
    BY <1>4 DEF commit
  <2>3. TreesQuiet
    BY <1>0, <2>1, <2>2, OwnIndex DEF TreesQuiet
  <2> QED
    BY <2>2, <2>3, QuietStep
<1>5. CASE AgentResolves(a)
  <2>1. PICK t : index' = [index EXCEPT ![a] = t]
    BY <1>5 DEF AgentResolves
  <2>2. UNCHANGED <<tip, at, origin, target, handler, merges, staged, lost>>
    BY <1>5 DEF AgentResolves
  <2>3. TreesQuiet
    BY <1>0, <2>1, <2>2, OwnIndex DEF TreesQuiet, HeadsQuiet, Checkouts
  <2> QED
    BY <2>2, <2>3, QuietStep
<1>6. CASE AgentContinues(a)
  <2>1. \E done : RunRebase(a, done, tip[a], rebasing[a].todo)
    BY <1>6 DEF AgentContinues
  <2>2. UNCHANGED <<origin, target, handler, merges, staged, lost>>
    BY <1>6 DEF AgentContinues
  <2>3. TreesQuiet
    BY <1>0, <2>1, <2>2, RebaseQuiet DEF TreesQuiet
  <2> QED
    BY <2>2, <2>3, QuietStep
<1>7. CASE abort_conflicts_task_attempt(a)
  <2>1. \/ at' = [at EXCEPT ![a] = OnBranch(a)] /\ index' = [index EXCEPT ![a] = Tree(tip[a])]
        \/ UNCHANGED <<at, index>>
    BY <1>7 DEF abort_conflicts_task_attempt, abort_conflicts
  <2>2. UNCHANGED <<tip, origin, target, handler, merges, staged, lost>>
    BY <1>7 DEF abort_conflicts_task_attempt, abort_conflicts
  <2>3. HeadsQuiet
    BY <1>0, <2>1, <2>2, GitAssumption DEF HeadsQuiet, Checkouts, Checkout, OnBranch
  <2>4. TreesQuiet
    BY <1>0, <2>1, <2>2, <2>3, OwnIndex DEF TreesQuiet, Checkouts
  <2> QED
    BY <2>2, <2>4, QuietStep
<1>8. CASE push_task_attempt_branch(a)
  <2>1. /\ origin' = [origin EXCEPT ![a] = tip[a]]
        /\ UNCHANGED <<tip, at, index, target, handler, merges, staged, lost>>
    BY <1>8 DEF push_task_attempt_branch, push_to_github
  <2>2. TreesQuiet
    BY <1>0, <2>1, GitAssumption DEF TreesQuiet, HeadsQuiet, Branches, Checkouts
  <2> QED
    BY <2>1, <2>2, QuietStep
<1>9. ASSUME NEW force \in BOOLEAN, reset_worktree_to_commit(a, force) PROVE GitInv'
  <2>1. /\ MoveHead(a, before[a])
        /\ index' = [index EXCEPT ![a] = Tree(before[a])]
        /\ UNCHANGED <<origin, target, handler, merges, staged, lost>>
    BY <1>9 DEF reset_worktree_to_commit
  <2>2. TreesQuiet
    BY <1>0, <2>1, OwnIndex, MoveHeadQuiet DEF TreesQuiet
  <2> QED
    BY <2>1, <2>2, QuietStep
<1> QED
  BY <1>1, <1>2, <1>3, <1>4, <1>5, <1>6, <1>7, <1>8, <1>9

-----------------------------------------------------------------------------
(* Steps of a handler.                                                     *)

(* What a target keeps, it goes on keeping.                                *)
TargetsGrow == /\ \A b \in Target : \A h : IsHistory(h) /\ Keeps(b, h) => Keeps(b, h)'
               /\ MainIsKept => MainIsKept'

(* A handler goes on to r: what has to be shown of r.                      *)
LEMMA HandlerStep ==
  ASSUME Rows, RecordIsKept, MovedIsKept, MainIsKept, TargetsGrow,
         NEW a \in Attempt, NEW r, handler' = [handler EXCEPT ![a] = r], merges' = merges,
         DOMAIN target' = Attempt, \A c \in Attempt : target'[c] \in Target,
         HandlerOK(r),
         r.op = "moved" => IsPrefix(r.merged, tip'[r.base])
  PROVE  Rows' /\ RecordIsKept' /\ MovedIsKept' /\ MainIsKept'
<1>1. /\ DOMAIN handler = Attempt /\ DOMAIN handler' = Attempt /\ handler'[a] = r
      /\ \A c \in Attempt : c # a => handler'[c] = handler[c]
  BY DEF Rows
<1>2. Rows'
  BY <1>1 DEF Rows
<1>3. RecordIsKept'
  BY DEF RecordIsKept, Rows, TargetsGrow
<1>4. MovedIsKept'
  <2> SUFFICES ASSUME NEW x \in Attempt, handler'[x].op = "moved"
               PROVE  Keeps(handler[x].base, handler[x].merged)'
    BY DEF MovedIsKept
  <2>1. CASE x = a
    BY <1>1, <2>1 DEF Keeps
  <2>2. CASE x # a
    <3>1. handler'[x] = handler[x] /\ Keeps(handler[x].base, handler[x].merged)
      BY <1>1, <2>2 DEF MovedIsKept
    <3>2. IsHistory(handler[x].merged) /\ handler[x].base \in Target
      BY <1>1, <2>2 DEF Rows, HandlerOK
    <3> QED
      BY <3>1, <3>2 DEF TargetsGrow
  <2> QED
    BY <2>1, <2>2
<1>5. MainIsKept'
  BY DEF TargetsGrow
<1> QED
  BY <1>2, <1>3, <1>4, <1>5

(* Handlers that are done, wait to merge or wait to rebase.                *)
LEMMA SimpleHandlers ==
  ASSUME NEW a \in Attempt, Rows
  PROVE  /\ HandlerOK(Idle) /\ Idle.op = "idle"
         /\ \A b \in Target : HandlerOK([op |-> "status", base |-> b])
         /\ \A b \in Target : LET r == [op |-> "rebase", old |-> target[a], new |-> b]
                              IN  HandlerOK(r) /\ r.op = "rebase"
BY DEF HandlerOK, Idle, Rows

(* The targets are not written: they hold what they held.                  *)
LEMMA StillTargets ==
  ASSUME TreesQuiet
  PROVE  TargetsGrow
BY DEF TreesQuiet, HeadsQuiet, TargetsGrow, Keeps, MainIsKept

(* A merge request is taken and has looked at the branch status.           *)
LEMMA MergeStarts ==
  ASSUME GitInv, NEW a \in Attempt, merge_task_attempt(a)
  PROVE  GitInv'
<1> DEFINE r == [op |-> "status", base |-> target[a]]
<1>1. /\ handler' = [handler EXCEPT ![a] = r]
      /\ UNCHANGED <<tip, origin, at, index, staged, target, merges, lost>>
  BY DEF merge_task_attempt, MergeCheck
<1>2. TreesQuiet /\ TargetsGrow
  BY <1>1, StillTrees, StillTargets DEF GitInv
<1>3. HandlerOK(r) /\ r.op = "status"
  BY SimpleHandlers DEF GitInv, Rows
<1> HIDE DEF r
<1>4. Rows' /\ RecordIsKept' /\ MovedIsKept' /\ MainIsKept'
  BY <1>1, <1>2, <1>3, HandlerStep DEF GitInv, Rows
<1>5. Branches' /\ Checkouts' /\ BaseCheckoutInStep'
  BY <1>2, TreesStep DEF GitInv
<1> QED
  BY <1>4, <1>5 DEF GitInv

(* Main is found checked out in the project's directory, no other target   *)
(* is found anywhere.                                                      *)
LEMMA WhereTargetIs ==
  ASSUME Checkouts, NEW b \in Target
  PROVE  find_checkout_path_for_branch(b) = IF b = Main THEN {Main} ELSE {}
BY GitAssumption DEF Checkouts, Checkout, Target, OnBranch, NoBranch, find_checkout_path_for_branch

LEMMA MergeLooks ==
  ASSUME GitInv, NEW a \in Attempt, MergeFindsBase(a)
  PROVE  GitInv'
<1> DEFINE b == handler[a].base
           mem == [op |-> "memory", base |-> b, ours |-> tip[b], theirs |-> tip[a]]
           cli == [op |-> "cli", base |-> b, place |-> Main]
<1>1. b \in Target
  BY DEF MergeFindsBase, GitInv, Rows, HandlerOK
<1>2. UNCHANGED <<tip, origin, at, index, staged, target, merges, lost>>
  BY DEF MergeFindsBase
<1>3. TreesQuiet /\ TargetsGrow
  BY <1>2, StillTrees, StillTargets DEF GitInv
<1>4. PICK r : /\ handler' = [handler EXCEPT ![a] = r]
               /\ r = Idle \/ (r = mem /\ b # Main) \/ (r = cli /\ b = Main)
  <2>1. find_checkout_path_for_branch(b) = IF b = Main THEN {Main} ELSE {}
    BY <1>1, WhereTargetIs DEF GitInv
  <2>2. (CHOOSE c \in {Main} : TRUE) = Main
    OBVIOUS
  <2>3. CASE b = Main
    BY <2>1, <2>2, <2>3 DEF MergeFindsBase
  <2>4. CASE b # Main
    BY <2>1, <2>4 DEF MergeFindsBase
  <2> QED
    BY <2>3, <2>4
<1>5. HandlerOK(mem) \/ b = Main
  BY <1>1 DEF HandlerOK, GitInv, Branches
<1>6. HandlerOK(cli) \/ b # Main
  BY <1>1 DEF HandlerOK
<1>7. HandlerOK(r) /\ r.op # "moved"
  BY <1>4, <1>5, <1>6, SimpleHandlers DEF GitInv
<1>8. Rows' /\ RecordIsKept' /\ MovedIsKept' /\ MainIsKept'
  BY <1>1, <1>2, <1>3, <1>4, <1>7, HandlerStep DEF GitInv, Rows
<1>9. Branches' /\ Checkouts' /\ BaseCheckoutInStep'
  BY <1>3, TreesStep DEF GitInv
<1> QED
  BY <1>8, <1>9 DEF GitInv

(* A row is written, alone or with a handler that waits to rebase.         *)
LEMMA TargetChanges ==
  ASSUME GitInv, NEW a \in Attempt, NEW b \in Target,
         change_target_branch(a, b) \/ rebase_task_attempt(a, b)
  PROVE  GitInv'
<1>1. /\ target' = [target EXCEPT ![a] = b]
      /\ UNCHANGED <<tip, origin, at, index, staged, merges, lost>>
  BY DEF change_target_branch, rebase_task_attempt
<1>2. TreesQuiet /\ TargetsGrow
  BY <1>1, StillTrees, StillTargets DEF GitInv
<1>3. DOMAIN target' = Attempt /\ \A c \in Attempt : target'[c] \in Target
  BY <1>1 DEF GitInv, Rows
<1>4. change_target_branch(a, b) => Rows' /\ RecordIsKept' /\ MovedIsKept' /\ MainIsKept'
  <2> HAVE change_target_branch(a, b)
  <2>1. handler' = handler
    BY DEF change_target_branch
  <2>2. Rows'
    BY <1>1, <1>3, <2>1 DEF GitInv, Rows
  <2>3. RecordIsKept' /\ MovedIsKept' /\ MainIsKept'
    BY <1>1, <2>1 DEF GitInv, RecordIsKept, MovedIsKept, MainIsKept, Keeps
  <2> QED
    BY <2>2, <2>3
<1>5. rebase_task_attempt(a, b) => Rows' /\ RecordIsKept' /\ MovedIsKept' /\ MainIsKept'
  <2> HAVE rebase_task_attempt(a, b)
  <2>1. PICK r : /\ handler' = [handler EXCEPT ![a] = r]
                 /\ HandlerOK(r) /\ r.op # "moved"
    BY SimpleHandlers DEF rebase_task_attempt, GitInv
  <2> QED
    BY <1>1, <1>2, <1>3, <2>1, HandlerStep DEF GitInv
<1>6. Branches' /\ Checkouts' /\ BaseCheckoutInStep'
  BY <1>2, TreesStep DEF GitInv
<1> QED
  BY <1>4, <1>5, <1>6 DEF GitInv

(* A rebase fetches, runs or is refused.  A fetch overwrites the remote-   *)
(* tracking branch, but not once a merge into it is made.                  *)
LEMMA RebaseStep ==
  ASSUME GitInv, NEW a \in Attempt, rebase_branch(a)
  PROVE  GitInv'
<1>1. UNCHANGED <<origin, target, merges, staged, lost>>
  BY DEF rebase_branch
<1>2. CASE ~Shadowed /\ tip' = [tip EXCEPT ![Origin] = origin[Origin]]
           /\ UNCHANGED <<at, index, handler>>
  <2>1. \A b \in Target : b # Origin => tip'[b] = tip[b]
    BY <1>2 DEF GitInv, Branches, Target
  <2>2. Branches' /\ Checkouts'
    BY <1>1, <1>2 DEF GitInv, Branches, Checkouts, Target
  <2>3. BaseCheckoutInStep'
    <3>1. HeadOf(Main)' = HeadOf(Main)
      BY <1>2, <2>1, GitAssumption DEF HeadOf, GitInv, Checkouts, OnBranch, Target, NoBranch
    <3> QED
      BY <1>1, <1>2, <3>1 DEF GitInv, BaseCheckoutInStep, Tree
  <2>4. Rows' /\ MainIsKept'
    BY <1>1, <1>2 DEF GitInv, Rows, MainIsKept
  <2>5. RecordIsKept'
    BY <1>1, <1>2, <2>1 DEF GitInv, RecordIsKept, Keeps, Rows, Shadowed
  <2>6. MovedIsKept'
    BY <1>1, <1>2, <2>1 DEF GitInv, MovedIsKept, Keeps, Rows, HandlerOK, Shadowed
  <2> QED
    BY <2>2, <2>3, <2>4, <2>5, <2>6 DEF GitInv
<1>3. CASE handler' = [handler EXCEPT ![a] = Idle] /\ TreesQuiet
  <2>1. Rows' /\ RecordIsKept' /\ MovedIsKept' /\ MainIsKept'
    BY <1>1, <1>3, StillTargets, SimpleHandlers, HandlerStep DEF GitInv, Rows
  <2>2. Branches' /\ Checkouts' /\ BaseCheckoutInStep'
    BY <1>3, TreesStep DEF GitInv
  <2> QED
    BY <2>1, <2>2 DEF GitInv
<1>4. \/ ~Shadowed /\ tip' = [tip EXCEPT ![Origin] = origin[Origin]] /\ UNCHANGED <<at, index, handler>>
      \/ /\ handler' = [handler EXCEPT ![a] = Idle]
         /\ \E onto, mine : RunRebase(a, onto, tip[a], mine)
      \/ handler' = [handler EXCEPT ![a] = Idle] /\ UNCHANGED <<tip, at, index>>
  BY DEF rebase_branch
<1>5. (\E onto, mine : RunRebase(a, onto, tip[a], mine)) => TreesQuiet
  BY <1>1, RebaseQuiet DEF GitInv, TreesQuiet
<1>6. UNCHANGED <<tip, at, index>> => TreesQuiet
  BY <1>1, StillTrees DEF GitInv
<1> QED
  BY <1>2, <1>3, <1>4, <1>5, <1>6

-----------------------------------------------------------------------------
(* Steps that move a target.                                               *)

(* Main grows by one commit: what it held it still holds.                  *)
LEMMA MainGrows ==
  ASSUME Branches, NEW e, tip' = [tip EXCEPT ![Main] = Append(tip[Main], e)],
         origin' = origin, lost' = lost
  PROVE  Branches' /\ TargetsGrow
<1>1. Main \in Target /\ IsHistory(tip[Main]) /\ Target \subseteq DOMAIN tip
  BY GitAssumption DEF Target, Branches
<1>2. IsHistory(tip'[Main]) /\ IsPrefix(tip[Main], tip'[Main])
  BY <1>1, AppendHistory
<1>3. \A b \in Target : b # Main => tip'[b] = tip[b]
  BY <1>1
<1>4. TargetsGrow
  <2>1. ASSUME NEW b \in Target, NEW h, IsHistory(h), IsPrefix(h, tip[b])
        PROVE  IsPrefix(h, tip'[b])
    BY <1>1, <1>2, <1>3, <2>1, PrefixIsTransitive
  <2> QED
    BY <2>1 DEF TargetsGrow, Keeps, MainIsKept
<1>5. Branches'
  BY <1>2, <1>3 DEF Branches
<1> QED
  BY <1>4, <1>5

(* The squash commit of the CLI, and the conflict it may stop with.        *)
LEMMA SquashStep ==
  ASSUME GitInv, NEW a \in Attempt, merge_squash_commit(a)
  PROVE  GitInv'
<1> DEFINE d == Squash(tip[Main], tip[a])
           new == [f \in File |-> IF f \in DOMAIN d THEN d[f] ELSE index[Main][f]]
           h == Append(tip[Main], Commit(Delta(new, Tree(tip[Main])), "squash"))
           r == [op |-> "moved", base |-> Main, merged |-> h, theirs |-> tip[a]]
<1>1. /\ handler[a].op = "cli" /\ handler[a].base = Main /\ handler[a].place = Main
      /\ Main \in Target /\ Main \in Checkout /\ Main # NoBranch
      /\ HeadOf(Main) = tip[Main] /\ DOMAIN index = Checkout
      /\ IsHistory(tip[Main])
  <2>1. handler[a].op = "cli" /\ HandlerOK(handler[a])
    BY DEF merge_squash_commit, GitInv, Rows
  <2>2. handler[a].base = Main /\ handler[a].place = Main
    BY <2>1 DEF HandlerOK
  <2>3. Main \in Target /\ Main \in Checkout /\ Main # NoBranch
    BY GitAssumption DEF Target, Checkout, NoBranch
  <2>4. HeadOf(Main) = tip[Main] /\ DOMAIN index = Checkout /\ IsHistory(tip[Main])
    BY <2>3 DEF GitInv, Checkouts, Branches, HeadOf, OnBranch
  <2> QED
    BY <2>1, <2>2, <2>3, <2>4
<1>2. UNCHANGED <<origin, at, target, merges, lost>>
  BY DEF merge_squash_commit
<1>3. ASSUME HeadOf(Main)' = HeadOf(Main), tip' = tip, handler' = [handler EXCEPT ![a] = Idle],
             DOMAIN index' = Checkout, DOMAIN index'[Main] = File, BaseCheckoutInStep'
      PROVE  GitInv'
  <2>1. TargetsGrow
    BY <1>2, <1>3 DEF TargetsGrow, Keeps, MainIsKept
  <2>2. Rows' /\ RecordIsKept' /\ MovedIsKept' /\ MainIsKept'
    BY <1>2, <1>3, <2>1, SimpleHandlers, HandlerStep DEF GitInv, Rows
  <2>3. Branches' /\ Checkouts'
    BY <1>2, <1>3 DEF GitInv, Branches, Checkouts
  <2> QED
    BY <1>3, <2>2, <2>3 DEF GitInv
<1>4. CASE handler' = [handler EXCEPT ![a] = Idle] /\ UNCHANGED <<tip, index, staged>>
  <2>1. HeadOf(Main)' = HeadOf(Main)
    BY <1>2, <1>4 DEF HeadOf
  <2>2. BaseCheckoutInStep'
    BY <1>4, <2>1 DEF GitInv, BaseCheckoutInStep, Tree
  <2> QED
    BY <1>3, <1>4, <2>1, <2>2 DEF GitInv, Checkouts
<1>5. ASSUME NEW t, handler' = [handler EXCEPT ![a] = Idle], tip' = tip,
             index' = [index EXCEPT ![Main] = t], DOMAIN t = File,
             \A f \in File : f \notin DOMAIN d => t[f] = index[Main][f],
             staged' = staged \cup DOMAIN d
      PROVE  GitInv'
  <2>1. HeadOf(Main)' = HeadOf(Main)
    BY <1>2, <1>5 DEF HeadOf
  <2>2. index'[Main] = t /\ DOMAIN index' = Checkout
    BY <1>1, <1>5
  <2>3. BaseCheckoutInStep'
    BY <1>5, <2>1, <2>2 DEF GitInv, BaseCheckoutInStep, Tree
  <2> QED
    BY <1>3, <1>5, <2>1, <2>2, <2>3
<1>6. CASE /\ index' = [index EXCEPT ![Main] = new] /\ tip' = [tip EXCEPT ![Main] = h]
           /\ handler' = [handler EXCEPT ![a] = r]
  <2>1. Branches' /\ TargetsGrow
    BY <1>2, <1>6, MainGrows DEF GitInv
  <2>2. tip'[Main] = h /\ IsHistory(h) /\ index'[Main] = new /\ DOMAIN index' = Checkout
    BY <1>1, <1>6, AppendHistory DEF GitInv, Branches, Target
  <2>3. HandlerOK(r) /\ r.op = "moved" /\ r.base = Main /\ r.merged = h
    BY <1>1, <2>2 DEF HandlerOK
  <2>4. IsPrefix(h, tip'[Main])
    BY <2>2, PrefixIsReflexive
  <2>5. Checkouts'
    BY <1>2, <2>2 DEF GitInv, Checkouts
  <2>6. BaseCheckoutInStep'
    <3>1. HeadOf(Main)' = h
      BY <1>1, <1>2, <2>2 DEF HeadOf, GitInv, Checkouts, OnBranch
    <3>2. \A f \in File : Tree(h)[f] = new[f]
      BY <1>1, TreeOfCommit
    <3> QED
      <4> HIDE DEF h, new
      <4> QED
        BY <2>2, <3>1, <3>2 DEF BaseCheckoutInStep, Tree
  <2> HIDE DEF r, h, new, d
  <2>7. Rows' /\ RecordIsKept' /\ MovedIsKept' /\ MainIsKept'
    BY <1>1, <1>2, <1>6, <2>1, <2>3, <2>4, HandlerStep DEF GitInv, Rows
  <2> QED
    BY <2>1, <2>5, <2>6, <2>7 DEF GitInv
<1>7. \/ handler' = [handler EXCEPT ![a] = Idle] /\ UNCHANGED <<tip, index, staged>>
      \/ /\ handler' = [handler EXCEPT ![a] = Idle] /\ UNCHANGED tip
         /\ staged' = staged \cup DOMAIN d
         /\ index' = [index EXCEPT ![Main] = [f \in File |->
              IF f \in Clash(tip[Main], tip[a]) THEN Conflict(Tree(tip[Main])[f], d[f])
              ELSE IF f \in DOMAIN d THEN d[f] ELSE @[f]]]
      \/ /\ index' = [index EXCEPT ![Main] = new] /\ tip' = [tip EXCEPT ![Main] = h]
         /\ handler' = [handler EXCEPT ![a] = r]
  BY <1>1 DEF merge_squash_commit
<1>8. Clash(tip[Main], tip[a]) \subseteq DOMAIN d
  BY DEF Clash, Squash
<1>9. CASE /\ handler' = [handler EXCEPT ![a] = Idle] /\ UNCHANGED tip
           /\ staged' = staged \cup DOMAIN d
           /\ index' = [index EXCEPT ![Main] = [f \in File |->
                IF f \in Clash(tip[Main], tip[a]) THEN Conflict(Tree(tip[Main])[f], d[f])
                ELSE IF f \in DOMAIN d THEN d[f] ELSE @[f]]]
  <2> DEFINE t == [f \in File |->
                IF f \in Clash(tip[Main], tip[a]) THEN Conflict(Tree(tip[Main])[f], d[f])
                ELSE IF f \in DOMAIN d THEN d[f] ELSE index[Main][f]]
  <2>1. index' = [index EXCEPT ![Main] = t] /\ DOMAIN t = File
    BY <1>9
  <2>2. \A f \in File : f \notin DOMAIN d => t[f] = index[Main][f]
    BY <1>8
  <2> HIDE DEF t, d
  <2> QED
    BY <1>5, <1>9, <2>1, <2>2
<1> QED
  BY <1>4, <1>6, <1>7, <1>9

(* A merge in memory appends to its target, or overwrites what the target  *)
(* has become since; the target is not Main.                               *)
LEMMA MemoryStep ==
  ASSUME GitInv, NEW a \in Attempt, perform_squash_merge(a)
  PROVE  GitInv'
<1> DEFINE b == handler[a].base
           h == Append(handler[a].ours,
                       Commit(Squash(handler[a].ours, handler[a].theirs), "squash"))
           r == [op |-> "moved", base |-> b, merged |-> h, theirs |-> handler[a].theirs]
<1>1. /\ handler[a].op = "memory" /\ b \in Target /\ b # Main
      /\ IsHistory(handler[a].ours) /\ DOMAIN handler = Attempt
  <2>1. handler[a].op = "memory" /\ HandlerOK(handler[a]) /\ DOMAIN handler = Attempt
    BY DEF perform_squash_merge, GitInv, Rows
  <2> QED
    BY <2>1 DEF HandlerOK
<1>2. UNCHANGED <<origin, at, index, target, merges, staged>>
  BY DEF perform_squash_merge
<1>3. IsHistory(h) /\ IsPrefix(handler[a].ours, h)
  BY <1>1, AppendHistory
<1>4. \/ handler' = [handler EXCEPT ![a] = Idle] /\ UNCHANGED <<tip, lost>>
      \/ /\ handler' = [handler EXCEPT ![a] = r] /\ tip' = [tip EXCEPT ![b] = h]
         /\ \/ tip[b] = handler[a].ours /\ lost' = lost
            \/ lost' = lost \cup {[base |-> b, history |-> tip[b]]}
  BY DEF perform_squash_merge
<1> HIDE DEF h
<1>5. CASE handler' = [handler EXCEPT ![a] = Idle] /\ UNCHANGED <<tip, lost>>
  <2>1. TreesQuiet /\ TargetsGrow
    BY <1>2, <1>5, StillTrees, StillTargets DEF GitInv
  <2>2. Rows' /\ RecordIsKept' /\ MovedIsKept' /\ MainIsKept'
    BY <1>2, <1>5, <2>1, SimpleHandlers, HandlerStep DEF GitInv, Rows
  <2>3. Branches' /\ Checkouts' /\ BaseCheckoutInStep'
    BY <2>1, TreesStep DEF GitInv
  <2> QED
    BY <2>2, <2>3 DEF GitInv
<1>6. CASE /\ handler' = [handler EXCEPT ![a] = r] /\ tip' = [tip EXCEPT ![b] = h]
           /\ \/ tip[b] = handler[a].ours /\ lost' = lost
              \/ lost' = lost \cup {[base |-> b, history |-> tip[b]]}
  <2>1. /\ DOMAIN tip' = DOMAIN tip /\ tip'[b] = h
        /\ \A c \in Target : c # b => tip'[c] = tip[c]
    BY <1>1, <1>6 DEF GitInv, Branches, Target
  <2>2. Branches' /\ Checkouts'
    BY <1>2, <1>3, <2>1 DEF GitInv, Branches, Checkouts
  <2>3. BaseCheckoutInStep'
    <3>1. HeadOf(Main)' = HeadOf(Main)
      BY <1>1, <1>2, <2>1, GitAssumption DEF HeadOf, GitInv, Checkouts, OnBranch, Target, NoBranch
    <3> QED
      BY <1>2, <3>1 DEF GitInv, BaseCheckoutInStep, Tree
  <2>4. TargetsGrow
    <3> DEFINE l0 == [base |-> b, history |-> tip[b]]
    <3>1. MainIsKept => MainIsKept'
      BY <1>1, <1>6 DEF MainIsKept
    <3>2. ASSUME NEW c \in Target, NEW k, IsHistory(k), Keeps(c, k)
          PROVE  Keeps(c, k)'
      <4>1. CASE c # b
        BY <1>6, <2>1, <3>2, <4>1 DEF Keeps
      <4>2. CASE c = b /\ l0 \in lost'
        <5>1. l0.base = c /\ l0.history = tip[c] /\ lost \subseteq lost'
          BY <1>6, <4>2
        <5> HIDE DEF l0, b
        <5> QED
          BY <3>2, <4>2, <5>1 DEF Keeps
      <4>3. CASE c = b /\ lost' = lost /\ tip[b] = handler[a].ours
        BY <1>1, <1>3, <2>1, <3>2, <4>3, PrefixIsTransitive DEF Keeps
      <4> QED
        BY <1>6, <4>1, <4>2, <4>3
    <3> QED
      BY <3>1, <3>2 DEF TargetsGrow
  <2>5. HandlerOK(r) /\ IsPrefix(r.merged, tip'[r.base])
    BY <1>1, <1>3, <2>1, PrefixIsReflexive DEF HandlerOK
  <2> HIDE DEF r, b
  <2>6. Rows' /\ RecordIsKept' /\ MovedIsKept' /\ MainIsKept'
    BY <1>2, <1>6, <2>4, <2>5, HandlerStep DEF GitInv, Rows
  <2> QED
    BY <2>2, <2>3, <2>6 DEF GitInv
<1> QED
  BY <1>4, <1>5, <1>6

(* The squash commit is recorded, and the task branch moved to it.         *)
LEMMA RecordStep ==
  ASSUME GitInv, NEW a \in Attempt, MergeMovesTaskBranch(a)
  PROVE  GitInv'
<1> DEFINE m0 == [base |-> handler[a].base, commit |-> handler[a].merged]
<1>1. /\ handler[a].op = "moved" /\ m0.base \in Target /\ IsHistory(m0.commit)
      /\ Keeps(m0.base, m0.commit)
  <2>1. handler[a].op = "moved" /\ HandlerOK(handler[a])
    BY DEF MergeMovesTaskBranch, GitInv, Rows
  <2> QED
    BY <2>1 DEF HandlerOK, GitInv, MovedIsKept
<1>2. /\ tip' = [tip EXCEPT ![a] = handler[a].merged]
      /\ merges' = [merges EXCEPT ![a] = @ \cup {m0}]
      /\ handler' = [handler EXCEPT ![a] = Idle]
      /\ UNCHANGED <<origin, at, index, target, staged, lost>>
  BY DEF MergeMovesTaskBranch
<1>3. TreesQuiet
  BY <1>2, GitAssumption DEF TreesQuiet, HeadsQuiet, GitInv, Branches, Checkouts, Target
<1>4. Branches' /\ Checkouts' /\ BaseCheckoutInStep'
  BY <1>3, TreesStep DEF GitInv
<1>5. /\ DOMAIN handler' = Attempt /\ handler'[a] = Idle /\ Idle.op = "idle" /\ HandlerOK(Idle)
      /\ \A c \in Attempt : c # a => handler'[c] = handler[c]
  BY <1>2, SimpleHandlers DEF GitInv, Rows
<1>6. /\ DOMAIN merges' = Attempt
      /\ \A c \in Attempt : \A m \in merges'[c] : m \in merges[c] \/ m = m0
  BY <1>2 DEF GitInv, Rows
<1>7. \A b \in Target : tip'[b] = tip[b]
  BY <1>3 DEF TreesQuiet, HeadsQuiet
<1> HIDE DEF m0
<1>8. Rows'
  BY <1>1, <1>2, <1>5, <1>6 DEF GitInv, Rows
<1>9. \A b \in Target : \A h : Keeps(b, h) => Keeps(b, h)'
  BY <1>2, <1>7 DEF Keeps
<1>10. RecordIsKept'
  BY <1>1, <1>6, <1>9 DEF GitInv, RecordIsKept, Rows
<1>11. MovedIsKept'
  BY <1>5, <1>9 DEF GitInv, MovedIsKept, Rows, HandlerOK
<1>12. MainIsKept'
  BY <1>2 DEF GitInv, MainIsKept
<1> QED
  BY <1>4, <1>8, <1>10, <1>11, <1>12 DEF GitInv

-----------------------------------------------------------------------------
(* The user in the project's directory, and the remote.                    *)

LEMMA UserEditsStep ==
  ASSUME GitInv, NEW f \in File, NEW s \in BOOLEAN, UserEdits(f, s)
  PROVE  GitInv'
<1>1. UNCHANGED <<tip, origin, at, target, handler, merges, lost>>
  BY DEF UserEdits
<1>2. \/ UNCHANGED <<index, staged, lost>>
      \/ /\ index' = [index EXCEPT ![Main] = [@ EXCEPT ![f] = User]]
         /\ staged' = staged \cup {f}
  BY DEF UserEdits
<1>3. /\ DOMAIN index' = Checkout /\ DOMAIN index'[Main] = File
      /\ \A g \in File : index'[Main][g] = index[Main][g] \/ g \in staged'
      /\ \A g \in staged : g \in staged'
  BY <1>2 DEF GitInv, Checkouts, Checkout
<1>4. Branches' /\ Checkouts'
  BY <1>1, <1>3 DEF GitInv, Branches, Checkouts
<1>5. BaseCheckoutInStep'
  <2>1. HeadOf(Main)' = HeadOf(Main)
    BY <1>1 DEF HeadOf
  <2> QED
    BY <1>3, <2>1 DEF GitInv, BaseCheckoutInStep, Tree
<1>6. Rows' /\ RecordIsKept' /\ MovedIsKept' /\ MainIsKept'
  BY <1>1, RecordsStep DEF GitInv
<1> QED
  BY <1>4, <1>5, <1>6 DEF GitInv

LEMMA UserCommitsStep ==
  ASSUME GitInv, UserCommits
  PROVE  GitInv'
<1> DEFINE h == Append(tip[Main], Commit(Delta(Added(Main), Tree(tip[Main])), "user"))
<1>1. Main \in Target /\ Main \in Checkout /\ Main # NoBranch
  BY GitAssumption DEF Target, Checkout, NoBranch
<1>2. HeadOf(Main) = tip[Main] /\ at[Main].branch = Main
  BY <1>1 DEF GitInv, Checkouts, HeadOf, OnBranch
<1>3. /\ tip' = [tip EXCEPT ![Main] = h] /\ index' = [index EXCEPT ![Main] = Added(Main)]
      /\ UNCHANGED <<at, origin, target, handler, merges, lost>>
  BY <1>1, <1>2 DEF UserCommits, MoveHead
<1>4. Branches' /\ TargetsGrow
  BY <1>3, MainGrows DEF GitInv
<1>5. tip'[Main] = h /\ index'[Main] = Added(Main) /\ DOMAIN Added(Main) = File
  BY <1>1, <1>3 DEF GitInv, Branches, Checkouts, Target, Added
<1>6. Checkouts'
  BY <1>3, <1>5 DEF GitInv, Checkouts
<1>7. BaseCheckoutInStep'
  <2>1. HeadOf(Main)' = h
    BY <1>1, <1>2, <1>3, <1>5 DEF HeadOf
  <2>2. \A f \in File : Tree(h)[f] = Added(Main)[f]
    BY <1>1, TreeOfCommit DEF GitInv, Branches
  <2> QED
    BY <1>5, <2>1, <2>2 DEF BaseCheckoutInStep, Tree
<1>8. Rows'
  BY <1>3 DEF GitInv, Rows
<1>9. RecordIsKept' /\ MainIsKept'
  BY <1>3, <1>4 DEF GitInv, RecordIsKept, TargetsGrow, Rows
<1>10. MovedIsKept'
  BY <1>3, <1>4 DEF GitInv, MovedIsKept, TargetsGrow, Rows, HandlerOK
<1> QED
  BY <1>4, <1>6, <1>7, <1>8, <1>9, <1>10 DEF GitInv

LEMMA RemoteStep ==
  ASSUME GitInv, NEW f \in File, RemoteMoves(f)
  PROVE  GitInv'
<1>1. /\ origin' = [origin EXCEPT ![Origin] = Append(@, Commit([g \in {f} |-> Remote], "user"))]
      /\ UNCHANGED <<tip, at, index, staged, target, handler, merges, lost>>
  BY DEF RemoteMoves
<1>2. Branches'
  BY <1>1, AppendHistory DEF GitInv, Branches
<1>3. Checkouts'
  BY <1>1 DEF GitInv, Checkouts
<1>4. BaseCheckoutInStep'
  <2>1. HeadOf(Main)' = HeadOf(Main)
    BY <1>1 DEF HeadOf
  <2> QED
    BY <1>1, <2>1 DEF GitInv, BaseCheckoutInStep, Tree
<1>5. Rows' /\ RecordIsKept' /\ MovedIsKept' /\ MainIsKept'
  BY <1>1, RecordsStep DEF GitInv
<1> QED
  BY <1>2, <1>3, <1>4, <1>5 DEF GitInv

-----------------------------------------------------------------------------
LEMMA GitStep == GitInv /\ [GitNext]_gitVars => GitInv'
<1> SUFFICES ASSUME GitInv, [GitNext]_gitVars PROVE GitInv'
  OBVIOUS
<1>1. CASE UNCHANGED gitVars
  BY <1>1, StillTrees, QuietStep DEF gitVars, GitInv
<1>2. CASE UserCommits
  BY <1>2, UserCommitsStep
<1>3. ASSUME NEW f \in File, RemoteMoves(f) \/ \E s \in BOOLEAN : UserEdits(f, s) PROVE GitInv'
  BY <1>3, RemoteStep, UserEditsStep
<1>4. ASSUME NEW a \in Attempt,
             \/ \E f \in File : AgentEdits(a, f) \/ delete_task_attempt_file(a, f)
             \/ commit(a) \/ RecordBefore(a) \/ AgentResolves(a) \/ AgentContinues(a)
             \/ abort_conflicts_task_attempt(a) \/ push_task_attempt_branch(a)
             \/ \E force \in BOOLEAN : reset_worktree_to_commit(a, force)
      PROVE  GitInv'
  BY <1>4, WorktreeSteps
<1>5. ASSUME NEW a \in Attempt,
             \/ merge_task_attempt(a) \/ MergeFindsBase(a) \/ merge_squash_commit(a)
             \/ perform_squash_merge(a) \/ MergeMovesTaskBranch(a) \/ rebase_branch(a)
      PROVE  GitInv'
  BY <1>5, MergeStarts, MergeLooks, SquashStep, MemoryStep, RecordStep, RebaseStep
<1>6. ASSUME NEW a \in Attempt, NEW b \in Target,
             change_target_branch(a, b) \/ rebase_task_attempt(a, b)
      PROVE  GitInv'
  BY <1>6, TargetChanges
<1> QED
  BY <1>1, <1>2, <1>3, <1>4, <1>5, <1>6 DEF GitNext

(* The inductive invariant holds in every reachable state: who is on which *)
(* branch, what each handler of merge_changes and rebase_branch goes on    *)
(* from, and that the targets keep what is recorded of them.               *)
THEOREM GitInvariant == GitSpec => []GitInv
<1>1. GitInit => GitInv
  BY GitInitInv
<1>2. GitInv /\ [GitNext]_gitVars => GitInv'
  BY GitStep
<1> QED
  BY <1>1, <1>2, PTL DEF GitSpec

(* The project's own checkout never falls behind its branch: what differs  *)
(* between its index and its HEAD, the user staged, or a merge that        *)
(* stopped in conflict (merge_changes, find_checkout_path_for_branch).     *)
THEOREM InStepWithBranch == GitSpec => []BaseCheckoutInStep
<1>1. GitInv => BaseCheckoutInStep
  BY DEF GitInv
<1> QED
  BY <1>1, GitInvariant, PTL

(* A merge into the project's branch that was recorded is in it.           *)
MainKeepsMerges ==
  \A a \in Attempt : \A m \in merges[a] : m.base = Main => IsPrefix(m.commit, tip[Main])

(* A merge into the project's branch that was recorded stays in it,        *)
(* however many merges, rebases, commits and resets run at the same time   *)
(* (merge_changes, Merge::create_direct).                                  *)
THEOREM MergesIntoMainStay == GitSpec => []MainKeepsMerges
<1>1. GitInv => MainKeepsMerges
  BY DEF GitInv, RecordIsKept, Keeps, MainIsKept, MainKeepsMerges
<1> QED
  BY <1>1, GitInvariant, PTL

(* A recorded merge stays in any branch it was made into, the remote-      *)
(* tracking one included, which is not fetched any more, until a merge in  *)
(* memory writes that branch from a commit it resolved before the last     *)
(* change (merge_changes, perform_squash_merge, fetch_branch_from_remote). *)
THEOREM MergesStay == GitSpec => []RecordedMergeIsInTarget
<1>1. GitInv => RecordedMergeIsInTarget
  BY DEF GitInv, RecordIsKept, Keeps, RecordedMergeIsInTarget
<1> QED
  BY <1>1, GitInvariant, PTL

-----------------------------------------------------------------------------
(* Contents: their marks count no further than `top` edits of the agents.  *)
(* A commit holds contents that are not in conflict.                       *)

IsContent(v, top) ==
  {1, 2} \subseteq DOMAIN v /\ \A a \in Attempt : \A n \in Nat : <<a, n>> \in Marks(v) => n <= top

Settled(v, top) == IsContent(v, top) /\ ~InConflict(v)

IsCommit(c, top) == "change" \in DOMAIN c /\ \A f \in DOMAIN c.change : Settled(c.change[f], top)

Sound(h, top) == IsHistory(h) /\ \A i \in 1 .. Len(h) : IsCommit(h[i], top)

(* A content that is no conflict and has no markers is its own mark.       *)
LEMMA PlainMarks ==
  ASSUME NEW x, NEW n, x \notin {"conflict", "markers"}
  PROVE  Marks(<<x, n>>) = {<<x, n>>} /\ ~InConflict(<<x, n>>) /\ {1, 2} \subseteq DOMAIN <<x, n>>
BY DEF Marks, InConflict

LEMMA NobodyIsSettled ==
  ASSUME NEW top
  PROVE  Settled(None, top) /\ Settled(User, top) /\ Settled(Remote, top)
<1>1. ASSUME NEW x \in {"nobody", "user", "remote"} PROVE Settled(<<x, 0>>, top)
  <2>1. \A a \in Attempt : a # x
    BY GitAssumption
  <2> QED
    BY <2>1, PlainMarks DEF Settled, IsContent
<1> QED
  BY <1>1 DEF None, User, Remote

(* The mark of an agent is no conflict.                                    *)
LEMMA MarkIsSettled ==
  ASSUME NEW top, NEW a \in Attempt, NEW n \in Nat, n <= top
  PROVE  Settled(<<a, n>>, top)
<1>1. a \notin {"conflict", "markers"}
  BY GitAssumption
<1> QED
  BY <1>1, PlainMarks DEF Settled, IsContent

(* A conflict is a content with the marks of both sides.                   *)
LEMMA ConflictHasMarks ==
  ASSUME NEW v, NEW w
  PROVE  /\ InConflict(Conflict(v, w)) /\ Marks(Conflict(v, w)) = Marks(v) \cup Marks(w)
         /\ {1, 2} \subseteq DOMAIN Conflict(v, w)
<1> DEFINE m == Marks(v) \cup Marks(w)
           c == <<"conflict", m, <<v, w>>>>
<1>1. Conflict(v, w) = c
  BY DEF Conflict
<1> HIDE DEF m
<1>2. c[1] = "conflict" /\ c[2] = m /\ {1, 2} \subseteq DOMAIN c
  OBVIOUS
<1> HIDE DEF c
<1> QED
  BY <1>1, <1>2 DEF InConflict, Marks, m

LEMMA ConflictIsContent ==
  ASSUME NEW top, NEW v, NEW w, IsContent(v, top), IsContent(w, top)
  PROVE  IsContent(Conflict(v, w), top)
BY ConflictHasMarks DEF IsContent

(* `git add` makes content with markers of it, with the same marks.        *)
LEMMA AddedIsSettled ==
  ASSUME NEW top, NEW c, \A f \in File : IsContent(files[c][f], top)
  PROVE  /\ DOMAIN Added(c) = File
         /\ \A f \in File : Settled(Added(c)[f], top) /\ Marks(Added(c)[f]) = Marks(files[c][f])
<1>1. DOMAIN Added(c) = File
  BY DEF Added
<1>2. ASSUME NEW f \in File
      PROVE  Settled(Added(c)[f], top) /\ Marks(Added(c)[f]) = Marks(files[c][f])
  <2> DEFINE v == files[c][f]
             w == [v EXCEPT ![1] = "markers"]
  <2>1. Added(c)[f] = IF InConflict(v) THEN w ELSE v
    BY DEF Added
  <2>2. IsContent(v, top)
    OBVIOUS
  <2> HIDE DEF v
  <2>3. CASE InConflict(v)
    <3>1. w[1] = "markers" /\ w[2] = v[2] /\ DOMAIN w = DOMAIN v
      BY <2>2 DEF IsContent
    <3> HIDE DEF w
    <3>2. Marks(w) = v[2] /\ Marks(v) = v[2]
      BY <2>3, <3>1 DEF Marks, InConflict
    <3> QED
      BY <2>1, <2>2, <2>3, <3>1, <3>2 DEF Settled, IsContent, InConflict, v
  <2>4. CASE ~InConflict(v)
    BY <2>1, <2>2, <2>4 DEF Settled, v
  <2> QED
    BY <2>3, <2>4
<1> QED
  BY <1>1, <1>2

LEMMA EmptyIsSound ==
  ASSUME NEW top
  PROVE  Sound(<<>>, top)
BY EmptyIsHistory DEF Sound

LEMMA TreeIsSettled ==
  ASSUME NEW top, NEW h, Sound(h, top), NEW f \in File
  PROVE  DOMAIN Tree(h) = File /\ Settled(Tree(h)[f], top)
<1> DEFINE touching == {i \in 1..Len(h) : f \in DOMAIN h[i].change}
<1>1. Tree(h)[f] = IF touching = {} THEN None ELSE h[Max(touching)].change[f]
  BY DEF Tree
<1>2. Len(h) \in Nat
  BY DEF Sound, IsHistory
<1>3. touching # {} => Max(touching) \in touching
  BY <1>2, MaxIsThere
<1>4. touching # {} => Settled(Tree(h)[f], top)
  BY <1>1, <1>3 DEF Sound, IsCommit
<1> QED
  BY <1>1, <1>4, NobodyIsSettled DEF Tree

LEMMA AppendIsSound ==
  ASSUME NEW top, NEW h, Sound(h, top), NEW c, IsCommit(c, top)
  PROVE  Sound(Append(h, c), top)
<1>1. IsHistory(Append(h, c))
  BY AppendHistory DEF Sound
<1>2. /\ Len(h) \in Nat /\ Len(Append(h, c)) = Len(h) + 1 /\ Append(h, c)[Len(h) + 1] = c
      /\ \A i \in 1 .. Len(h) : Append(h, c)[i] = h[i]
  BY DEF Sound, IsHistory
<1>3. \A i \in 1 .. Len(Append(h, c)) : i \in 1 .. Len(h) \/ i = Len(h) + 1
  BY <1>2
<1> QED
  BY <1>1, <1>2, <1>3 DEF Sound

(* A commit of settled contents.                                           *)
LEMMA DeltaIsCommit ==
  ASSUME NEW top, NEW new, NEW old, NEW kind, \A f \in File : Settled(new[f], top)
  PROVE  IsCommit(Commit(Delta(new, old), kind), top)
BY DEF Commit, Delta, IsCommit

LEMMA SquashIsCommit ==
  ASSUME NEW top, NEW h, NEW k, Sound(k, top)
  PROVE  /\ IsCommit(Commit(Squash(h, k), "squash"), top)
         /\ \A f \in DOMAIN Squash(h, k) : f \in File /\ Settled(Squash(h, k)[f], top)
<1>1. \A f \in DOMAIN Squash(h, k) : f \in File /\ Squash(h, k)[f] = Tree(k)[f]
  BY DEF Squash
<1>2. \A f \in DOMAIN Squash(h, k) : Settled(Squash(h, k)[f], top)
  BY <1>1, TreeIsSettled
<1>3. Commit(Squash(h, k), "squash").change = Squash(h, k)
      /\ "change" \in DOMAIN Commit(Squash(h, k), "squash")
  BY DEF Commit
<1> QED
  BY <1>1, <1>2, <1>3 DEF IsCommit

(* The rest of a history from a position on.                               *)
LEMMA RestIsSound ==
  ASSUME NEW top, NEW h, Sound(h, top), NEW m \in 1 .. Len(h) + 1
  PROVE  Sound(SubSeq(h, m, Len(h)), top)
<1>1. PICK S : h \in Seq(S)
  BY DEF Sound, IsHistory
<1>2. /\ SubSeq(h, m, Len(h)) \in Seq(S)
      /\ Len(SubSeq(h, m, Len(h))) = Len(h) - m + 1
      /\ \A i \in 1 .. Len(h) - m + 1 : SubSeq(h, m, Len(h))[i] = h[m + i - 1]
  BY <1>1
<1>3. \A i \in 1 .. Len(h) - m + 1 : m + i - 1 \in 1 .. Len(h)
  BY <1>1
<1> QED
  BY <1>2, <1>3 DEF Sound, IsHistory

(* Two histories have a longest common prefix.                             *)
LEMMA SharedIsThere ==
  ASSUME NEW h, NEW k, IsHistory(h), IsHistory(k)
  PROVE  /\ Shared(h, k) \in CommonPrefixes({h, k})
         /\ Len(Shared(h, k)) \in 0 .. Len(h)
<1> DEFINE P == CommonPrefixes({h, k})
           T == {Len(p) : p \in P}
<1>1. PICK S : h \in Seq(S) /\ k \in Seq(S)
  <2>1. PICK S1, S2 : h \in Seq(S1) /\ k \in Seq(S2)
    BY DEF IsHistory
  <2> QED
    BY <2>1, h \in Seq(S1 \cup S2), k \in Seq(S1 \cup S2)
<1>2. \A p \in P : p \in Seq(S) /\ IsPrefix(p, h)
  <2> SUFFICES ASSUME NEW p \in P PROVE p \in Seq(S) /\ IsPrefix(p, h)
    OBVIOUS
  <2>1. PICK s \in {h, k} : \E l \in 0 .. Len(s) : p = SubSeq(s, 1, l)
    BY DEF CommonPrefixes, Prefixes
  <2>2. s \in Seq(S)
    BY <1>1, <2>1
  <2>3. p \in Seq(S)
    BY <2>1, <2>2
  <2> QED
    BY <2>3 DEF CommonPrefixes
<1>3. \A p \in P : Len(p) \in 0 .. Len(h)
  BY <1>1, <1>2 DEF IsPrefix
<1>4. SubSeq(h, 1, 0) \in P
  <2>1. SubSeq(h, 1, 0) = <<>>
    BY <1>1
  <2>2. <<>> \in Prefixes(h)
    BY <1>1, <2>1 DEF Prefixes
  <2>3. \A t \in {h, k} : IsPrefix(<<>>, t)
    BY <1>1 DEF IsPrefix
  <2> QED
    BY <2>1, <2>2, <2>3 DEF CommonPrefixes
<1>5. Len(h) \in Nat
  BY <1>1
<1> HIDE DEF P
<1>6. T \subseteq 0 .. Len(h) /\ T # {}
  BY <1>3, <1>4
<1>7. PICK x \in T : \A y \in T : x >= y
  <2> HIDE DEF T
  <2> QED
    BY <1>5, <1>6, GreatestIsThere
<1>8. PICK p \in P : x = Len(p)
  OBVIOUS
<1>9. \A q \in P : Len(q) <= Len(p)
  <2> SUFFICES ASSUME NEW q \in P PROVE Len(q) <= Len(p)
    OBVIOUS
  <2>1. Len(q) \in T /\ Len(q) \in Int /\ Len(p) \in Int
    BY <1>3
  <2>2. x >= Len(q)
    BY <1>7, <2>1
  <2> QED
    BY <1>8, <2>1, <2>2
<1>10. Shared(h, k) \in P
  BY <1>9 DEF Shared, LongestCommonPrefix, P
<1> QED
  BY <1>3, <1>10, Zenon DEF P

LEMMA AfterIsSound ==
  ASSUME NEW top, NEW h, NEW k, Sound(h, top), Sound(k, top)
  PROVE  Sound(After(h, k), top)
<1>0. IsHistory(h) /\ IsHistory(k) /\ Len(h) \in Nat
  BY DEF Sound, IsHistory
<1>1. Len(Shared(h, k)) \in 0 .. Len(h)
  BY <1>0, SharedIsThere
<1>2. Len(Shared(h, k)) + 1 \in 1 .. Len(h) + 1
  BY <1>0, <1>1
<1> QED
  BY <1>2, RestIsSound DEF After

(* The states a replay goes through.                                       *)
ReplayState(s, commits, top) ==
  /\ s = [done |-> s.done, clash |-> s.clash, stop |-> s.stop] /\ Sound(s.done, top)
  /\ s.stop \in 0 .. Len(commits)
  /\ s.stop = 0 => s.clash = {}
  /\ s.stop # 0 => s.clash \subseteq DOMAIN commits[s.stop].change

(* Commit i with the part of its change that is in D.                      *)
Part(commits, i, D) == [commits[i] EXCEPT !.change = [f \in D |-> commits[i].change[f]]]

(* A step leaves the history as it is or adds a part of its commit.        *)
AddsPart(old, new, commits, i) ==
  \/ new = old
  \/ \E D \in SUBSET DOMAIN commits[i].change : new = Append(old, Part(commits, i, D))

(* One commit is replayed, dropped, or stops the rebase.                   *)
LEMMA ReplayStepIs ==
  ASSUME NEW top, NEW h, NEW commits, NEW inWay, Sound(commits, top), NEW i \in 1 .. Len(commits), NEW s,
         ReplayState(s, commits, top)
  PROVE  /\ ReplayState(ReplayStep(s, i, h, commits, inWay), commits, top)
         /\ AddsPart(s.done, ReplayStep(s, i, h, commits, inWay).done, commits, i)
<1> DEFINE change == commits[i].change
           t == Tree(s.done)
           parent == Tree(SubSeq(h, 1, Len(h) - Len(commits) + i - 1))
           clash == {f \in DOMAIN change : t[f] # parent[f] /\ t[f] # change[f]}
           new == {f \in DOMAIN change : t[f] # change[f]}
           c == [commits[i] EXCEPT !.change = [f \in new |-> change[f]]]
           r == ReplayStep(s, i, h, commits, inWay)
<1>1. \/ r = s
      \/ s.stop = 0 /\ r = [s EXCEPT !.stop = i]
      \/ s.stop = 0 /\ r = [s EXCEPT !.clash = clash, !.stop = i]
      \/ s.stop = 0 /\ r = [s EXCEPT !.done = Append(@, c)]
  BY DEF ReplayStep
<1>2. IsCommit(commits[i], top) /\ Len(commits) \in Nat
  BY DEF Sound, IsHistory
<1>3. IsCommit(c, top)
  <2>1. c.change = [f \in new |-> change[f]] /\ "change" \in DOMAIN c
    BY <1>2 DEF IsCommit
  <2> HIDE DEF c
  <2> QED
    BY <1>2, <2>1 DEF IsCommit
<1>4. clash \subseteq DOMAIN change /\ new \subseteq DOMAIN change
  OBVIOUS
<1> HIDE DEF r, clash, change, new
<1>5. CASE r = s
  BY <1>5 DEF r, AddsPart
<1>6. CASE s.stop = 0 /\ r = [s EXCEPT !.stop = i]
  <2>1. r.stop = i /\ r.done = s.done /\ r.clash = s.clash /\ r = [done |-> r.done, clash |-> r.clash, stop |-> r.stop]
    BY <1>6 DEF ReplayState
  <2> QED
    BY <1>2, <1>6, <2>1 DEF ReplayState, r, AddsPart
<1>7. CASE s.stop = 0 /\ r = [s EXCEPT !.clash = clash, !.stop = i]
  <2>1. r.stop = i /\ r.done = s.done /\ r.clash = clash /\ r = [done |-> r.done, clash |-> r.clash, stop |-> r.stop]
    BY <1>7 DEF ReplayState
  <2> QED
    BY <1>2, <1>4, <1>7, <2>1 DEF ReplayState, r, change, AddsPart
<1>8. CASE s.stop = 0 /\ r = [s EXCEPT !.done = Append(@, c)]
  <2>1. r.stop = s.stop /\ r.done = Append(s.done, c) /\ r.clash = s.clash /\ r = [done |-> r.done, clash |-> r.clash, stop |-> r.stop]
    BY <1>8 DEF ReplayState
  <2>2. Sound(r.done, top)
    BY <1>3, <2>1, AppendIsSound DEF ReplayState
  <2>3. ReplayState(r, commits, top)
    BY <1>2, <2>1, <2>2 DEF ReplayState
  <2>4. new \in SUBSET DOMAIN commits[i].change
    BY <1>4 DEF change
  <2> QED
    BY <2>1, <2>3, <2>4 DEF r, change, Part, AddsPart
<1> QED
  BY <1>1, <1>5, <1>6, <1>7, <1>8

(* The replay as a function of the commits replayed so far.                *)
IsReplay(after, onto, h, commits, inWay, top) ==
  /\ after[0] = [done |-> onto, clash |-> {}, stop |-> 0]
  /\ \A i \in 1 .. Len(commits) : after[i] = ReplayStep(after[i - 1], i, h, commits, inWay)
  /\ \A i \in 0 .. Len(commits) : ReplayState(after[i], commits, top)
  /\ Replayed(onto, h, commits, inWay) = after[Len(commits)]

LEMMA ReplayRun ==
  ASSUME NEW top, NEW onto, NEW h, NEW commits, NEW inWay, Sound(onto, top), Sound(commits, top)
  PROVE  \E after : IsReplay(after, onto, h, commits, inWay, top)
<1> DEFINE n == Len(commits)
           C == {onto[i] : i \in 1 .. Len(onto)} \cup
                UNION {{Part(commits, i, D) : D \in SUBSET DOMAIN commits[i].change} : i \in 1 .. n}
           R == [done : Seq(C), clash : SUBSET UNION {DOMAIN commits[i].change : i \in 1 .. n},
                 stop : 0 .. n]
           S == {s \in R : ReplayState(s, commits, top)}
           step(s, i) == ReplayStep(s, i, h, commits, inWay)
           x == [done |-> onto, clash |-> {}, stop |-> 0]
           T == [i \in 1 .. n |-> [s \in S |-> step(s, i)]]
<1>1. n \in Nat
  BY DEF Sound, IsHistory
<1>2. x \in S
  <2>1. onto \in Seq(C)
    <3>1. PICK V : onto \in Seq(V)
      BY DEF Sound, IsHistory
    <3>2. \A i \in 1 .. Len(onto) : onto[i] \in C
      OBVIOUS
    <3> HIDE DEF C
    <3> QED
      BY <3>1, <3>2
  <2>2. x \in R
    BY <1>1, <2>1
  <2>3. ReplayState(x, commits, top)
    BY <1>1 DEF ReplayState
  <2> QED
    BY <2>2, <2>3
<1>3. ASSUME NEW i \in 1 .. n, NEW s \in S
      PROVE  step(s, i) \in S
  <2> DEFINE r == step(s, i)
  <2>2. s.done \in Seq(C) /\ ReplayState(s, commits, top)
    OBVIOUS
  <2>1. ReplayState(r, commits, top) /\ AddsPart(s.done, r.done, commits, i)
    BY <2>2, ReplayStepIs, Zenon
  <2>3. \A D \in SUBSET DOMAIN commits[i].change : Part(commits, i, D) \in C
    OBVIOUS
  <2> HIDE DEF C
  <2>4. r.done \in Seq(C)
    <3> HIDE DEF r
    <3>1. CASE r.done = s.done
      BY <2>2, <3>1
    <3>2. ASSUME NEW D \in SUBSET DOMAIN commits[i].change, r.done = Append(s.done, Part(commits, i, D))
          PROVE  r.done \in Seq(C)
      <4>1. Part(commits, i, D) \in C
        BY <2>3
      <4> QED
        BY <2>2, <3>2, <4>1
    <3> QED
      BY <2>1, <3>1, <3>2 DEF AddsPart
  <2> HIDE DEF r
  <2>5. r.clash \in SUBSET UNION {DOMAIN commits[j].change : j \in 1 .. n} /\ r.stop \in 0 .. n
    BY <1>1, <2>1 DEF ReplayState
  <2>7. r \in R
    BY <2>1, <2>4, <2>5 DEF ReplayState
  <2> QED
    BY <2>1, <2>7 DEF r
<1>4. T \in [1 .. n -> [S -> S]]
  BY <1>3
<1>5. PICK g \in [0 .. n -> S] : Steps(g, n, x, T)
  <2> HIDE DEF S, x, T
  <2> QED
    BY <1>1, <1>2, <1>4, StepsExist
<1>6. g = [i \in 0 .. n |-> IF i = 0 THEN x ELSE step(g[i - 1], i)]
  <2>1. \A i \in 1 .. n : g[i - 1] \in S
    <3> HIDE DEF S, T, x
    <3> QED
      BY <1>1, <1>5
  <2>2. \A i \in 1 .. n : T[i][g[i - 1]] = step(g[i - 1], i)
    BY <2>1
  <2> HIDE DEF T, S, x
  <2> QED
    BY <1>1, <1>5, <2>2 DEF Steps
<1> DEFINE eqn(f) == f = [i \in 0 .. n |-> IF i = 0 THEN x ELSE step(f[i - 1], i)]
           after == CHOOSE f : eqn(f)
<1>7. Replayed(onto, h, commits, inWay) = after[n]
  BY DEF Replayed
<1>8. eqn(after)
  <2>1. eqn(g)
    BY <1>6
  <2> HIDE DEF eqn
  <2> QED
    BY <2>1
<1>9. after[0] = x /\ \A i \in 1 .. n : after[i] = step(after[i - 1], i)
  <2> HIDE DEF after, S, x, step
  <2> QED
    BY <1>1, <1>8
<1>10. \A i \in 0 .. n : after[i] \in S
  <2> DEFINE G == {i \in 0 .. n : after[i] \in S}
  <2> HIDE DEF after, S, x
  <2>2. 0 \in G
    BY <1>1, <1>2, <1>9
  <2>3. \A i \in 1 .. n : i - 1 \in G => i \in G
    BY <1>1, <1>3, <1>9
  <2> HIDE DEF G
  <2>4. 0 .. n \subseteq G
    BY <1>1, <2>2, <2>3, UpTo
  <2> QED
    BY <2>4 DEF G
<1>11. \A i \in 0 .. n : ReplayState(after[i], commits, top)
  <2> HIDE DEF after
  <2> QED
    BY <1>10
<1> HIDE DEF after
<1>12. IsReplay(after, onto, h, commits, inWay, top)
  BY <1>7, <1>9, <1>11, Zenon DEF IsReplay
<1> QED
  BY <1>12

(* A replay ends with all commits replayed, or stops at one of them.       *)
LEMMA ReplayedIs ==
  ASSUME NEW top, NEW onto, NEW h, NEW commits, NEW inWay, Sound(onto, top), Sound(commits, top)
  PROVE  ReplayState(Replayed(onto, h, commits, inWay), commits, top)
<1>1. PICK after : IsReplay(after, onto, h, commits, inWay, top)
  BY ReplayRun
<1>2. Len(commits) \in 0 .. Len(commits)
  BY DEF Sound, IsHistory
<1> QED
  BY <1>1, <1>2 DEF IsReplay

-----------------------------------------------------------------------------
(* No history ever holds a conflict, and a worktree has one only while a   *)
(* rebase is in progress in it.                                            *)

Refs(top) == /\ \A b \in DOMAIN tip : Sound(tip[b], top)
        /\ \A a \in Attempt : at[a].branch = NoBranch => Sound(at[a].history, top)

Remotes(top) == DOMAIN origin = Attempt \cup {Origin} /\ \A b \in DOMAIN origin : Sound(origin[b], top)

Starts(top) == DOMAIN before = Attempt /\ \A a \in Attempt : Sound(before[a], top)

Todos(top) == DOMAIN rebasing = Attempt /\ \A a \in Attempt : Sound(rebasing[a].todo, top)

HandlerHistories(r, top) ==
  /\ r.op = "memory" => Sound(r.ours, top) /\ Sound(r.theirs, top)
  /\ r.op = "moved" => Sound(r.merged, top)

Handlers(top) == \A a \in Attempt : HandlerHistories(handler[a], top)

(* What a checkout holds of a file is a content.                           *)
Holds(t, top) == DOMAIN t = File /\ \A f \in File : IsContent(t[f], top)

Contents(top) == /\ DOMAIN files = Checkout
            /\ \A c \in Checkout : Holds(index[c], top) /\ Holds(files[c], top)

InRebase == \A a \in Attempt : \A f \in File :
              InConflict(index[a][f]) => rebasing[a].active

ConflictAt(top) == Refs(top) /\ Remotes(top) /\ Starts(top) /\ Todos(top) /\ Handlers(top) /\ Contents(top) /\ InRebase

(* The marks of the agents count up to the edits they made.                *)
Counters == edits \in [agent : Nat, user : Nat, request : Nat]

ConflictInv == ConflictAt(edits.agent) /\ Counters

LEMMA ConflictInit ==
  ASSUME NEW top, GitInit
  PROVE  ConflictAt(top)
<1>1. Refs(top)
  BY EmptyIsSound, GitAssumption DEF GitInit, Refs, OnBranch, NoBranch, Checkout
<1>2. Remotes(top) /\ Starts(top)
  BY EmptyIsSound DEF GitInit, Remotes, Starts
<1>3. Todos(top)
  BY EmptyIsSound DEF GitInit, Todos, NoRebase
<1>4. Handlers(top)
  BY DEF GitInit, Handlers, HandlerHistories, Idle
<1>5. Contents(top)
  BY NobodyIsSettled DEF GitInit, Contents, Holds, EmptyTree, Settled
<1>6. InRebase
  BY NobodyIsSettled DEF GitInit, InRebase, EmptyTree, Settled, Checkout
<1> QED
  BY <1>1, <1>2, <1>3, <1>4, <1>5, <1>6 DEF ConflictAt

LEMMA HeadIsSound ==
  ASSUME NEW top, GitInv, ConflictAt(top), NEW c \in Checkout
  PROVE  Sound(HeadOf(c), top)
<1>1. CASE c = Main
  BY <1>1, GitAssumption DEF HeadOf, GitInv, Checkouts, Branches, ConflictAt, Refs, OnBranch, NoBranch
<1>2. CASE c \in Attempt
  BY <1>2 DEF HeadOf, GitInv, Checkouts, Branches, ConflictAt, Refs
<1> QED
  BY <1>1, <1>2 DEF Checkout

LEMMA MoveHeadSound ==
  ASSUME NEW top, GitInv, ConflictAt(top), NEW c \in Checkout, NEW h, Sound(h, top), MoveHead(c, h)
  PROVE  Refs(top)'
<1>1. DOMAIN at = Checkout /\ Attempt \subseteq Checkout
  BY DEF GitInv, Checkouts, Checkout
<1>2. CASE at[c].branch = NoBranch
  BY <1>1, <1>2 DEF MoveHead, Refs, ConflictAt, Detached
<1>3. CASE at[c].branch # NoBranch
  BY <1>1, <1>3 DEF MoveHead, Refs, ConflictAt
<1> QED
  BY <1>2, <1>3

(* A worktree's files and index change.                                    *)
LEMMA ContentsChange ==
  ASSUME NEW top, GitInv, ConflictAt(top), NEW c \in Checkout, NEW s, NEW t, Holds(s, top), Holds(t, top),
         index' = [index EXCEPT ![c] = s], files' = [files EXCEPT ![c] = t]
  PROVE  Contents(top)' /\ index'[c] = s /\ \A b \in Checkout : b # c => index'[b] = index[b]
BY DEF GitInv, Checkouts, ConflictAt, Contents

(* ... and only the files.                                                 *)
LEMMA FilesChange ==
  ASSUME NEW top, GitInv, ConflictAt(top), NEW c \in Checkout, NEW t, Holds(t, top),
         index' = index, files' = [files EXCEPT ![c] = t]
  PROVE  Contents(top)'
BY DEF GitInv, Checkouts, ConflictAt, Contents

(* A step that settles the index of a worktree, or leaves a conflict in    *)
(* it while the rebase stays in progress.                                  *)
LEMMA IndexChange ==
  ASSUME NEW top, ConflictAt(top), NEW a \in Attempt,
         \A b \in Checkout : b # a => index'[b] = index[b],
         \A b \in Attempt : b # a => rebasing'[b] = rebasing[b],
         \A f \in File : InConflict(index'[a][f]) => rebasing'[a].active
  PROVE  InRebase'
BY DEF ConflictAt, InRebase, Checkout

LEMMA TreeHolds ==
  ASSUME NEW top, NEW h, Sound(h, top)
  PROVE  Holds(Tree(h), top) /\ \A f \in File : ~InConflict(Tree(h)[f])
<1>1. DOMAIN Tree(h) = File
  BY DEF Tree
<1> QED
  BY <1>1, TreeIsSettled DEF Holds, Settled

(* A rebase that ends leaves settled contents, one that stops is in        *)
(* progress.                                                               *)
LEMMA RebaseSound ==
  ASSUME NEW top, GitInv, ConflictAt(top), NEW a \in Attempt, NEW onto, NEW h, NEW commits,
         Sound(onto, top), Sound(commits, top), RunRebase(a, onto, h, commits)
  PROVE  Refs(top)' /\ Todos(top)' /\ Contents(top)' /\ InRebase'
<1> DEFINE r == Replayed(onto, h, commits, Untracked(a))
           done == Tree(r.done)
           t == [f \in File |->
              IF f \in r.clash THEN Conflict(done[f], commits[r.stop].change[f])
              ELSE IF r.clash # {} /\ f \in DOMAIN commits[r.stop].change
              THEN commits[r.stop].change[f] ELSE done[f]]
           u == [f \in File |-> IF index[a][f] = None /\ t[f] = None THEN files[a][f] ELSE t[f]]
           rest == SubSeq(commits, IF r.clash = {} THEN r.stop ELSE r.stop + 1, Len(commits))
<1>0. a \in Checkout /\ DOMAIN files = Checkout /\ Holds(files[a], top)
  BY DEF Checkout, ConflictAt, Contents
<1>1. /\ index' = [index EXCEPT ![a] = t] /\ files' = [files EXCEPT ![a] = u]
      /\ \/ /\ r.stop = 0 /\ tip' = [tip EXCEPT ![a] = r.done]
            /\ at' = [at EXCEPT ![a] = OnBranch(a)]
            /\ rebasing' = [rebasing EXCEPT ![a] = NoRebase]
         \/ /\ r.stop # 0 /\ at' = [at EXCEPT ![a] = Detached(r.done)] /\ tip' = tip
            /\ rebasing' = [rebasing EXCEPT ![a] = [active |-> TRUE, todo |-> rest]]
  BY DEF RunRebase
<1>2. ReplayState(r, commits, top)
  BY ReplayedIs
<1> HIDE DEF r
<1>3. Sound(r.done, top) /\ Holds(done, top) /\ \A f \in File : ~InConflict(done[f])
  BY <1>2, TreeHolds DEF ReplayState
<1>4. /\ Len(commits) \in Nat
      /\ \A i \in 1 .. Len(commits) : \A f \in DOMAIN commits[i].change : IsContent(commits[i].change[f], top)
  BY DEF Sound, IsHistory, IsCommit, Settled
<1>5. r.clash # {} => r.stop \in 1 .. Len(commits) /\ r.clash \subseteq DOMAIN commits[r.stop].change
  BY <1>2, <1>4 DEF ReplayState
<1>6. Holds(t, top) /\ (r.stop = 0 => \A f \in File : ~InConflict(t[f]))
  <2>1. r.stop = 0 => r.clash = {}
    BY <1>2 DEF ReplayState
  <2> HIDE DEF done
  <2>2. ASSUME NEW f \in File PROVE IsContent(t[f], top)
    <3>1. CASE f \in r.clash
      BY <1>3, <1>4, <1>5, <3>1, ConflictIsContent DEF Holds
    <3>2. CASE f \notin r.clash
      BY <1>3, <1>4, <1>5, <3>2 DEF Holds
    <3> QED
      BY <3>1, <3>2
  <2>3. r.stop = 0 => \A f \in File : t[f] = done[f]
    BY <2>1
  <2> QED
    BY <1>3, <2>2, <2>3 DEF Holds
<1> HIDE DEF t, done
<1>7. Holds(u, top)
  BY <1>0, <1>6 DEF Holds
<1>8. r.stop # 0 => Sound(rest, top)
  <2>1. r.stop # 0 => r.stop \in 1 .. Len(commits) + 1 /\ r.stop + 1 \in 1 .. Len(commits) + 1
    BY <1>2, <1>4 DEF ReplayState
  <2> QED
    BY <2>1, RestIsSound
<1> HIDE DEF u, rest
<1>9. Contents(top)' /\ index'[a] = t /\ \A b \in Checkout : b # a => index'[b] = index[b]
  BY <1>0, <1>1, <1>6, <1>7, ContentsChange
<1>10. Todos(top)' /\ \A b \in Attempt : b # a => rebasing'[b] = rebasing[b]
  BY <1>1, <1>8, EmptyIsSound DEF ConflictAt, Todos, NoRebase
<1>11. r.stop # 0 => rebasing'[a].active
  BY <1>1 DEF ConflictAt, Todos
<1>12. InRebase'
  BY <1>6, <1>9, <1>10, <1>11, IndexChange
<1>13. Refs(top)'
  <2>1. DOMAIN at = Checkout /\ Attempt \subseteq Checkout /\ a \in DOMAIN tip /\ a # NoBranch
    BY GitAssumption DEF GitInv, Checkouts, Checkout, Branches, NoBranch
  <2> QED
    BY <1>1, <1>3, <2>1 DEF Refs, ConflictAt, OnBranch, Detached
<1> QED
  BY <1>9, <1>10, <1>12, <1>13

(* What a step that writes neither histories nor rebases leaves.           *)
LEMMA SameHistories ==
  ASSUME NEW top, ConflictAt(top), UNCHANGED <<tip, at, origin, before, rebasing, handler>>
  PROVE  Refs(top)' /\ Remotes(top)' /\ Starts(top)' /\ Todos(top)' /\ Handlers(top)'
BY DEF ConflictAt, Refs, Remotes, Starts, Todos, Handlers

LEMMA SameContents ==
  ASSUME NEW top, ConflictAt(top), UNCHANGED <<index, files>>
  PROVE  Contents(top)' /\ (rebasing' = rebasing => InRebase')
BY DEF ConflictAt, Contents, InRebase

LEMMA SameRest ==
  ASSUME NEW top, ConflictAt(top)
  PROVE  /\ UNCHANGED <<tip, at>> => Refs(top)'
         /\ UNCHANGED origin => Remotes(top)'
         /\ UNCHANGED before => Starts(top)'
         /\ UNCHANGED rebasing => Todos(top)'
         /\ UNCHANGED handler => Handlers(top)'
BY DEF ConflictAt, Refs, Remotes, Starts, Todos, Handlers

(* One content replaces another.                                           *)
LEMMA OneFile ==
  ASSUME NEW top, NEW t, Holds(t, top), NEW f \in File, NEW v, IsContent(v, top)
  PROVE  Holds([t EXCEPT ![f] = v], top)
BY DEF Holds

LEMMA AgentEditsSound ==
  ASSUME NEW top \in Nat, GitInv, ConflictAt(top), Counters, edits'.agent <= top,
         NEW a \in Attempt, NEW f \in File, AgentEdits(a, f)
  PROVE  ConflictAt(top)'
<1>1. /\ files' = [files EXCEPT ![a] = [@ EXCEPT ![f] = <<a, edits.agent + 1>>]]
      /\ UNCHANGED <<tip, origin, at, index, rebasing, handler, before>>
  BY DEF AgentEdits
<1>2. a \in Checkout /\ Holds(files[a], top) /\ DOMAIN files = Checkout
  BY DEF Checkout, ConflictAt, Contents
<1>3. Holds([files[a] EXCEPT ![f] = <<a, edits.agent + 1>>], top)
  <2>1. edits.agent + 1 \in Nat /\ edits.agent + 1 <= top
    BY DEF AgentEdits, Counters
  <2> QED
    BY <1>2, <2>1, OneFile, MarkIsSettled DEF Settled
<1>4. Contents(top)'
  BY <1>1, <1>2, <1>3, FilesChange
<1> QED
  BY <1>1, <1>4, SameHistories DEF ConflictAt, InRebase

LEMMA DeleteSound ==
  ASSUME NEW top, GitInv, ConflictAt(top), NEW a \in Attempt, NEW f \in File, delete_task_attempt_file(a, f)
  PROVE  ConflictAt(top)'
<1> DEFINE s == [index[a] EXCEPT ![f] = None]
           t == [files[a] EXCEPT ![f] = None]
           d == Delta(s, Tree(HeadOf(a)))
<1>0. a \in Checkout /\ Holds(files[a], top) /\ Holds(index[a], top) /\ DOMAIN index = Checkout /\ Sound(HeadOf(a), top)
  BY HeadIsSound DEF Checkout, ConflictAt, Contents, GitInv, Checkouts
<1>1. /\ index' = [index EXCEPT ![a] = s] /\ files' = [files EXCEPT ![a] = t]
      /\ UNCHANGED <<origin, rebasing, handler, before>>
  BY DEF delete_task_attempt_file, delete_file_and_commit
<1>2. index'[a] = s
  BY <1>0, <1>1
<1>3. \/ UNCHANGED <<tip, at>>
      \/ /\ \A g \in File : ~InConflict(s[g])
         /\ MoveHead(a, Append(HeadOf(a), Commit(d, "work")))
  BY <1>2 DEF delete_task_attempt_file, delete_file_and_commit
<1>4. Holds(s, top) /\ Holds(t, top)
  BY <1>0, OneFile, NobodyIsSettled DEF Settled
<1>5. Contents(top)' /\ \A b \in Checkout : b # a => index'[b] = index[b]
  BY <1>0, <1>1, <1>4, ContentsChange
<1>6. Refs(top)'
  <2>1. CASE UNCHANGED <<tip, at>>
    BY <2>1, SameRest
  <2>2. CASE /\ \A g \in File : ~InConflict(s[g])
             /\ MoveHead(a, Append(HeadOf(a), Commit(d, "work")))
    <3> HIDE DEF s
    <3>1. \A g \in File : Settled(s[g], top)
      BY <1>4, <2>2 DEF Holds, Settled
    <3>2. IsCommit(Commit(d, "work"), top)
      BY <3>1, DeltaIsCommit
    <3> QED
      BY <1>0, <2>2, <3>2, AppendIsSound, MoveHeadSound
  <2> QED
    BY <1>3, <2>1, <2>2
<1>7. \A g \in File : InConflict(s[g]) => rebasing[a].active
  BY <1>0, NobodyIsSettled DEF ConflictAt, InRebase, Holds, Settled
<1> HIDE DEF s
<1>8. InRebase'
  BY <1>1, <1>2, <1>5, <1>7, IndexChange
<1> QED
  BY <1>1, <1>5, <1>6, <1>8, SameRest DEF ConflictAt

LEMMA CommitSound ==
  ASSUME NEW top, GitInv, ConflictAt(top), NEW a \in Attempt, commit(a)
  PROVE  ConflictAt(top)'
<1> DEFINE d == Delta(Added(a), Tree(HeadOf(a)))
<1>0. a \in Checkout /\ Holds(files[a], top) /\ Sound(HeadOf(a), top)
  BY HeadIsSound DEF Checkout, ConflictAt, Contents
<1>1. /\ index' = [index EXCEPT ![a] = Added(a)] /\ files' = [files EXCEPT ![a] = Added(a)]
      /\ UNCHANGED <<tip, at>> \/ MoveHead(a, Append(HeadOf(a), Commit(d, "work")))
      /\ UNCHANGED <<origin, rebasing, handler, before>>
  BY DEF commit
<1>2. \A f \in File : Settled(Added(a)[f], top)
  BY <1>0, AddedIsSettled DEF Holds
<1>3. Holds(Added(a), top)
  BY <1>0, AddedIsSettled DEF Holds, Settled
<1>4. Contents(top)' /\ index'[a] = Added(a) /\ \A b \in Checkout : b # a => index'[b] = index[b]
  BY <1>0, <1>1, <1>3, ContentsChange
<1>5. Refs(top)'
  <2>1. IsCommit(Commit(d, "work"), top)
    BY <1>2, DeltaIsCommit
  <2> QED
    BY <1>0, <1>1, <2>1, AppendIsSound, MoveHeadSound, SameRest
<1>6. InRebase'
  BY <1>1, <1>2, <1>4, IndexChange DEF Settled
<1> QED
  BY <1>1, <1>4, <1>5, <1>6, SameRest DEF ConflictAt

LEMMA ResolveSound ==
  ASSUME NEW top \in Nat, GitInv, ConflictAt(top), Counters, edits'.agent <= top,
         NEW a \in Attempt, AgentResolves(a)
  PROVE  ConflictAt(top)'
<1> DEFINE v == <<a, edits.agent + 1>>
           fix(t) == [f \in File |-> IF InConflict(files[a][f]) THEN v ELSE t[f]]
<1>0. a \in Checkout /\ Holds(files[a], top) /\ Holds(index[a], top)
  BY DEF Checkout, ConflictAt, Contents
<1>1. /\ index' = [index EXCEPT ![a] = fix(index[a])] /\ files' = [files EXCEPT ![a] = fix(files[a])]
      /\ rebasing[a].active
      /\ UNCHANGED <<tip, at, origin, rebasing, handler, before>>
  BY DEF AgentResolves
<1>2. IsContent(v, top)
  <2>1. edits.agent + 1 \in Nat /\ edits.agent + 1 <= top
    BY DEF AgentResolves, Counters
  <2> QED
    BY <2>1, MarkIsSettled DEF Settled
<1>3. Holds(fix(index[a]), top) /\ Holds(fix(files[a]), top)
  BY <1>0, <1>2 DEF Holds
<1> HIDE DEF fix
<1>4. Contents(top)' /\ \A b \in Checkout : b # a => index'[b] = index[b]
  BY <1>0, <1>1, <1>3, ContentsChange
<1>5. InRebase'
  BY <1>1, <1>4, IndexChange
<1> QED
  BY <1>1, <1>4, <1>5, SameRest DEF ConflictAt

LEMMA ContinueSound ==
  ASSUME NEW top, GitInv, ConflictAt(top), NEW a \in Attempt, AgentContinues(a)
  PROVE  ConflictAt(top)'
<1> DEFINE d == Delta(index[a], Tree(HeadOf(a)))
           done == IF DOMAIN d = {} THEN HeadOf(a) ELSE Append(HeadOf(a), Commit(d, "work"))
<1>0. a \in Checkout /\ Holds(files[a], top) /\ Holds(index[a], top) /\ Sound(HeadOf(a), top) /\ Sound(rebasing[a].todo, top)
  BY HeadIsSound DEF Checkout, ConflictAt, Contents, Todos
<1>1. /\ \A f \in File : ~InConflict(files[a][f]) /\ files[a][f] = index[a][f]
      /\ RunRebase(a, done, tip[a], rebasing[a].todo)
      /\ UNCHANGED <<origin, handler, before>>
  BY DEF AgentContinues
<1>2. IsCommit(Commit(d, "work"), top)
  BY <1>0, <1>1, DeltaIsCommit DEF Holds, Settled
<1>3. Sound(done, top)
  BY <1>0, <1>2, AppendIsSound
<1> HIDE DEF done
<1>4. Refs(top)' /\ Todos(top)' /\ Contents(top)' /\ InRebase'
  BY <1>0, <1>1, <1>3, RebaseSound
<1> QED
  BY <1>1, <1>4, SameRest DEF ConflictAt

LEMMA AbortSound ==
  ASSUME NEW top, GitInv, ConflictAt(top), NEW a \in Attempt, abort_conflicts_task_attempt(a)
  PROVE  ConflictAt(top)'
<1>0. /\ a \in Checkout /\ Holds(files[a], top) /\ DOMAIN at = Checkout /\ a # NoBranch
      /\ Sound(tip[a], top) /\ Attempt \subseteq Checkout
  BY GitAssumption
  DEF Checkout, ConflictAt, Contents, Refs, GitInv, Branches, Checkouts, NoBranch
<1>1. rebasing' = [rebasing EXCEPT ![a] = NoRebase] /\ UNCHANGED <<tip, origin, handler, before>>
  BY DEF abort_conflicts_task_attempt, abort_conflicts
<1>2. Todos(top)' /\ \A b \in Attempt : b # a => rebasing'[b] = rebasing[b]
  BY <1>1, EmptyIsSound DEF ConflictAt, Todos, NoRebase
<1>3. CASE get_conflicted_files(a) # {}
  <2> DEFINE t == [f \in File |-> IF f \in Untracked(a) THEN files[a][f] ELSE Tree(tip[a])[f]]
  <2>1. /\ at' = [at EXCEPT ![a] = OnBranch(a)]
        /\ index' = [index EXCEPT ![a] = Tree(tip[a])] /\ files' = [files EXCEPT ![a] = t]
    BY <1>3 DEF abort_conflicts_task_attempt, abort_conflicts
  <2>2. Holds(Tree(tip[a]), top) /\ \A f \in File : ~InConflict(Tree(tip[a])[f])
    BY <1>0, TreeHolds
  <2>3. Holds(t, top)
    BY <1>0, <2>2 DEF Holds
  <2> HIDE DEF t
  <2>4. /\ Contents(top)' /\ index'[a] = Tree(tip[a])
        /\ \A b \in Checkout : b # a => index'[b] = index[b]
    BY <1>0, <2>1, <2>2, <2>3, ContentsChange
  <2>5. InRebase'
    BY <1>2, <2>2, <2>4, IndexChange
  <2>6. Refs(top)'
    BY <1>0, <1>1, <2>1 DEF ConflictAt, Refs, OnBranch
  <2> QED
    BY <1>1, <1>2, <2>4, <2>5, <2>6, SameRest DEF ConflictAt
<1>4. CASE get_conflicted_files(a) = {}
  <2>1. UNCHANGED <<at, index, files>>
    BY <1>4 DEF abort_conflicts_task_attempt, abort_conflicts
  <2>2. \A f \in File : ~InConflict(index'[a][f])
    BY <1>4, <2>1 DEF get_conflicted_files
  <2>3. InRebase'
    BY <1>2, <2>1, <2>2, IndexChange
  <2> QED
    BY <1>1, <1>2, <2>1, <2>3, SameRest, SameContents DEF ConflictAt
<1> QED
  BY <1>3, <1>4

LEMMA ResetSound ==
  ASSUME NEW top, GitInv, ConflictAt(top), NEW a \in Attempt, NEW force, reset_worktree_to_commit(a, force)
  PROVE  ConflictAt(top)'
<1> DEFINE s == Tree(before[a])
           t == [f \in File |-> IF index[a][f] = None /\ s[f] = None THEN files[a][f] ELSE s[f]]
<1>0. a \in Checkout /\ Holds(files[a], top) /\ Sound(before[a], top)
  BY DEF Checkout, ConflictAt, Contents, Starts
<1>1. /\ MoveHead(a, before[a])
      /\ index' = [index EXCEPT ![a] = s] /\ files' = [files EXCEPT ![a] = t]
      /\ UNCHANGED <<origin, rebasing, handler, before>>
  BY DEF reset_worktree_to_commit
<1>2. Holds(s, top) /\ \A f \in File : ~InConflict(s[f])
  BY <1>0, TreeHolds
<1> HIDE DEF s
<1>3. Holds(t, top)
  BY <1>0, <1>2 DEF Holds
<1> HIDE DEF t
<1>4. Contents(top)' /\ index'[a] = s /\ \A b \in Checkout : b # a => index'[b] = index[b]
  BY <1>0, <1>1, <1>2, <1>3, ContentsChange
<1>5. InRebase'
  BY <1>1, <1>2, <1>4, IndexChange
<1>6. Refs(top)'
  BY <1>0, <1>1, MoveHeadSound
<1> QED
  BY <1>1, <1>4, <1>5, <1>6, SameRest DEF ConflictAt

(* The steps that only write rows, refs of the remote and handlers.        *)
LEMMA RowSteps ==
  ASSUME NEW top, GitInv, ConflictAt(top), NEW a \in Attempt,
         \/ RecordBefore(a) \/ push_task_attempt_branch(a) \/ merge_task_attempt(a)
         \/ \E b \in Target : change_target_branch(a, b) \/ rebase_task_attempt(a, b)
  PROVE  ConflictAt(top)'
<1>0. Attempt \subseteq Checkout /\ a \in DOMAIN tip /\ DOMAIN handler = Attempt
  BY DEF Checkout, GitInv, Branches, Rows
<1>1. CASE RecordBefore(a)
  <2>1. /\ before' = [before EXCEPT ![a] = HeadOf(a)]
        /\ UNCHANGED <<tip, origin, at, index, files, rebasing, handler>>
    BY <1>1 DEF RecordBefore
  <2>2. Starts(top)'
    BY <1>0, <2>1, HeadIsSound DEF ConflictAt, Starts
  <2> QED
    BY <2>1, <2>2, SameRest, SameContents DEF ConflictAt
<1>2. CASE push_task_attempt_branch(a)
  <2>1. /\ origin' = [origin EXCEPT ![a] = tip[a]]
        /\ UNCHANGED <<tip, before, at, index, files, rebasing, handler>>
    BY <1>2 DEF push_task_attempt_branch, push_to_github
  <2>2. Remotes(top)'
    BY <1>0, <2>1 DEF ConflictAt, Remotes, Refs
  <2> QED
    BY <2>1, <2>2, SameRest, SameContents DEF ConflictAt
<1>3. CASE merge_task_attempt(a)
  <2>1. /\ handler' = [handler EXCEPT ![a] = [op |-> "status", base |-> target[a]]]
        /\ UNCHANGED <<tip, before, at, index, files, rebasing, origin>>
    BY <1>3 DEF merge_task_attempt, MergeCheck
  <2>2. Handlers(top)'
    BY <1>0, <2>1 DEF ConflictAt, Handlers, HandlerHistories
  <2> QED
    BY <2>1, <2>2, SameRest, SameContents DEF ConflictAt
<1>4. ASSUME NEW b \in Target, change_target_branch(a, b)
      PROVE  ConflictAt(top)'
  <2>1. UNCHANGED <<tip, before, at, index, files, rebasing, origin, handler>>
    BY <1>4 DEF change_target_branch
  <2> QED
    BY <2>1, SameRest, SameContents DEF ConflictAt
<1>5. ASSUME NEW b \in Target, rebase_task_attempt(a, b)
      PROVE  ConflictAt(top)'
  <2>1. /\ handler' = [handler EXCEPT ![a] = [op |-> "rebase", old |-> target[a], new |-> b]]
        /\ UNCHANGED <<tip, before, at, index, files, rebasing, origin>>
    BY <1>5 DEF rebase_task_attempt
  <2>2. Handlers(top)'
    BY <1>0, <2>1 DEF ConflictAt, Handlers, HandlerHistories
  <2> QED
    BY <2>1, <2>2, SameRest, SameContents DEF ConflictAt
<1> QED
  BY <1>1, <1>2, <1>3, <1>4, <1>5

(* A handler goes on to r.                                                 *)
LEMMA HandlerSound ==
  ASSUME NEW top, GitInv, ConflictAt(top), NEW a \in Attempt, NEW r, HandlerHistories(r, top),
         handler' = [handler EXCEPT ![a] = r]
  PROVE  Handlers(top)'
BY DEF GitInv, Rows, ConflictAt, Handlers

LEMMA IdleIsSound ==
  ASSUME NEW top
  PROVE  HandlerHistories(Idle, top)
BY DEF HandlerHistories, Idle

LEMMA FindsSound ==
  ASSUME NEW top, GitInv, ConflictAt(top), NEW a \in Attempt, MergeFindsBase(a)
  PROVE  ConflictAt(top)'
<1> DEFINE b == handler[a].base
<1>1. Sound(tip[a], top) /\ Sound(tip[b], top)
  BY DEF MergeFindsBase, GitInv, Rows, HandlerOK, Branches, Target, ConflictAt, Refs
<1>2. UNCHANGED <<tip, origin, at, index, files, rebasing, before>>
  BY DEF MergeFindsBase
<1>3. PICK r : /\ handler' = [handler EXCEPT ![a] = r]
               /\ \/ r = Idle
                  \/ r = [op |-> "memory", base |-> b, ours |-> tip[b], theirs |-> tip[a]]
                  \/ \E c : r = [op |-> "cli", base |-> b, place |-> c]
  BY DEF MergeFindsBase
<1>4. HandlerHistories(r, top)
  BY <1>1, <1>3, IdleIsSound DEF HandlerHistories
<1>5. Handlers(top)'
  BY <1>3, <1>4, HandlerSound
<1> QED
  BY <1>2, <1>5, SameRest, SameContents DEF ConflictAt

(* The merge of the CLI runs in the project's directory, and refuses an    *)
(* index in conflict: it commits settled contents.                         *)
LEMMA SquashSound ==
  ASSUME NEW top, GitInv, ConflictAt(top), NEW a \in Attempt, merge_squash_commit(a)
  PROVE  ConflictAt(top)'
<1> DEFINE ours == tip[Main]
           d == Squash(ours, tip[a])
           new == [f \in File |-> IF f \in DOMAIN d THEN d[f] ELSE index[Main][f]]
           onDisk == [f \in File |-> IF f \in DOMAIN d THEN d[f] ELSE files[Main][f]]
           clash == Clash(ours, tip[a])
           stop(t) == [f \in File |-> IF f \in clash THEN Conflict(Tree(ours)[f], d[f])
                                      ELSE IF f \in DOMAIN d THEN d[f] ELSE t[f]]
           h == Append(ours, Commit(Delta(new, Tree(ours)), "squash"))
           r == [op |-> "moved", base |-> Main, merged |-> h, theirs |-> tip[a]]
<1>1. handler[a].base = Main /\ handler[a].place = Main
  BY DEF merge_squash_commit, GitInv, Rows, HandlerOK
<1>2. /\ Main \in Checkout /\ Main \notin Attempt /\ Holds(files[Main], top) /\ Holds(index[Main], top)
      /\ Sound(ours, top) /\ Sound(tip[a], top) /\ Main \in DOMAIN tip
  BY GitAssumption DEF Checkout, ConflictAt, Contents, Refs, GitInv, Branches
<1>3. UNCHANGED <<origin, at, rebasing, before>>
  BY DEF merge_squash_commit
<1>4. \A f \in DOMAIN d : f \in File /\ Settled(d[f], top)
  BY <1>2, SquashIsCommit
<1>5. \/ handler' = [handler EXCEPT ![a] = Idle] /\ UNCHANGED <<tip, index, files>>
      \/ /\ handler' = [handler EXCEPT ![a] = Idle] /\ UNCHANGED tip
         /\ files' = [files EXCEPT ![Main] = stop(files[Main])]
         /\ index' = [index EXCEPT ![Main] = stop(index[Main])]
      \/ /\ \A f \in File : ~InConflict(index[Main][f])
         /\ index' = [index EXCEPT ![Main] = new] /\ files' = [files EXCEPT ![Main] = onDisk]
         /\ tip' = [tip EXCEPT ![Main] = h] /\ handler' = [handler EXCEPT ![a] = r]
  BY <1>1 DEF merge_squash_commit
<1>6. Holds(new, top) /\ Holds(onDisk, top)
  BY <1>2, <1>4 DEF Holds, Settled
<1> HIDE DEF d, clash
<1>7. Holds(stop(files[Main]), top) /\ Holds(stop(index[Main]), top)
  <2>1. clash \subseteq DOMAIN d
    BY DEF clash, d, Clash, Squash
  <2>2. ASSUME NEW f \in clash PROVE IsContent(Conflict(Tree(ours)[f], d[f]), top)
    BY <1>2, <1>4, <2>1, <2>2, TreeIsSettled, ConflictIsContent DEF Settled
  <2> QED
    BY <1>2, <1>4, <2>2 DEF Holds, Settled
<1>8. ASSUME NEW s, NEW t, Holds(s, top), Holds(t, top), index' = [index EXCEPT ![Main] = s],
             files' = [files EXCEPT ![Main] = t]
      PROVE  Contents(top)' /\ InRebase'
  <2>1. Contents(top)' /\ \A b \in Checkout : b # Main => index'[b] = index[b]
    BY <1>2, <1>8, ContentsChange
  <2> QED
    BY <1>2, <1>3, <2>1 DEF ConflictAt, InRebase, Checkout
<1>9. CASE handler' = [handler EXCEPT ![a] = Idle] /\ UNCHANGED <<tip, index, files>>
  BY <1>3, <1>9, HandlerSound, IdleIsSound, SameRest, SameContents DEF ConflictAt
<1>10. CASE /\ handler' = [handler EXCEPT ![a] = Idle] /\ UNCHANGED tip
            /\ files' = [files EXCEPT ![Main] = stop(files[Main])]
            /\ index' = [index EXCEPT ![Main] = stop(index[Main])]
  <2> HIDE DEF stop
  <2>1. Contents(top)' /\ InRebase'
    BY <1>7, <1>8, <1>10
  <2> QED
    BY <1>3, <1>10, <2>1, HandlerSound, IdleIsSound, SameRest DEF ConflictAt
<1>11. CASE /\ \A f \in File : ~InConflict(index[Main][f])
            /\ index' = [index EXCEPT ![Main] = new] /\ files' = [files EXCEPT ![Main] = onDisk]
            /\ tip' = [tip EXCEPT ![Main] = h] /\ handler' = [handler EXCEPT ![a] = r]
  <2>1. \A f \in File : Settled(new[f], top)
    BY <1>2, <1>4, <1>11 DEF Holds, Settled
  <2>2. Sound(h, top)
    BY <1>2, <2>1, DeltaIsCommit, AppendIsSound
  <2> HIDE DEF h, new, onDisk
  <2>3. HandlerHistories(r, top)
    BY <2>2 DEF HandlerHistories
  <2>4. Contents(top)' /\ InRebase'
    BY <1>6, <1>8, <1>11
  <2>5. Refs(top)'
    BY <1>3, <1>11, <2>2 DEF ConflictAt, Refs
  <2> QED
    BY <1>3, <1>11, <2>3, <2>4, <2>5, HandlerSound, SameRest DEF ConflictAt
<1> QED
  BY <1>5, <1>9, <1>10, <1>11

LEMMA MemorySound ==
  ASSUME NEW top, GitInv, ConflictAt(top), NEW a \in Attempt, perform_squash_merge(a)
  PROVE  ConflictAt(top)'
<1> DEFINE b == handler[a].base
           h == Append(handler[a].ours,
                       Commit(Squash(handler[a].ours, handler[a].theirs), "squash"))
           r == [op |-> "moved", base |-> b, merged |-> h, theirs |-> handler[a].theirs]
<1>1. Sound(handler[a].ours, top) /\ Sound(handler[a].theirs, top)
  BY DEF perform_squash_merge, ConflictAt, Handlers, HandlerHistories
<1>2. Sound(h, top)
  BY <1>1, SquashIsCommit, AppendIsSound
<1>3. /\ UNCHANGED <<origin, at, index, files, rebasing, before>>
      /\ \/ handler' = [handler EXCEPT ![a] = Idle] /\ tip' = tip
         \/ handler' = [handler EXCEPT ![a] = r] /\ tip' = [tip EXCEPT ![b] = h]
  BY DEF perform_squash_merge
<1> HIDE DEF h
<1>4. Refs(top)'
  BY <1>2, <1>3 DEF ConflictAt, Refs
<1>5. HandlerHistories(r, top)
  BY <1>2 DEF HandlerHistories
<1> QED
  BY <1>3, <1>4, <1>5, IdleIsSound, HandlerSound, SameRest, SameContents DEF ConflictAt

LEMMA MovesSound ==
  ASSUME NEW top, GitInv, ConflictAt(top), NEW a \in Attempt, MergeMovesTaskBranch(a)
  PROVE  ConflictAt(top)'
<1>1. Sound(handler[a].merged, top)
  BY DEF MergeMovesTaskBranch, ConflictAt, Handlers, HandlerHistories
<1>2. /\ UNCHANGED <<origin, at, index, files, rebasing, before>>
      /\ handler' = [handler EXCEPT ![a] = Idle] /\ tip' = [tip EXCEPT ![a] = handler[a].merged]
  BY DEF MergeMovesTaskBranch
<1>3. Refs(top)'
  BY <1>1, <1>2 DEF ConflictAt, Refs
<1> QED
  BY <1>2, <1>3, IdleIsSound, HandlerSound, SameRest, SameContents DEF ConflictAt

LEMMA RebaseBranchSound ==
  ASSUME NEW top, GitInv, ConflictAt(top), NEW a \in Attempt, rebase_branch(a)
  PROVE  ConflictAt(top)'
<1> DEFINE onto == tip[handler[a].new]
           mine == After(tip[a], tip[handler[a].old])
<1>1. Sound(onto, top) /\ Sound(mine, top) /\ Sound(origin[Origin], top)
  <2>1. Sound(tip[a], top) /\ Sound(tip[handler[a].old], top) /\ Sound(onto, top) /\ Sound(origin[Origin], top)
    BY DEF rebase_branch, GitInv, Rows, HandlerOK, Branches, Target, ConflictAt, Refs, Remotes
  <2> QED
    BY <2>1, AfterIsSound
<1>2. /\ UNCHANGED <<origin, before>>
      /\ \/ tip' = [tip EXCEPT ![Origin] = origin[Origin]]
            /\ UNCHANGED <<at, index, files, rebasing, handler>>
         \/ handler' = [handler EXCEPT ![a] = Idle] /\ RunRebase(a, onto, tip[a], mine)
         \/ handler' = [handler EXCEPT ![a] = Idle] /\ UNCHANGED <<tip, at, index, files, rebasing>>
  BY DEF rebase_branch
<1> HIDE DEF onto, mine
<1>3. CASE /\ tip' = [tip EXCEPT ![Origin] = origin[Origin]]
           /\ UNCHANGED <<at, index, files, rebasing, handler>>
  <2>1. Refs(top)'
    BY <1>1, <1>3 DEF ConflictAt, Refs
  <2> QED
    BY <1>2, <1>3, <2>1, SameRest, SameContents DEF ConflictAt
<1>4. CASE handler' = [handler EXCEPT ![a] = Idle] /\ RunRebase(a, onto, tip[a], mine)
  BY <1>1, <1>2, <1>4, RebaseSound, IdleIsSound, HandlerSound, SameRest DEF ConflictAt
<1>5. CASE handler' = [handler EXCEPT ![a] = Idle] /\ UNCHANGED <<tip, at, index, files, rebasing>>
  BY <1>2, <1>5, IdleIsSound, HandlerSound, SameRest, SameContents DEF ConflictAt
<1> QED
  BY <1>2, <1>3, <1>4, <1>5

LEMMA UserSound ==
  ASSUME NEW top, GitInv, ConflictAt(top),
         UserCommits \/ \E f \in File : RemoteMoves(f) \/ \E s \in BOOLEAN : UserEdits(f, s)
  PROVE  ConflictAt(top)'
<1>0. Main \in Checkout /\ Main \notin Attempt /\ Holds(files[Main], top) /\ Holds(index[Main], top)
  BY GitAssumption DEF Checkout, ConflictAt, Contents
<1>1. ASSUME NEW f \in File, RemoteMoves(f)
      PROVE  ConflictAt(top)'
  <2>1. /\ origin' = [origin EXCEPT ![Origin] = Append(@, Commit([g \in {f} |-> Remote], "user"))]
        /\ UNCHANGED <<tip, at, index, files, rebasing, handler, before>>
    BY <1>1 DEF RemoteMoves
  <2>2. IsCommit(Commit([g \in {f} |-> Remote], "user"), top)
    BY NobodyIsSettled DEF IsCommit, Commit
  <2>3. Sound(Append(origin[Origin], Commit([g \in {f} |-> Remote], "user")), top)
    BY <2>2, AppendIsSound DEF ConflictAt, Remotes
  <2>4. Remotes(top)'
    BY <2>1, <2>3 DEF ConflictAt, Remotes
  <2> QED
    BY <2>1, <2>4, SameRest, SameContents DEF ConflictAt
<1>2. ASSUME NEW s, NEW t, Holds(s, top), Holds(t, top), index' = [index EXCEPT ![Main] = s],
             files' = [files EXCEPT ![Main] = t], rebasing' = rebasing
      PROVE  Contents(top)' /\ InRebase'
  <2>1. Contents(top)' /\ \A b \in Checkout : b # Main => index'[b] = index[b]
    BY <1>0, <1>2, ContentsChange
  <2> QED
    BY <1>0, <1>2, <2>1 DEF ConflictAt, InRebase, Checkout
<1>3. ASSUME NEW f \in File, NEW b \in BOOLEAN, UserEdits(f, b)
      PROVE  ConflictAt(top)'
  <2>1. /\ files' = [files EXCEPT ![Main] = [@ EXCEPT ![f] = User]]
        /\ index' = index \/ index' = [index EXCEPT ![Main] = [@ EXCEPT ![f] = User]]
        /\ UNCHANGED <<tip, origin, at, rebasing, handler, before>>
    BY <1>3 DEF UserEdits
  <2>2. Holds([files[Main] EXCEPT ![f] = User], top) /\ Holds([index[Main] EXCEPT ![f] = User], top)
    BY <1>0, OneFile, NobodyIsSettled DEF Settled
  <2>3. CASE index' = index
    BY <1>0, <2>1, <2>2, <2>3, FilesChange, SameRest DEF ConflictAt, InRebase
  <2>4. CASE index' = [index EXCEPT ![Main] = [@ EXCEPT ![f] = User]]
    BY <1>2, <2>1, <2>2, <2>4, SameRest DEF ConflictAt
  <2> QED
    BY <2>1, <2>3, <2>4
<1>4. CASE UserCommits
  <2> DEFINE d == Delta(Added(Main), Tree(HeadOf(Main)))
  <2>1. /\ MoveHead(Main, Append(HeadOf(Main), Commit(d, "user")))
        /\ index' = [index EXCEPT ![Main] = Added(Main)]
        /\ files' = [files EXCEPT ![Main] = Added(Main)]
        /\ UNCHANGED <<origin, rebasing, handler, before>>
    BY <1>4 DEF UserCommits
  <2>2. Holds(Added(Main), top) /\ \A f \in File : Settled(Added(Main)[f], top)
    BY <1>0, AddedIsSettled DEF Holds, Settled
  <2>3. Refs(top)'
    BY <1>0, <2>1, <2>2, DeltaIsCommit, AppendIsSound, HeadIsSound, MoveHeadSound
  <2> QED
    BY <1>2, <2>1, <2>2, <2>3, SameRest DEF ConflictAt
<1> QED
  BY <1>1, <1>3, <1>4

(* Marks that count up to i count up to j.                                 *)
LEMMA MoreMarks ==
  ASSUME NEW i \in Nat, NEW j \in Nat, i <= j
  PROVE  /\ \A h : Sound(h, i) => Sound(h, j)
         /\ \A t : Holds(t, i) => Holds(t, j)
<1>1. \A v : IsContent(v, i) => IsContent(v, j)
  BY DEF IsContent
<1>2. \A v : Settled(v, i) => Settled(v, j)
  BY <1>1 DEF Settled
<1>3. \A c : IsCommit(c, i) => IsCommit(c, j)
  BY <1>2 DEF IsCommit
<1> QED
  BY <1>1, <1>3 DEF Sound, Holds

LEMMA MoreEdits ==
  ASSUME NEW i \in Nat, NEW j \in Nat, i <= j, ConflictAt(i)
  PROVE  ConflictAt(j)
BY MoreMarks DEF ConflictAt, Refs, Remotes, Starts, Todos, Handlers, HandlerHistories, Contents

LEMMA ConflictStepAt ==
  ASSUME GitInv, NEW top \in Nat, ConflictAt(top), edits'.agent <= top, Counters, [GitNext]_gitVars
  PROVE  ConflictAt(top)'
<1>1. CASE UNCHANGED gitVars
  BY <1>1, SameRest, SameContents DEF gitVars, ConflictAt
<1>2. CASE UserCommits \/ \E f \in File : RemoteMoves(f) \/ \E s \in BOOLEAN : UserEdits(f, s)
  BY <1>2, UserSound
<1>3. ASSUME NEW a \in Attempt, NEW f \in File, AgentEdits(a, f) \/ delete_task_attempt_file(a, f)
      PROVE  ConflictAt(top)'
  BY <1>3, AgentEditsSound, DeleteSound
<1>4. ASSUME NEW a \in Attempt,
             \/ commit(a) \/ AgentResolves(a) \/ AgentContinues(a)
             \/ abort_conflicts_task_attempt(a)
             \/ \E force \in BOOLEAN : reset_worktree_to_commit(a, force)
      PROVE  ConflictAt(top)'
  BY <1>4, CommitSound, ResolveSound, ContinueSound, AbortSound, ResetSound
<1>5. ASSUME NEW a \in Attempt,
             \/ RecordBefore(a) \/ push_task_attempt_branch(a) \/ merge_task_attempt(a)
             \/ \E b \in Target : change_target_branch(a, b) \/ rebase_task_attempt(a, b)
      PROVE  ConflictAt(top)'
  BY <1>5, RowSteps
<1>6. ASSUME NEW a \in Attempt,
             \/ MergeFindsBase(a) \/ merge_squash_commit(a) \/ perform_squash_merge(a)
             \/ MergeMovesTaskBranch(a) \/ rebase_branch(a)
      PROVE  ConflictAt(top)'
  BY <1>6, FindsSound, SquashSound, MemorySound, MovesSound, RebaseBranchSound
<1> QED
  BY <1>1, <1>2, <1>3, <1>4, <1>5, <1>6 DEF GitNext

(* Edits are counted, requests too.                                        *)
LEMMA CountersStep ==
  ASSUME Counters, [GitNext]_gitVars
  PROVE  Counters' /\ edits.agent <= edits'.agent
<1>1. \/ edits' = edits
      \/ edits' = [edits EXCEPT !.agent = @ + 1]
      \/ edits' = [edits EXCEPT !.user = @ + 1]
      \/ edits' = [edits EXCEPT !.request = @ + 1]
  <2>1. CASE UNCHANGED gitVars
    BY <2>1 DEF gitVars
  <2>2. CASE UserCommits
    BY <2>2 DEF UserCommits
  <2>3. ASSUME NEW f \in File, RemoteMoves(f) \/ \E s \in BOOLEAN : UserEdits(f, s)
        PROVE  edits' = edits \/ edits' = [edits EXCEPT !.user = @ + 1]
    BY <2>3 DEF RemoteMoves, UserEdits
  <2>4. ASSUME NEW a \in Attempt, NEW f \in File, AgentEdits(a, f) \/ delete_task_attempt_file(a, f)
        PROVE  edits' = [edits EXCEPT !.agent = @ + 1] \/ edits' = [edits EXCEPT !.request = @ + 1]
    BY <2>4 DEF AgentEdits, delete_task_attempt_file, Ask
  <2>5. ASSUME NEW a \in Attempt,
               \/ commit(a) \/ RecordBefore(a) \/ AgentContinues(a)
               \/ MergeFindsBase(a) \/ merge_squash_commit(a) \/ perform_squash_merge(a)
               \/ MergeMovesTaskBranch(a) \/ rebase_branch(a)
        PROVE  edits' = edits
    BY <2>5 DEF commit, RecordBefore, AgentContinues, MergeFindsBase, merge_squash_commit,
                perform_squash_merge, MergeMovesTaskBranch, rebase_branch
  <2>6. ASSUME NEW a \in Attempt, AgentResolves(a)
        PROVE  edits' = [edits EXCEPT !.agent = @ + 1]
    BY <2>6 DEF AgentResolves
  <2>7. ASSUME NEW a \in Attempt,
               \/ merge_task_attempt(a) \/ abort_conflicts_task_attempt(a) \/ push_task_attempt_branch(a)
               \/ \E b \in Target : change_target_branch(a, b) \/ rebase_task_attempt(a, b)
               \/ \E force \in BOOLEAN : reset_worktree_to_commit(a, force)
        PROVE  edits' = [edits EXCEPT !.request = @ + 1]
    BY <2>7 DEF merge_task_attempt, MergeCheck, abort_conflicts_task_attempt, push_task_attempt_branch,
                change_target_branch, rebase_task_attempt, reset_worktree_to_commit, Ask
  <2> QED
    BY <2>1, <2>2, <2>3, <2>4, <2>5, <2>6, <2>7 DEF GitNext
<1> QED
  BY <1>1 DEF Counters

LEMMA ConflictStep == GitInv /\ ConflictInv /\ [GitNext]_gitVars => ConflictInv'
<1> SUFFICES ASSUME GitInv, ConflictInv, [GitNext]_gitVars PROVE ConflictInv'
  OBVIOUS
<1>1. Counters' /\ edits.agent <= edits'.agent /\ edits.agent \in Nat /\ edits'.agent \in Nat
  BY CountersStep DEF ConflictInv, Counters
<1>2. PICK top \in Nat : top = edits'.agent
  BY <1>1
<1>3. ConflictAt(top)
  BY <1>1, <1>2, MoreEdits DEF ConflictInv
<1>4. ConflictAt(top)'
  BY <1>1, <1>2, <1>3, ConflictStepAt DEF ConflictInv
<1> QED
  BY <1>1, <1>2, <1>4 DEF ConflictInv

(* No commit, merge, rebase, abort, reset or deletion ever leaves a        *)
(* conflict in a history, nor in the index of a worktree without a rebase  *)
(* in progress.                                                            *)
THEOREM NoConflictInHistory == GitSpec => []ConflictInv
<1>1. GitInit => ConflictInv
  BY ConflictInit DEF ConflictInv, Counters, GitInit
<1>2. GitInv /\ ConflictInv /\ [GitNext]_gitVars => ConflictInv'
  BY ConflictStep
<1> QED
  BY <1>1, <1>2, GitInvariant, PTL DEF GitSpec

(* A worktree in conflict is shown as in a rebase, and as changed, however *)
(* the exit monitor, the agent, the user and the handlers interleave:      *)
(* conflict_op, is_rebase_in_progress and has_uncommitted_changes of       *)
(* get_task_attempt_branch_status offer the abort that leads out of it.    *)
THEOREM ConflictsShown == GitSpec => []ConflictsAreShown
<1>1. GitInv /\ ConflictInv => ConflictsAreShown
  <2> SUFFICES ASSUME GitInv, ConflictInv, NEW a \in Attempt, get_conflicted_files(a) # {}
               PROVE  rebasing[a].active /\ ~check_worktree_clean(a)
    BY DEF ConflictsAreShown, get_task_attempt_branch_status, detect_conflict_op
  <2>0. PICK top : ConflictAt(top)
    BY DEF ConflictInv
  <2>1. PICK f \in File : InConflict(index[a][f])
    BY DEF get_conflicted_files
  <2>2. rebasing[a].active
    BY <2>0, <2>1 DEF ConflictAt, InRebase
  <2>3. ~InConflict(Tree(HeadOf(a))[f])
    BY <2>0, HeadIsSound, TreeHolds DEF Checkout
  <2>4. index[a] # Tree(HeadOf(a))
    BY <2>1, <2>3
  <2> QED
    BY <2>2, <2>4 DEF check_worktree_clean, has_staged_changes
<1> QED
  BY <1>1, GitInvariant, NoConflictInHistory, PTL

-----------------------------------------------------------------------------
(* What histories say of a mark v in a file f.                             *)

Touched(h, i, f) == f \in DOMAIN h[i].change

Marked(h, i, f, v) == Touched(h, i, f) /\ v \in Marks(h[i].change[f])

(* No commit holds it, or every later commit of the file does.             *)
Lacks(h, f, v) == \A i \in 1 .. Len(h) : ~Marked(h, i, f, v)

Stays(h, f, v) == \A i, j \in 1 .. Len(h) :
  i < j /\ Marked(h, i, f, v) /\ Touched(h, j, f) => Marked(h, j, f, v)

(* h ends with the commits of k.                                           *)
Ends(h, k) == Len(k) <= Len(h) /\ \A i \in 1 .. Len(k) : k[i] = h[Len(h) - Len(k) + i]

IsLast(h, i, f) == /\ i \in 1 .. Len(h) /\ Touched(h, i, f)
                   /\ \A j \in 1 .. Len(h) : j > i => ~Touched(h, j, f)

InTree(h, f, v) == v \in Marks(Tree(h)[f])

LEMMA TreeIsLast ==
  ASSUME NEW h, IsHistory(h), NEW f \in File, NEW i, IsLast(h, i, f)
  PROVE  Tree(h)[f] = h[i].change[f]
<1> DEFINE touching == {j \in 1..Len(h) : f \in DOMAIN h[j].change}
<1>1. Tree(h)[f] = IF touching = {} THEN None ELSE h[Max(touching)].change[f]
  BY DEF Tree
<1>2. Len(h) \in Nat
  BY DEF IsHistory
<1>3. i \in touching /\ \A j \in touching : i >= j
  BY <1>2 DEF IsLast, Touched
<1>4. Max(touching) = i
  BY <1>2, <1>3 DEF Max
<1> QED
  BY <1>1, <1>3, <1>4

LEMMA TreeHasLast ==
  ASSUME NEW h, IsHistory(h), NEW f \in File
  PROVE  \/ Tree(h)[f] = None /\ \A i \in 1 .. Len(h) : ~Touched(h, i, f)
         \/ \E i : IsLast(h, i, f)
<1> DEFINE touching == {j \in 1..Len(h) : f \in DOMAIN h[j].change}
<1>1. Tree(h)[f] = IF touching = {} THEN None ELSE h[Max(touching)].change[f]
  BY DEF Tree
<1>2. Len(h) \in Nat /\ touching \subseteq 0 .. Len(h)
  BY DEF IsHistory
<1>3. CASE touching = {}
  BY <1>1, <1>3 DEF Touched
<1>4. CASE touching # {}
  <2>1. PICK i \in touching : \A j \in touching : i >= j
    <3> HIDE DEF touching
    <3> QED
      BY <1>2, <1>4, GreatestIsThere
  <2>2. IsLast(h, i, f)
    BY <1>2, <2>1 DEF IsLast, Touched
  <2> QED
    BY <2>2
<1> QED
  BY <1>3, <1>4

LEMMA NoMarksOfNobody ==
  ASSUME NEW v, v # None
  PROVE  v \notin Marks(None)
BY PlainMarks DEF None

(* A mark in the tree is in the last commit of the file.                   *)
LEMMA InTreeIsLast ==
  ASSUME NEW h, IsHistory(h), NEW f \in File, NEW v, v # None, InTree(h, f, v)
  PROVE  \E i \in 1 .. Len(h) : IsLast(h, i, f) /\ Marked(h, i, f, v)
<1>1. Tree(h)[f] # None
  BY NoMarksOfNobody DEF InTree
<1>2. PICK i : IsLast(h, i, f)
  BY <1>1, TreeHasLast
<1>3. Tree(h)[f] = h[i].change[f] /\ i \in 1 .. Len(h) /\ Touched(h, i, f)
  BY <1>2, TreeIsLast DEF IsLast
<1> QED
  BY <1>2, <1>3 DEF InTree, Marked

LEMMA LastIsInTree ==
  ASSUME NEW h, IsHistory(h), NEW f \in File, NEW v, NEW i, IsLast(h, i, f), Marked(h, i, f, v)
  PROVE  InTree(h, f, v)
BY TreeIsLast DEF InTree, Marked

LEMMA LacksTree ==
  ASSUME NEW h, IsHistory(h), NEW f \in File, NEW v, v # None, Lacks(h, f, v)
  PROVE  ~InTree(h, f, v)
BY InTreeIsLast DEF Lacks

LEMMA LacksStays ==
  ASSUME NEW h, NEW f, NEW v, Lacks(h, f, v)
  PROVE  Stays(h, f, v)
BY DEF Lacks, Stays

LEMMA StaysTree ==
  ASSUME NEW h, IsHistory(h), NEW f \in File, NEW v, Stays(h, f, v)
  PROVE  Lacks(h, f, v) \/ InTree(h, f, v)
<1> SUFFICES ASSUME NEW i \in 1 .. Len(h), Marked(h, i, f, v) PROVE InTree(h, f, v)
  BY DEF Lacks
<1>1. PICK j : IsLast(h, j, f)
  BY TreeHasLast DEF Marked
<1>2. j \in 1 .. Len(h) /\ Touched(h, j, f) /\ (i = j \/ i < j)
  <2>1. i \in Int /\ j \in Int
    BY <1>1 DEF IsLast
  <2> QED
    BY <1>1, <2>1 DEF IsLast, Marked
<1>3. Marked(h, j, f, v)
  BY <1>2 DEF Stays
<1> QED
  BY <1>1, <1>3, LastIsInTree

LEMMA AppendIs ==
  ASSUME NEW h, IsHistory(h), NEW c
  PROVE  /\ IsHistory(Append(h, c)) /\ Len(h) \in Nat /\ Len(Append(h, c)) = Len(h) + 1
         /\ Append(h, c)[Len(h) + 1] = c
         /\ \A i \in 1 .. Len(h) : Append(h, c)[i] = h[i]
         /\ \A i \in 1 .. Len(h) + 1 : i \in 1 .. Len(h) \/ i = Len(h) + 1
<1>1. PICK S : h \in Seq(S)
  BY DEF IsHistory
<1>2. h \in Seq(S \cup {c}) /\ c \in S \cup {c}
  BY <1>1
<1>3. /\ Len(h) \in Nat /\ Len(Append(h, c)) = Len(h) + 1
      /\ Append(h, c)[Len(h) + 1] = c
      /\ \A i \in 1 .. Len(h) : Append(h, c)[i] = h[i]
  BY <1>2
<1> QED
  BY <1>3, AppendHistory

LEMMA AppendTree ==
  ASSUME NEW h, IsHistory(h), NEW c, NEW f \in File
  PROVE  Tree(Append(h, c))[f] = IF f \in DOMAIN c.change THEN c.change[f] ELSE Tree(h)[f]
<1> DEFINE k == Append(h, c)
<1>0. /\ IsHistory(k) /\ Len(h) \in Nat /\ Len(k) = Len(h) + 1 /\ k[Len(h) + 1] = c
      /\ \A i \in 1 .. Len(h) : k[i] = h[i]
      /\ \A i \in 1 .. Len(h) + 1 : i \in 1 .. Len(h) \/ i = Len(h) + 1
  BY AppendIs
<1> HIDE DEF k
<1>1. CASE f \in DOMAIN c.change
  <2>1. IsLast(k, Len(h) + 1, f)
    BY <1>0, <1>1 DEF IsLast, Touched
  <2>2. Tree(k)[f] = k[Len(h) + 1].change[f]
    BY <1>0, <2>1, TreeIsLast
  <2> QED
    BY <1>0, <1>1, <2>2 DEF k
<1>2. CASE f \notin DOMAIN c.change
  <2>1. ~Touched(k, Len(h) + 1, f)
    BY <1>0, <1>2 DEF Touched
  <2>2. CASE \E i : IsLast(h, i, f)
    <3>1. PICK i : IsLast(h, i, f)
      BY <2>2
    <3>2. IsLast(k, i, f) /\ k[i] = h[i]
      BY <1>0, <2>1, <3>1 DEF IsLast, Touched
    <3>3. Tree(k)[f] = k[i].change[f] /\ Tree(h)[f] = h[i].change[f]
      BY <1>0, <3>1, <3>2, TreeIsLast
    <3> QED
      BY <1>2, <3>2, <3>3 DEF k
  <2>3. CASE Tree(h)[f] = None /\ \A i \in 1 .. Len(h) : ~Touched(h, i, f)
    <3>1. \A i \in 1 .. Len(k) : ~Touched(k, i, f)
      BY <1>0, <2>1, <2>3 DEF Touched
    <3>2. Tree(k)[f] = None
      BY <1>0, <3>1, TreeHasLast DEF IsLast
    <3> QED
      BY <1>2, <2>3, <3>2 DEF k
  <2> QED
    BY <2>2, <2>3, TreeHasLast
<1> QED
  BY <1>1, <1>2

(* Whether a commit c marks f with v.                                      *)
Marks1(c, f, v) == f \in DOMAIN c.change /\ v \in Marks(c.change[f])

LEMMA AppendLacks ==
  ASSUME NEW h, IsHistory(h), NEW c, NEW f, NEW v, Lacks(h, f, v), ~Marks1(c, f, v)
  PROVE  Lacks(Append(h, c), f, v)
BY AppendIs DEF Lacks, Marked, Touched, Marks1

LEMMA AppendStays ==
  ASSUME NEW h, IsHistory(h), NEW c, NEW f, NEW v, Stays(h, f, v),
         f \in DOMAIN c.change => Lacks(h, f, v) \/ v \in Marks(c.change[f])
  PROVE  Stays(Append(h, c), f, v)
<1> DEFINE k == Append(h, c)
<1>0. /\ Len(h) \in Nat /\ Len(k) = Len(h) + 1 /\ k[Len(h) + 1] = c
      /\ \A i \in 1 .. Len(h) : k[i] = h[i]
      /\ \A i \in 1 .. Len(h) + 1 : i \in 1 .. Len(h) \/ i = Len(h) + 1
  BY AppendIs
<1> HIDE DEF k
<1> SUFFICES ASSUME NEW i \in 1 .. Len(k), NEW j \in 1 .. Len(k), i < j, Marked(k, i, f, v), Touched(k, j, f)
             PROVE  Marked(k, j, f, v)
  BY DEF Stays, k
<1>1. i \in 1 .. Len(h) /\ Marked(h, i, f, v)
  BY <1>0 DEF Marked, Touched
<1>2. CASE j \in 1 .. Len(h)
  BY <1>0, <1>1, <1>2 DEF Stays, Marked, Touched
<1>3. CASE j = Len(h) + 1
  BY <1>0, <1>1, <1>3 DEF Lacks, Marked, Touched
<1> QED
  BY <1>0, <1>2, <1>3

-----------------------------------------------------------------------------
(* The front and the rest of a history.                                    *)
LEMMA FrontIs ==
  ASSUME NEW h, IsHistory(h), NEW m \in Int, m <= Len(h)
  PROVE  LET p == SubSeq(h, 1, m) IN
         /\ IsHistory(p) /\ Len(h) \in Nat /\ Len(p) \in 0 .. Len(h) /\ (m >= 0 => Len(p) = m)
         /\ \A i \in 1 .. Len(p) : p[i] = h[i]
<1>1. PICK S : h \in Seq(S)
  BY DEF IsHistory
<1>2. CASE m <= 0
  <2>1. SubSeq(h, 1, m) = <<>>
    BY <1>1, <1>2
  <2>2. IsHistory(SubSeq(h, 1, m)) /\ Len(SubSeq(h, 1, m)) = 0
    BY <2>1, EmptyIsHistory
  <2>3. Len(h) \in Nat
    BY <1>1
  <2> QED
    BY <1>2, <2>2, <2>3
<1>3. CASE m >= 1
  <2>1. SubSeq(h, 1, m) \in Seq(S) /\ Len(SubSeq(h, 1, m)) = m /\ \A i \in 1 .. m : SubSeq(h, 1, m)[i] = h[i]
    BY <1>1, <1>3
  <2> QED
    BY <1>1, <1>3, <2>1 DEF IsHistory
<1> QED
  BY <1>2, <1>3

LEMMA RestIs ==
  ASSUME NEW h, IsHistory(h), NEW m \in 1 .. Len(h) + 1
  PROVE  LET r == SubSeq(h, m, Len(h)) IN
         /\ IsHistory(r) /\ Len(h) \in Nat /\ Len(r) = Len(h) - m + 1
         /\ \A i \in 1 .. Len(r) : r[i] = h[m + i - 1]
<1>1. PICK S : h \in Seq(S)
  BY DEF IsHistory
<1>2. /\ SubSeq(h, m, Len(h)) \in Seq(S)
      /\ Len(SubSeq(h, m, Len(h))) = Len(h) - m + 1
      /\ \A i \in 1 .. Len(h) - m + 1 : SubSeq(h, m, Len(h))[i] = h[m + i - 1]
  BY <1>1
<1>3. Len(h) \in Nat
  BY <1>1
<1>4. IsHistory(SubSeq(h, m, Len(h)))
  BY <1>2, Zenon DEF IsHistory
<1> QED
  BY <1>2, <1>3, <1>4

LEMMA RestEnds ==
  ASSUME NEW h, NEW k, IsHistory(h), IsHistory(k), NEW m \in 1 .. Len(k) + 1, Ends(h, k)
  PROVE  Ends(h, SubSeq(k, m, Len(k)))
<1> DEFINE r == SubSeq(k, m, Len(k))
<1>1. /\ IsHistory(r) /\ Len(k) \in Nat /\ Len(r) = Len(k) - m + 1
      /\ \A i \in 1 .. Len(r) : r[i] = k[m + i - 1]
  BY RestIs
<1>2. Len(h) \in Nat
  BY DEF IsHistory
<1> HIDE DEF r
<1>3. ASSUME NEW i \in 1 .. Len(r) PROVE r[i] = h[Len(h) - Len(r) + i]
  <2>1. m + i - 1 \in 1 .. Len(k) /\ Len(h) - Len(k) + (m + i - 1) = Len(h) - Len(r) + i
    BY <1>1, <1>2
  <2>2. r[i] = k[m + i - 1] /\ k[m + i - 1] = h[Len(h) - Len(k) + (m + i - 1)]
    BY <1>1, <2>1 DEF Ends
  <2> QED
    BY <2>1, <2>2
<1>4. Len(r) <= Len(h)
  BY <1>1, <1>2 DEF Ends
<1> QED
  BY <1>3, <1>4 DEF Ends, r

LEMMA OwnEnds ==
  ASSUME NEW h, IsHistory(h)
  PROVE  Ends(h, h)
BY DEF Ends, IsHistory

(* The last commit of a file is still the last in a rest that has it.      *)
LEMMA RestTree ==
  ASSUME NEW h, IsHistory(h), NEW m \in 1 .. Len(h) + 1, NEW f \in File, NEW v, NEW i, i >= m,
         IsLast(h, i, f), Marked(h, i, f, v)
  PROVE  InTree(SubSeq(h, m, Len(h)), f, v)
<1> DEFINE r == SubSeq(h, m, Len(h))
           k == i - m + 1
<1>1. /\ IsHistory(r) /\ Len(h) \in Nat /\ Len(r) = Len(h) - m + 1
      /\ \A j \in 1 .. Len(r) : r[j] = h[m + j - 1]
  BY RestIs
<1> HIDE DEF r
<1>2. i \in 1 .. Len(h)
  BY DEF IsLast
<1>3. k \in 1 .. Len(r) /\ r[k] = h[i]
  BY <1>1, <1>2
<1>4. ASSUME NEW j \in 1 .. Len(r), j > k PROVE ~Touched(r, j, f)
  <2>1. m + j - 1 \in 1 .. Len(h) /\ m + j - 1 > i
    BY <1>1, <1>2, <1>4
  <2> QED
    BY <1>1, <2>1 DEF IsLast, Touched
<1> HIDE DEF k
<1>5. IsLast(r, k, f) /\ Marked(r, k, f, v)
  BY <1>3, <1>4 DEF IsLast, Marked, Touched
<1> QED
  BY <1>1, <1>5, LastIsInTree DEF r

(* A commit that changes a file with the mark in its parent keeps it.      *)
LEMMA ParentMark ==
  ASSUME NEW h, IsHistory(h), NEW commits, IsHistory(commits), NEW i \in 1 .. Len(commits),
         NEW f \in File, NEW v, v # None, Stays(h, f, v), Ends(h, commits) \/ Lacks(h, f, v),
         InTree(SubSeq(h, 1, Len(h) - Len(commits) + i - 1), f, v), Touched(commits, i, f)
  PROVE  Marked(commits, i, f, v)
<1> DEFINE m == Len(h) - Len(commits) + i - 1
           p == SubSeq(h, 1, m)
<1>0. Len(h) \in Nat /\ Len(commits) \in Nat
  BY DEF IsHistory
<1>1. m \in Int /\ m <= Len(h)
  BY <1>0
<1>2. /\ IsHistory(p) /\ Len(p) \in 0 .. Len(h) /\ (m >= 0 => Len(p) = m)
      /\ \A j \in 1 .. Len(p) : p[j] = h[j]
  <2> HIDE DEF m
  <2> QED
    BY <1>1, FrontIs
<1>3. InTree(p, f, v)
  OBVIOUS
<1> HIDE DEF p
<1>4. PICK j \in 1 .. Len(p) : Marked(p, j, f, v)
  BY <1>2, <1>3, InTreeIsLast
<1>5. j \in 1 .. Len(h) /\ Marked(h, j, f, v)
  BY <1>0, <1>2, <1>4 DEF Marked, Touched
<1>6. Ends(h, commits)
  BY <1>5 DEF Lacks
<1>7. m + 1 \in 1 .. Len(h) /\ j < m + 1 /\ commits[i] = h[m + 1]
  BY <1>0, <1>2, <1>6 DEF Ends
<1> HIDE DEF m
<1>8. Touched(h, m + 1, f)
  BY <1>7 DEF Touched
<1>9. Marked(h, m + 1, f, v)
  BY <1>5, <1>7, <1>8 DEF Stays
<1> QED
  BY <1>7, <1>9 DEF Marked, Touched

(* What two histories share begins both.                                   *)
LEMMA SharedIs ==
  ASSUME NEW h, NEW k, IsHistory(h), IsHistory(k)
  PROVE  LET p == Shared(h, k) IN
         /\ IsHistory(p) /\ Len(p) \in 0 .. Len(h) /\ Len(p) \in 0 .. Len(k)
         /\ \A i \in 1 .. Len(p) : p[i] = h[i] /\ p[i] = k[i]
<1> DEFINE p == Shared(h, k)
<1>1. p \in CommonPrefixes({h, k}) /\ Len(p) \in 0 .. Len(h)
  BY SharedIsThere
<1> HIDE DEF p
<1>2. PICK s \in {h, k} : \E l \in 0 .. Len(s) : p = SubSeq(s, 1, l)
  BY <1>1 DEF CommonPrefixes, Prefixes
<1>3. PICK l \in 0 .. Len(s) : p = SubSeq(s, 1, l)
  BY <1>2
<1>4. IsHistory(p)
  <2>1. IsHistory(s) /\ Len(s) \in Nat
    BY <1>2 DEF IsHistory
  <2>2. l \in Int /\ l <= Len(s)
    BY <2>1, <1>3
  <2> QED
    BY <1>3, <2>1, <2>2, FrontIs
<1>5. IsPrefix(p, h) /\ IsPrefix(p, k)
  BY <1>1 DEF CommonPrefixes
<1>6. PICK S : h \in Seq(S) /\ k \in Seq(S) /\ p \in Seq(S)
  <2>1. PICK S1, S2, S3 : h \in Seq(S1) /\ k \in Seq(S2) /\ p \in Seq(S3)
    BY <1>4 DEF IsHistory
  <2> QED
    BY <2>1, h \in Seq(S1 \cup S2 \cup S3), k \in Seq(S1 \cup S2 \cup S3), p \in Seq(S1 \cup S2 \cup S3)
<1>7. Len(p) \in 0 .. Len(k) /\ \A i \in 1 .. Len(p) : p[i] = h[i] /\ p[i] = k[i]
  BY <1>5, <1>6 DEF IsPrefix
<1> QED
  BY <1>1, <1>4, <1>7 DEF p

(* Work that a base lacks is in what a branch has since their merge base.  *)
LEMMA AfterHasWork ==
  ASSUME NEW h, NEW k, IsHistory(h), IsHistory(k), NEW f \in File, NEW v, v # None, Lacks(k, f, v)
  PROVE  /\ Ends(h, After(h, k))
         /\ InTree(h, f, v) => InTree(After(h, k), f, v)
<1> DEFINE p == Shared(h, k)
           m == Len(p) + 1
<1>0. Len(h) \in Nat /\ Len(k) \in Nat
  BY DEF IsHistory
<1>1. /\ Len(p) \in 0 .. Len(h) /\ Len(p) \in 0 .. Len(k)
      /\ \A i \in 1 .. Len(p) : p[i] = h[i] /\ p[i] = k[i]
  BY SharedIs
<1>2. After(h, k) = SubSeq(h, m, Len(h))
  BY DEF After
<1> HIDE DEF p
<1>3. m \in 1 .. Len(h) + 1
  BY <1>0, <1>1
<1>4. Ends(h, After(h, k))
  <2> HIDE DEF m
  <2> QED
    BY <1>2, <1>3, RestEnds, OwnEnds
<1>5. ASSUME InTree(h, f, v) PROVE InTree(After(h, k), f, v)
  <2>1. PICK i \in 1 .. Len(h) : IsLast(h, i, f) /\ Marked(h, i, f, v)
    BY <1>5, InTreeIsLast
  <2>2. i >= m
    <3> SUFFICES ASSUME i \in 1 .. Len(p) PROVE FALSE
      BY <1>0, <1>1
    <3>1. i \in 1 .. Len(k) /\ k[i] = h[i]
      BY <1>0, <1>1
    <3> QED
      BY <2>1, <3>1 DEF Lacks, Marked, Touched
  <2> HIDE DEF m
  <2> QED
    BY <1>2, <1>3, <2>1, <2>2, RestTree
<1> QED
  BY <1>4, <1>5

LEMMA SharedLacks ==
  ASSUME NEW h, NEW k, IsHistory(h), IsHistory(k), NEW f \in File, NEW v, v # None, Lacks(h, f, v)
  PROVE  ~InTree(Shared(h, k), f, v)
<1> DEFINE p == Shared(h, k)
<1>0. Len(h) \in Nat
  BY DEF IsHistory
<1>1. /\ IsHistory(p) /\ Len(p) \in 0 .. Len(h)
      /\ \A i \in 1 .. Len(p) : p[i] = h[i]
  BY SharedIs
<1> HIDE DEF p
<1>2. Lacks(p, f, v)
  BY <1>0, <1>1 DEF Lacks, Marked, Touched
<1> QED
  BY <1>1, <1>2, LacksTree DEF p

-----------------------------------------------------------------------------
(* A replay of i commits has what the new base and the commits had.        *)

Reached(s, i) == IF s.stop = 0 THEN i ELSE s.stop - 1

ReplayKeeps(s, i, onto, commits, inWay, f, v) ==
  /\ Stays(s.done, f, v)
  /\ InTree(onto, f, v) \/ (\E j \in 1 .. Reached(s, i) : Marked(commits, j, f, v))
       => InTree(s.done, f, v)
  /\ f \in inWay => Tree(s.done)[f] = Tree(onto)[f]
  /\ s.clash # {} /\ Touched(commits, s.stop, f) =>
       /\ f \notin s.clash /\ InTree(s.done, f, v) => Marked(commits, s.stop, f, v)
       /\ f \in inWay => f \notin s.clash /\ commits[s.stop].change[f] = Tree(s.done)[f]

LEMMA ReplayStepKeeps ==
  ASSUME NEW top, NEW onto, NEW h, NEW commits, NEW inWay, NEW i \in 1 .. Len(commits), NEW s,
         NEW f \in File, NEW v, v # None, IsHistory(h), Sound(commits, top),
         Stays(h, f, v), Ends(h, commits) \/ Lacks(h, f, v), ReplayState(s, commits, top),
         ReplayKeeps(s, i - 1, onto, commits, inWay, f, v)
  PROVE  ReplayKeeps(ReplayStep(s, i, h, commits, inWay), i, onto, commits, inWay, f, v)
<1> DEFINE change == commits[i].change
           t == Tree(s.done)
           p == SubSeq(h, 1, Len(h) - Len(commits) + i - 1)
           parent == Tree(p)
           clash == {g \in DOMAIN change : t[g] # parent[g] /\ t[g] # change[g]}
           new == {g \in DOMAIN change : t[g] # change[g]}
           c == [commits[i] EXCEPT !.change = [g \in new |-> change[g]]]
           r == ReplayStep(s, i, h, commits, inWay)
<1>0. IsHistory(commits) /\ Len(commits) \in Nat /\ i \in Nat /\ IsHistory(s.done) /\ IsCommit(commits[i], top)
  BY DEF Sound, IsHistory, ReplayState
<1>1. \/ s.stop # 0 /\ r = s
      \/ s.stop = 0 /\ r = [s EXCEPT !.stop = i]
      \/ s.stop = 0 /\ new \cap inWay = {} /\ clash # {} /\ r = [s EXCEPT !.clash = clash, !.stop = i]
      \/ s.stop = 0 /\ new = {} /\ r = s
      \/ s.stop = 0 /\ new \cap inWay = {} /\ clash = {} /\ r = [s EXCEPT !.done = Append(@, c)]
  BY DEF ReplayStep
<1>2. c.change = [g \in new |-> change[g]]
  BY <1>0 DEF IsCommit
<1>3. ASSUME f \in DOMAIN change, t[f] = parent[f], InTree(s.done, f, v)
      PROVE  v \in Marks(change[f])
  <2>1. InTree(p, f, v) /\ Touched(commits, i, f)
    BY <1>3 DEF InTree, Touched
  <2> QED
    BY <1>0, <2>1, ParentMark DEF Marked
<1>4. /\ s = [done |-> s.done, clash |-> s.clash, stop |-> s.stop]
      /\ s.stop = 0 => s.clash = {} /\ Reached(s, i - 1) = i - 1
  BY DEF ReplayState, Reached
<1>5. /\ f \in DOMAIN change <=> Touched(commits, i, f)
      /\ f \in DOMAIN change /\ v \in Marks(change[f]) <=> Marked(commits, i, f, v)
  BY DEF Touched, Marked
<1>6. \A j \in 1 .. i : j \in 1 .. i - 1 \/ j = i
  BY <1>0
<1>7. /\ f \in new <=> f \in DOMAIN change /\ t[f] # change[f]
      /\ f \in clash <=> f \in DOMAIN change /\ t[f] # parent[f] /\ t[f] # change[f]
  OBVIOUS
<1>8. InTree(s.done, f, v) <=> v \in Marks(t[f])
  BY DEF InTree
<1> HIDE DEF r, clash, new, c, change, parent
<1>11. CASE s.stop # 0 /\ r = s
  BY <1>11 DEF r, ReplayKeeps, Reached
<1>12. CASE s.stop = 0 /\ r = [s EXCEPT !.stop = i]
  <2>1. r.stop = i /\ r.done = s.done /\ r.clash = {}
    BY <1>4, <1>12
  <2>2. Reached(r, i) = i - 1
    BY <1>0, <2>1 DEF Reached
  <2> QED
    BY <1>4, <1>12, <2>1, <2>2 DEF r, ReplayKeeps
<1>13. CASE s.stop = 0 /\ new \cap inWay = {} /\ clash # {} /\ r = [s EXCEPT !.clash = clash, !.stop = i]
  <2>1. r.stop = i /\ r.done = s.done /\ r.clash = clash
    BY <1>4, <1>13
  <2>2. Reached(r, i) = i - 1
    BY <1>0, <2>1 DEF Reached
  <2>3. ASSUME Touched(commits, i, f), f \notin clash, InTree(s.done, f, v) PROVE Marked(commits, i, f, v)
    BY <1>3, <1>5, <1>7, <1>8, <2>3
  <2>4. ASSUME Touched(commits, i, f), f \in inWay PROVE f \notin clash /\ commits[i].change[f] = Tree(s.done)[f]
    BY <1>5, <1>7, <1>13, <2>4 DEF change
  <2> HIDE DEF t
  <2> QED
    BY <1>4, <1>13, <2>1, <2>2, <2>3, <2>4 DEF r, ReplayKeeps
<1>14. CASE s.stop = 0 /\ new = {} /\ r = s
  <2>1. Reached(r, i) = i
    BY <1>14 DEF Reached
  <2>2. Marked(commits, i, f, v) => InTree(s.done, f, v)
    BY <1>5, <1>7, <1>8, <1>14
  <2> QED
    BY <1>4, <1>6, <1>14, <2>1, <2>2 DEF r, ReplayKeeps
<1>15. CASE s.stop = 0 /\ new \cap inWay = {} /\ clash = {} /\ r = [s EXCEPT !.done = Append(@, c)]
  <2>1. r.stop = 0 /\ r.done = Append(s.done, c) /\ r.clash = {} /\ Reached(r, i) = i
    BY <1>4, <1>15 DEF Reached
  <2>2. Tree(r.done)[f] = IF f \in new THEN change[f] ELSE t[f]
    BY <1>0, <1>2, <2>1, AppendTree
  <2>3. f \in new => t[f] = parent[f]
    BY <1>7, <1>15
  <2>4. f \in new /\ InTree(s.done, f, v) => v \in Marks(change[f])
    BY <1>3, <1>7, <2>3
  <2>5. Stays(r.done, f, v)
    <3>1. f \in DOMAIN c.change => f \in new /\ c.change[f] = change[f]
      BY <1>2
    <3>2. Lacks(s.done, f, v) \/ InTree(s.done, f, v)
      BY <1>0, StaysTree DEF ReplayKeeps
    <3> QED
      BY <1>0, <2>1, <2>4, <3>1, <3>2, AppendStays DEF ReplayKeeps
  <2>6. InTree(s.done, f, v) => InTree(r.done, f, v)
    BY <1>8, <2>2, <2>4 DEF InTree
  <2>7. Marked(commits, i, f, v) => InTree(r.done, f, v)
    BY <1>5, <1>7, <2>2 DEF InTree
  <2>8. f \in inWay => Tree(r.done)[f] = Tree(s.done)[f]
    BY <1>15, <2>2
  <2> QED
    BY <1>4, <1>6, <1>15, <2>1, <2>5, <2>6, <2>7, <2>8 DEF r, ReplayKeeps
<1> QED
  BY <1>1, <1>11, <1>12, <1>13, <1>14, <1>15

LEMMA ReplayedKeeps ==
  ASSUME NEW top, NEW onto, NEW h, NEW commits, NEW inWay,
         NEW f \in File, NEW v, v # None, IsHistory(h), Sound(onto, top), Sound(commits, top),
         Stays(onto, f, v), Stays(h, f, v), Ends(h, commits) \/ Lacks(h, f, v)
  PROVE  ReplayKeeps(Replayed(onto, h, commits, inWay), Len(commits), onto, commits, inWay, f, v)
<1> DEFINE n == Len(commits)
           good(s, i) == ReplayKeeps(s, i, onto, commits, inWay, f, v)
<1>0. n \in Nat
  BY DEF Sound, IsHistory
<1>1. PICK after : IsReplay(after, onto, h, commits, inWay, top)
  BY ReplayRun
<1> DEFINE G == {i \in 0 .. n : good(after[i], i)}
<1>2. 0 \in G
  <2>1. good([done |-> onto, clash |-> {}, stop |-> 0], 0)
    BY DEF ReplayKeeps, Reached
  <2> HIDE DEF good
  <2> QED
    BY <1>0, <1>1, <2>1 DEF IsReplay
<1>3. ASSUME NEW i \in 1 .. n, i - 1 \in G PROVE i \in G
  <2>1. /\ ReplayState(after[i - 1], commits, top) /\ after[i] = ReplayStep(after[i - 1], i, h, commits, inWay)
        /\ i \in 0 .. n /\ i - 1 \in 0 .. n
    BY <1>0, <1>1 DEF IsReplay
  <2>2. good(after[i - 1], i - 1)
    BY <1>3
  <2>3. good(ReplayStep(after[i - 1], i, h, commits, inWay), i)
    BY <2>1, <2>2, ReplayStepKeeps, Zenon
  <2> HIDE DEF good
  <2> QED
    BY <2>1, <2>3
<1> HIDE DEF G
<1>4. 0 .. n \subseteq G
  BY <1>0, <1>2, <1>3, UpTo
<1> QED
  BY <1>0, <1>1, <1>4 DEF G, IsReplay

-----------------------------------------------------------------------------
(* Where the work v of attempt a in file f is: on disk, or in the commits  *)
(* a rebase has still to replay, which the branch has too.                 *)
WorkThere(a, f, v) ==
  \/ v \in Marks(files[a][f])
  \/ rebasing[a].active /\ InTree(rebasing[a].todo, f, v) /\ InTree(tip[a], f, v)

(* What the index has is on disk, and what it has not, HEAD never had.     *)
IndexFollows(a, f, v) ==
  /\ v \in Marks(index[a][f]) => v \in Marks(files[a][f])
  /\ v \notin Marks(index[a][f]) => Lacks(HeadOf(a), f, v)

(* Once the work is in a history, it stays in the file; what is left to    *)
(* replay ends the branch, unless a merge has moved the branch meanwhile.  *)
HistoriesKeep(a, f, v) ==
  /\ Stays(tip[a], f, v) /\ Stays(HeadOf(a), f, v) /\ Stays(before[a], f, v)
  /\ rebasing[a].active => Ends(tip[a], rebasing[a].todo) \/ Lacks(tip[a], f, v)

(* A merge that has moved its base during a rebase took the branch's work. *)
MergeTook(a, f, v) ==
  handler[a].op = "moved" /\ rebasing[a].active => ~InTree(tip[a], f, v)

WorkAt(a, f, v) ==
  WorkThere(a, f, v) /\ IndexFollows(a, f, v) /\ HistoriesKeep(a, f, v) /\ MergeTook(a, f, v)

(* Work that no target branch has taken in is in none of them, nor in what *)
(* a merge is about to make of one.                                        *)
NotInBases(f, v) ==
  /\ \A b \in Target : Lacks(tip[b], f, v)
  /\ Lacks(origin[Origin], f, v)
  /\ \A x \in Attempt : /\ handler[x].op = "memory" => Lacks(handler[x].ours, f, v)
                        /\ handler[x].op = "moved" => Lacks(handler[x].merged, f, v)

(* HEAD is detached during a rebase and only then, and a merge in memory   *)
(* that meets one works on the branch as it is.                            *)
Place(a) ==
  /\ rebasing[a].active <=> at[a].branch = NoBranch
  /\ rebasing[a].active /\ handler[a].op = "memory" => handler[a].theirs = tip[a]

WorkOK ==
  /\ DOMAIN work = Attempt
  /\ \A a \in Attempt : /\ DOMAIN work[a] = File
                        /\ \A f \in File : work[a][f] = None \/ \E k \in Nat : work[a][f] = <<a, k>>

Kept(a) ==
  /\ a \notin adrift => Place(a)
  /\ \A f \in File : work[a][f] # None =>
       NotInBases(f, work[a][f]) /\ (a \notin adrift => WorkAt(a, f, work[a][f]))

WorkInv == WorkOK /\ \A a \in Attempt : Kept(a)

LEMMA HeadIs ==
  ASSUME NEW a
  PROVE  /\ at[a].branch = NoBranch => HeadOf(a) = at[a].history
         /\ at[a].branch = a /\ a # NoBranch => HeadOf(a) = tip[a]
         /\ at'[a].branch = NoBranch => HeadOf(a)' = at'[a].history
         /\ at'[a].branch = a /\ a # NoBranch => HeadOf(a)' = tip'[a]
BY DEF HeadOf

(* A rebase that stops leaves HEAD detached and the branch as it was; one  *)
(* that does not is back on its branch.                                    *)
LEMMA RebasePlace ==
  ASSUME NEW a, a \in DOMAIN at, a \in DOMAIN rebasing, a # NoBranch,
         NEW onto, NEW history, NEW commits, RunRebase(a, onto, history, commits)
  PROVE  /\ rebasing'[a].active <=> at'[a].branch = NoBranch
         /\ rebasing'[a].active => tip' = tip
<1>1. \/ /\ at' = [at EXCEPT ![a] = OnBranch(a)]
         /\ rebasing' = [rebasing EXCEPT ![a] = NoRebase]
      \/ \E done, rest : /\ at' = [at EXCEPT ![a] = Detached(done)] /\ tip' = tip
                        /\ rebasing' = [rebasing EXCEPT ![a] = [active |-> TRUE, todo |-> rest]]
  BY DEF RunRebase
<1> QED
  BY <1>1 DEF OnBranch, Detached, NoRebase

(* A rebase leaves the work that the branch, the new base or an untracked  *)
(* file had.                                                               *)
LEMMA RebaseWork ==
  ASSUME NEW top, GitInv, ConflictAt(top), NEW a \in Attempt, NEW onto, NEW commits,
         Sound(onto, top), Sound(commits, top), NEW f \in File, NEW v, v # None,
         RunRebase(a, onto, tip[a], commits), before' = before,
         Stays(tip[a], f, v), Stays(onto, f, v), Stays(before[a], f, v),
         Ends(tip[a], commits) \/ Lacks(tip[a], f, v),
         \/ InTree(onto, f, v) \/ (InTree(commits, f, v) /\ InTree(tip[a], f, v))
         \/ f \in Untracked(a) /\ v \in Marks(files[a][f]) /\ Tree(onto)[f] = None
  PROVE  /\ WorkThere(a, f, v)' /\ IndexFollows(a, f, v)' /\ HistoriesKeep(a, f, v)'
<1> DEFINE r == Replayed(onto, tip[a], commits, Untracked(a))
           done == Tree(r.done)
           t == [g \in File |->
              IF g \in r.clash THEN Conflict(done[g], commits[r.stop].change[g])
              ELSE IF r.clash # {} /\ g \in DOMAIN commits[r.stop].change
              THEN commits[r.stop].change[g] ELSE done[g]]
           u == [g \in File |-> IF index[a][g] = None /\ t[g] = None THEN files[a][g] ELSE t[g]]
           m == IF r.clash = {} THEN r.stop ELSE r.stop + 1
           rest == SubSeq(commits, m, Len(commits))
<1>0. /\ a \in DOMAIN files /\ a \in DOMAIN index /\ a \in DOMAIN at /\ a \in DOMAIN tip /\ a \in DOMAIN rebasing
      /\ a # NoBranch /\ Sound(tip[a], top) /\ IsHistory(tip[a])
  BY GitAssumption DEF GitInv, Checkouts, Checkout, Branches, ConflictAt, Contents, Todos, Refs, NoBranch, Sound
<1>1. /\ index' = [index EXCEPT ![a] = t] /\ files' = [files EXCEPT ![a] = u]
      /\ \/ /\ r.stop = 0 /\ tip' = [tip EXCEPT ![a] = r.done]
            /\ at' = [at EXCEPT ![a] = OnBranch(a)]
            /\ rebasing' = [rebasing EXCEPT ![a] = NoRebase]
         \/ /\ r.stop # 0 /\ at' = [at EXCEPT ![a] = Detached(r.done)] /\ tip' = tip
            /\ rebasing' = [rebasing EXCEPT ![a] = [active |-> TRUE, todo |-> rest]]
  BY DEF RunRebase
<1>2. ReplayState(r, commits, top)
  BY ReplayedIs
<1>3. ReplayKeeps(r, Len(commits), onto, commits, Untracked(a), f, v)
  BY <1>0, ReplayedKeeps
<1> HIDE DEF r
<1>4. IsHistory(r.done) /\ Len(commits) \in Nat /\ IsHistory(commits) /\ r.stop \in 0 .. Len(commits)
  BY <1>2 DEF ReplayState, Sound, IsHistory
<1>5. /\ r.stop = 0 => r.clash = {}
      /\ r.clash # {} => r.clash \subseteq DOMAIN commits[r.stop].change
  BY <1>2 DEF ReplayState
<1>6. InTree(r.done, f, v) => v \in Marks(t[f])
  <2>1. CASE f \in r.clash
    BY <2>1, ConflictHasMarks DEF InTree
  <2>2. CASE f \notin r.clash /\ r.clash # {} /\ f \in DOMAIN commits[r.stop].change
    BY <1>3, <2>2 DEF ReplayKeeps, Touched, Marked
  <2>3. CASE f \notin r.clash /\ ~(r.clash # {} /\ f \in DOMAIN commits[r.stop].change)
    BY <2>3 DEF InTree
  <2> QED
    BY <2>1, <2>2, <2>3
<1>7. v \notin Marks(t[f]) => Lacks(r.done, f, v)
  BY <1>3, <1>4, <1>6, StaysTree DEF ReplayKeeps
<1>8. v \in Marks(t[f]) => u[f] = t[f]
  BY NoMarksOfNobody
<1>9. \/ v \in Marks(u[f])
      \/ r.stop # 0 /\ InTree(rest, f, v) /\ InTree(tip[a], f, v)
  <2>1. CASE InTree(onto, f, v)
    BY <1>3, <1>6, <1>8, <2>1 DEF ReplayKeeps
  <2>2. CASE InTree(commits, f, v) /\ InTree(tip[a], f, v)
    <3>1. PICK i \in 1 .. Len(commits) : IsLast(commits, i, f) /\ Marked(commits, i, f, v)
      BY <1>4, <2>2, InTreeIsLast
    <3>2. CASE i \in 1 .. Reached(r, Len(commits))
      BY <1>3, <1>6, <1>8, <3>1, <3>2 DEF ReplayKeeps
    <3>3. CASE i \notin 1 .. Reached(r, Len(commits))
      <4>1. r.stop # 0 /\ i >= r.stop
        BY <1>4, <3>3 DEF Reached
      <4>2. CASE r.clash # {} /\ i = r.stop
        <5>1. f \in DOMAIN commits[r.stop].change /\ v \in Marks(commits[r.stop].change[f])
          BY <3>1, <4>2 DEF Marked, Touched
        <5>2. CASE f \in r.clash
          BY <1>8, <5>1, <5>2, ConflictHasMarks
        <5>3. CASE f \notin r.clash
          BY <1>8, <4>2, <5>1, <5>3
        <5> QED
          BY <5>2, <5>3
      <4>3. CASE ~(r.clash # {} /\ i = r.stop)
        <5>1. m \in 1 .. Len(commits) + 1 /\ i >= m
          BY <1>4, <4>1, <4>3
        <5> HIDE DEF m
        <5>2. InTree(rest, f, v)
          BY <1>4, <3>1, <5>1, RestTree
        <5> QED
          BY <2>2, <4>1, <5>2
      <4> QED
        BY <4>2, <4>3
    <3> QED
      BY <3>2, <3>3
  <2>3. CASE f \in Untracked(a) /\ v \in Marks(files[a][f]) /\ Tree(onto)[f] = None
    <3>1. done[f] = None
      BY <1>3, <2>3 DEF ReplayKeeps
    <3>2. f \notin r.clash
      BY <1>3, <1>5, <2>3 DEF ReplayKeeps, Touched
    <3>3. r.clash # {} /\ f \in DOMAIN commits[r.stop].change => commits[r.stop].change[f] = None
      BY <1>3, <2>3, <3>1 DEF ReplayKeeps, Touched
    <3>4. t[f] = None
      BY <3>1, <3>2, <3>3
    <3> QED
      BY <2>3, <3>4 DEF Untracked
  <2> QED
    BY <2>1, <2>2, <2>3
<1>10. index'[a][f] = t[f] /\ files'[a][f] = u[f]
  BY <1>0, <1>1
<1>11. r.stop # 0 => Ends(tip[a], rest) \/ Lacks(tip[a], f, v)
  <2>1. r.stop # 0 => m \in 1 .. Len(commits) + 1
    BY <1>4
  <2> HIDE DEF m
  <2> QED
    BY <1>0, <1>4, <2>1, RestEnds
<1>12. Stays(r.done, f, v)
  BY <1>3 DEF ReplayKeeps
<1> HIDE DEF t, u, rest, m, done
<1>13. CASE r.stop = 0
  <2>1. tip'[a] = r.done /\ at'[a].branch = a /\ ~rebasing'[a].active
    BY <1>0, <1>1, <1>13 DEF OnBranch, NoRebase
  <2>2. HeadOf(a)' = r.done
    BY <1>0, <2>1, HeadIs
  <2> QED
    BY <1>7, <1>8, <1>9, <1>10, <1>12, <1>13, <2>1, <2>2 DEF WorkThere, IndexFollows, HistoriesKeep
<1>14. CASE r.stop # 0
  <2>1. tip'[a] = tip[a] /\ at'[a].branch = NoBranch /\ at'[a].history = r.done
        /\ rebasing'[a].active /\ rebasing'[a].todo = rest
    BY <1>0, <1>1, <1>14 DEF Detached
  <2>2. HeadOf(a)' = r.done
    BY <1>0, <2>1, HeadIs
  <2> QED
    BY <1>7, <1>8, <1>9, <1>10, <1>11, <1>12, <1>14, <2>1, <2>2 DEF WorkThere, IndexFollows, HistoriesKeep
<1> QED
  BY <1>13, <1>14

-----------------------------------------------------------------------------
(* Steps that leave what is known of the work as it is.                    *)

(* Nothing of attempt a changes that bears on file f, but its handler may  *)
(* go on, short of having moved its base.                                  *)
StillAt(a, f) ==
  /\ tip'[a] = tip[a] /\ at'[a] = at[a] /\ rebasing'[a] = rebasing[a] /\ before'[a] = before[a]
  /\ files'[a][f] = files[a][f] /\ index'[a][f] = index[a][f]
  /\ handler'[a] = handler[a] \/ handler'[a].op # "moved"

LEMMA StillWork ==
  ASSUME GitInv, NEW a \in Attempt, NEW f, NEW v, WorkAt(a, f, v), StillAt(a, f)
  PROVE  WorkAt(a, f, v)'
<1>1. at[a].branch \in {a, NoBranch} /\ a # NoBranch
  BY GitAssumption DEF GitInv, Checkouts, NoBranch
<1>2. HeadOf(a)' = HeadOf(a)
  BY <1>1, HeadIs DEF StillAt
<1> QED
  BY <1>2 DEF StillAt, WorkAt, WorkThere, IndexFollows, HistoriesKeep, MergeTook

LEMMA StillPlace ==
  ASSUME NEW a, Place(a), tip'[a] = tip[a], at'[a] = at[a], rebasing'[a] = rebasing[a],
         handler'[a] = handler[a] \/ handler'[a].op # "memory" \/ handler'[a].theirs = tip[a]
  PROVE  Place(a)'
BY DEF Place

LEMMA BasesKept ==
  ASSUME NEW f, NEW v, NotInBases(f, v),
         \A b \in Target : tip'[b] = tip[b] \/ Lacks(tip'[b], f, v),
         origin'[Origin] = origin[Origin] \/ Lacks(origin'[Origin], f, v),
         \A x \in Attempt :
            \/ handler'[x] = handler[x]
            \/ /\ handler'[x].op = "memory" => Lacks(handler'[x].ours, f, v)
               /\ handler'[x].op = "moved" => Lacks(handler'[x].merged, f, v)
  PROVE  NotInBases(f, v)'
<1>1. \A b \in Target : Lacks(tip'[b], f, v)
  BY DEF NotInBases
<1>2. Lacks(origin'[Origin], f, v)
  BY DEF NotInBases
<1>3. \A x \in Attempt : /\ handler'[x].op = "memory" => Lacks(handler'[x].ours, f, v)
                         /\ handler'[x].op = "moved" => Lacks(handler'[x].merged, f, v)
  BY DEF NotInBases
<1> QED
  BY <1>1, <1>2, <1>3 DEF NotInBases

(* A mark that was never given is nowhere.                                 *)
LEMMA FreshLacks ==
  ASSUME NEW top \in Nat, NEW h, Sound(h, top), NEW a \in Attempt, NEW f
  PROVE  Lacks(h, f, <<a, top + 1>>)
<1> SUFFICES ASSUME NEW i \in 1 .. Len(h), Marked(h, i, f, <<a, top + 1>>) PROVE FALSE
  BY DEF Lacks
<1>1. IsContent(h[i].change[f], top) /\ <<a, top + 1>> \in Marks(h[i].change[f])
  BY DEF Sound, IsCommit, Settled, Marked, Touched
<1>2. top + 1 <= top
  BY <1>1 DEF IsContent
<1> QED
  BY <1>2

LEMMA FreshBases ==
  ASSUME NEW top \in Nat, GitInv, ConflictAt(top), NEW a \in Attempt, NEW f
  PROVE  NotInBases(f, <<a, top + 1>>)
<1>1. \A b \in Target : Sound(tip[b], top)
  BY DEF GitInv, Branches, ConflictAt, Refs, Target
<1>2. Sound(origin[Origin], top)
  BY DEF ConflictAt, Remotes
<1>3. \A x \in Attempt : HandlerHistories(handler[x], top)
  BY DEF ConflictAt, Handlers
<1> QED
  BY <1>1, <1>2, <1>3, FreshLacks DEF NotInBases, HandlerHistories

(* An attempt's mark is no one else's.                                     *)
LEMMA WorkIsMark ==
  ASSUME WorkOK, NEW a \in Attempt, NEW f \in File, work[a][f] # None
  PROVE  work[a][f] \notin {None, User, Remote}
<1>1. PICK k \in Nat : work[a][f] = <<a, k>>
  BY DEF WorkOK
<1> QED
  BY <1>1, GitAssumption DEF User, Remote

-----------------------------------------------------------------------------
(* Commits, and the moves of HEAD.                                         *)
LEMMA MoveHeadIs ==
  ASSUME GitInv, NEW a \in Attempt, NEW h, MoveHead(a, h)
  PROVE  /\ HeadOf(a)' = h /\ at'[a].branch = at[a].branch
         /\ at[a].branch = NoBranch => tip' = tip
         /\ at[a].branch # NoBranch => tip'[a] = h
         /\ \A x \in Checkout : x # a => at'[x] = at[x]
         /\ \A x \in DOMAIN tip : x # a => tip'[x] = tip[x]
<1>1. at[a].branch \in {a, NoBranch} /\ a # NoBranch /\ a \in DOMAIN tip /\ a \in DOMAIN at
  BY GitAssumption DEF GitInv, Checkouts, Branches, Checkout, NoBranch
<1>2. DOMAIN at = Checkout
  BY DEF GitInv, Checkouts
<1>3. CASE at[a].branch = NoBranch
  <2>1. at' = [at EXCEPT ![a] = Detached(h)] /\ tip' = tip
    BY <1>3 DEF MoveHead
  <2> QED
    BY <1>1, <1>2, <1>3, <2>1, HeadIs DEF Detached
<1>4. CASE at[a].branch = a
  <2>1. tip' = [tip EXCEPT ![a] = h] /\ at' = at
    BY <1>1, <1>4 DEF MoveHead
  <2> QED
    BY <1>1, <1>2, <1>4, <2>1, HeadIs
<1> QED
  BY <1>1, <1>3, <1>4

(* A commit of the difference to the contents T.                           *)
LEMMA CommitKeeps ==
  ASSUME NEW h, IsHistory(h), NEW T, NEW kind, NEW f \in File, NEW v, Stays(h, f, v),
         v \notin Marks(T[f]) => Lacks(h, f, v)
  PROVE  LET k == Append(h, Commit(Delta(T, Tree(h)), kind)) IN
         /\ Stays(k, f, v) /\ Tree(k)[f] = T[f]
         /\ v \notin Marks(T[f]) => Lacks(k, f, v)
<1> DEFINE d == Delta(T, Tree(h))
           c == Commit(d, kind)
<1>1. c.change = d
  BY DEF Commit
<1>2. f \in DOMAIN d <=> T[f] # Tree(h)[f]
  BY DEF Delta
<1>3. f \in DOMAIN d => d[f] = T[f]
  BY DEF Delta
<1> HIDE DEF c, d
<1>4. Stays(Append(h, c), f, v)
  BY <1>1, <1>3, AppendStays
<1>5. Tree(Append(h, c))[f] = T[f]
  BY <1>1, <1>2, <1>3, AppendTree
<1>6. v \notin Marks(T[f]) => Lacks(Append(h, c), f, v)
  BY <1>1, <1>3, AppendLacks DEF Marks1
<1> QED
  BY <1>4, <1>5, <1>6 DEF c, d

LEMMA CommitWork ==
  ASSUME NEW top, GitInv, ConflictAt(top), NEW a \in Attempt, NEW f \in File, NEW v, Place(a), WorkAt(a, f, v),
         NEW T, NEW kind,
         \/ MoveHead(a, Append(HeadOf(a), Commit(Delta(T, Tree(HeadOf(a))), kind)))
         \/ UNCHANGED <<tip, at>>,
         index'[a][f] = T[f], v \in Marks(T[f]) => v \in Marks(files'[a][f]),
         v \in Marks(files[a][f]) => v \in Marks(files'[a][f]),
         v \notin Marks(T[f]) => Lacks(HeadOf(a), f, v),
         UNCHANGED <<rebasing, before, handler>>
  PROVE  WorkAt(a, f, v)'
<1> DEFINE h == HeadOf(a)
           k == Append(h, Commit(Delta(T, Tree(h)), kind))
<1>0. at[a].branch \in {a, NoBranch} /\ a # NoBranch /\ a \in Checkout
  BY GitAssumption DEF GitInv, Checkouts, NoBranch, Checkout
<1>1. IsHistory(h) /\ Stays(h, f, v)
  BY <1>0, HeadIsSound DEF Sound, WorkAt, HistoriesKeep
<1>2. Stays(k, f, v) /\ (v \notin Marks(T[f]) => Lacks(k, f, v))
  <2> HIDE DEF h
  <2> QED
    BY <1>1, CommitKeeps DEF h
<1> HIDE DEF k
<1>3. CASE MoveHead(a, k)
  <2>1. /\ HeadOf(a)' = k
        /\ at[a].branch = NoBranch => tip' = tip
        /\ at[a].branch # NoBranch => tip'[a] = k
    BY <1>3, MoveHeadIs
  <2>2. rebasing[a].active => tip' = tip
    BY <2>1 DEF Place
  <2>3. Stays(tip'[a], f, v)
    BY <1>2, <2>1 DEF WorkAt, HistoriesKeep
  <2> QED
    BY <1>2, <2>1, <2>2, <2>3 DEF WorkAt, WorkThere, IndexFollows, HistoriesKeep, MergeTook
<1>4. CASE UNCHANGED <<tip, at>>
  <2>1. HeadOf(a)' = h /\ tip'[a] = tip[a]
    BY <1>0, <1>4, HeadIs
  <2> QED
    BY <1>1, <2>1 DEF WorkAt, WorkThere, IndexFollows, HistoriesKeep, MergeTook
<1> QED
  BY <1>3, <1>4 DEF k, h

-----------------------------------------------------------------------------
(* The steps of an attempt, and the work that it has before and after.     *)
LEMMA Shapes ==
  ASSUME NEW top, GitInv, ConflictAt(top), NEW a \in Attempt
  PROVE  /\ a \in Checkout /\ a # Main /\ a # NoBranch /\ a \notin Target /\ a \in DOMAIN tip /\ Target \subseteq DOMAIN tip
         /\ DOMAIN at = Checkout /\ DOMAIN index = Checkout /\ DOMAIN files = Checkout
         /\ DOMAIN index[a] = File /\ DOMAIN files[a] = File
         /\ DOMAIN rebasing = Attempt /\ DOMAIN handler = Attempt /\ DOMAIN before = Attempt /\ DOMAIN origin = Attempt \cup {Origin}
         /\ at[a].branch \in {a, NoBranch} /\ IsHistory(tip[a]) /\ IsHistory(before[a]) /\ IsHistory(HeadOf(a))
<1>0. a \in Checkout
  BY DEF Checkout
<1>1. IsHistory(HeadOf(a))
  BY <1>0, HeadIsSound DEF Sound
<1>2. a # Main /\ a # NoBranch /\ a \notin Target
  BY GitAssumption DEF NoBranch, Target
<1>3. a \in DOMAIN tip /\ Target \subseteq DOMAIN tip /\ IsHistory(tip[a]) /\ IsHistory(before[a])
  BY DEF GitInv, Branches, Target, ConflictAt, Refs, Starts, Sound
<1> QED
  BY <1>0, <1>1, <1>2, <1>3 DEF GitInv, Checkouts, Rows, ConflictAt, Contents, Holds, Todos, Starts, Remotes

LEMMA DeleteWork ==
  ASSUME NEW top, GitInv, ConflictAt(top), NEW a \in Attempt, NEW f \in File, NEW g \in File, f # g,
         NEW v, Place(a), WorkAt(a, f, v), delete_file_and_commit(a, g)
  PROVE  WorkAt(a, f, v)'
<1>1. files' = [files EXCEPT ![a][g] = None] /\ index' = [index EXCEPT ![a][g] = None]
  BY DEF delete_file_and_commit
<1>2. files'[a][f] = files[a][f] /\ index'[a][f] = index[a][f]
  BY <1>1, Shapes
<1> DEFINE T == index'[a]
<1>3. \/ MoveHead(a, Append(HeadOf(a), Commit(Delta(T, Tree(HeadOf(a))), "work")))
      \/ UNCHANGED <<tip, at>>
  BY DEF delete_file_and_commit
<1>4. UNCHANGED <<rebasing, before, handler>>
  BY DEF delete_file_and_commit
<1>5. /\ v \in Marks(T[f]) => v \in Marks(files'[a][f])
      /\ v \notin Marks(T[f]) => Lacks(HeadOf(a), f, v)
  BY <1>2 DEF WorkAt, IndexFollows
<1>6. T[f] = index'[a][f]
  OBVIOUS
<1> HIDE DEF T
<1> QED
  BY <1>2, <1>3, <1>4, <1>5, <1>6, CommitWork

LEMMA CommitActWork ==
  ASSUME NEW top, GitInv, ConflictAt(top), NEW a \in Attempt, NEW f \in File,
         NEW v, Place(a), WorkAt(a, f, v), commit(a)
  PROVE  WorkAt(a, f, v)'
<1> DEFINE T == Added(a)
<1>0. \A g \in File : IsContent(files[a][g], top)
  BY Shapes DEF ConflictAt, Contents, Holds
<1>1. Marks(T[f]) = Marks(files[a][f])
  BY <1>0, AddedIsSettled
<1>2. files' = [files EXCEPT ![a] = T] /\ index' = [index EXCEPT ![a] = T] /\ UNCHANGED <<rebasing, before, handler>>
  BY DEF commit
<1>3. \/ MoveHead(a, Append(HeadOf(a), Commit(Delta(T, Tree(HeadOf(a))), "work")))
      \/ UNCHANGED <<tip, at>>
  BY DEF commit
<1> HIDE DEF T
<1>4. files'[a][f] = T[f] /\ index'[a][f] = T[f]
  BY <1>2, Shapes
<1>5. v \notin Marks(T[f]) => Lacks(HeadOf(a), f, v)
  BY <1>1 DEF WorkAt, IndexFollows
<1> QED
  BY <1>1, <1>2, <1>3, <1>4, <1>5, CommitWork

LEMMA BeforeWork ==
  ASSUME NEW top, GitInv, ConflictAt(top), NEW a \in Attempt, NEW f \in File,
         NEW v, WorkAt(a, f, v), RecordBefore(a)
  PROVE  WorkAt(a, f, v)'
<1>1. before'[a] = HeadOf(a) /\ UNCHANGED <<tip, at, index, files, rebasing, handler>>
  BY Shapes DEF RecordBefore
<1>2. HeadOf(a)' = HeadOf(a)
  BY <1>1, Shapes, HeadIs
<1> QED
  BY <1>1, <1>2 DEF WorkAt, WorkThere, IndexFollows, HistoriesKeep, MergeTook

(* A mark just given, on disk.                                             *)
LEMMA FreshWork ==
  ASSUME NEW top \in Nat, GitInv, ConflictAt(top), NEW a \in Attempt, NEW f \in File,
         files'[a][f] = <<a, top + 1>>, UNCHANGED <<tip, at, rebasing, before, handler>>
  PROVE  WorkAt(a, f, <<a, top + 1>>)'
<1> DEFINE v == <<a, top + 1>>
<1>0. Sound(tip[a], top) /\ Sound(HeadOf(a), top) /\ Sound(before[a], top)
  BY Shapes, HeadIsSound DEF ConflictAt, Refs, Starts
<1>1. Lacks(tip[a], f, v) /\ Lacks(HeadOf(a), f, v) /\ Lacks(before[a], f, v)
  BY <1>0, FreshLacks
<1>2. Stays(tip[a], f, v) /\ Stays(HeadOf(a), f, v) /\ Stays(before[a], f, v)
  BY <1>1, LacksStays
<1>3. v # None
  BY GitAssumption DEF None
<1>4. ~InTree(tip[a], f, v)
  BY <1>0, <1>1, <1>3, LacksTree DEF Sound
<1>5. v \in Marks(v)
  BY GitAssumption, PlainMarks
<1>6. HeadOf(a)' = HeadOf(a)
  BY Shapes, HeadIs
<1> HIDE DEF v
<1> QED
  BY <1>1, <1>2, <1>4, <1>5, <1>6 DEF WorkAt, WorkThere, IndexFollows, HistoriesKeep, MergeTook, v

LEMMA EditWork ==
  ASSUME GitInv, ConflictInv, NEW a \in Attempt, NEW f \in File, NEW g \in File, NEW v,
         work[a][f] # None => WorkAt(a, f, work[a][f]), DOMAIN work = Attempt, DOMAIN work[a] = File,
         AgentEdits(a, g), work'[a][f] = v, v # None
  PROVE  WorkAt(a, f, v)'
<1> DEFINE top == edits.agent
<1>0. top \in Nat /\ ConflictAt(top)
  BY DEF ConflictInv, Counters
<1>1. /\ files' = [files EXCEPT ![a][g] = <<a, top + 1>>] /\ work' = [work EXCEPT ![a][g] = <<a, top + 1>>]
      /\ UNCHANGED <<tip, at, index, rebasing, before, handler>>
  BY DEF AgentEdits
<1> HIDE DEF top
<1>2. CASE f = g
  BY <1>0, <1>1, <1>2, Shapes, FreshWork
<1>3. CASE f # g
  <2>1. files'[a][f] = files[a][f] /\ work[a][f] = v
    BY <1>0, <1>1, <1>3, Shapes
  <2> QED
    BY <1>1, <2>1, StillWork DEF StillAt
<1> QED
  BY <1>2, <1>3

LEMMA ResolveWork ==
  ASSUME GitInv, ConflictInv, NEW a \in Attempt, NEW f \in File, NEW v,
         work[a][f] # None => WorkAt(a, f, work[a][f]), DOMAIN work = Attempt, DOMAIN work[a] = File,
         AgentResolves(a), work'[a][f] = v, v # None
  PROVE  WorkAt(a, f, v)'
<1> DEFINE top == edits.agent
           conflicts == {g \in File : InConflict(files[a][g])}
           fix(t) == [g \in File |-> IF g \in conflicts THEN <<a, top + 1>> ELSE t[g]]
<1>0. top \in Nat /\ ConflictAt(top)
  BY DEF ConflictInv, Counters
<1>1. /\ files' = [files EXCEPT ![a] = fix(files[a])] /\ work' = [work EXCEPT ![a] = fix(work[a])]
      /\ index' = [index EXCEPT ![a] = fix(index[a])]
      /\ UNCHANGED <<tip, at, rebasing, before, handler>>
  BY DEF AgentResolves
<1> HIDE DEF top, conflicts
<1>2. CASE f \in conflicts
  BY <1>0, <1>1, <1>2, Shapes, FreshWork
<1>3. CASE f \notin conflicts
  <2>1. files'[a][f] = files[a][f] /\ index'[a][f] = index[a][f] /\ work[a][f] = v
    BY <1>0, <1>1, <1>3, Shapes
  <2> QED
    BY <1>1, <2>1, StillWork DEF StillAt
<1> QED
  BY <1>2, <1>3

(* A rebase that goes on: its HEAD, with the resolution committed, has the *)
(* work that is on disk, and the branch what is left to replay.            *)
LEMMA ContinueWork ==
  ASSUME NEW top, GitInv, ConflictAt(top), NEW a \in Attempt, NEW f \in File, NEW v, v # None,
         Place(a), WorkAt(a, f, v), AgentContinues(a)
  PROVE  WorkAt(a, f, v)' /\ Place(a)'
<1> DEFINE h == HeadOf(a)
           T == index[a]
           d == Delta(T, Tree(h))
           done == IF DOMAIN d = {} THEN h ELSE Append(h, Commit(d, "work"))
           todo == rebasing[a].todo
<1>1. /\ rebasing[a].active /\ \A g \in File : files[a][g] = index[a][g]
      /\ RunRebase(a, done, tip[a], todo) /\ UNCHANGED <<before, handler>>
  BY DEF AgentContinues
<1>2. Sound(h, top) /\ IsHistory(h) /\ Stays(h, f, v)
  BY Shapes, HeadIsSound DEF Sound, WorkAt, HistoriesKeep
<1>3. v \notin Marks(T[f]) => Lacks(h, f, v)
  BY DEF WorkAt, IndexFollows
<1>4. Stays(done, f, v) /\ Tree(done)[f] = T[f]
  <2>1. CASE DOMAIN d = {}
    <3>1. T[f] = Tree(h)[f]
      BY <2>1 DEF Delta
    <3> QED
      BY <1>2, <2>1, <3>1
  <2>2. CASE DOMAIN d # {}
    <3> HIDE DEF h, T
    <3> QED
      BY <1>2, <1>3, <2>2, CommitKeeps
  <2> QED
    BY <2>1, <2>2
<1>5. Sound(done, top)
  <2>1. \A g \in File : IsContent(T[g], top) /\ ~InConflict(T[g])
    BY <1>1, Shapes DEF AgentContinues, ConflictAt, Contents, Holds
  <2>2. IsCommit(Commit(d, "work"), top)
    BY <2>1, DeltaIsCommit DEF Settled
  <2> HIDE DEF d, h
  <2> QED
    BY <1>2, <2>2, AppendIsSound
<1>6. Sound(todo, top)
  BY DEF ConflictAt, Todos
<1>7. /\ Stays(tip[a], f, v) /\ Stays(before[a], f, v)
      /\ Ends(tip[a], todo) \/ Lacks(tip[a], f, v)
  BY <1>1 DEF WorkAt, HistoriesKeep
<1>8. InTree(done, f, v) \/ (InTree(todo, f, v) /\ InTree(tip[a], f, v))
  BY <1>1, <1>4 DEF WorkAt, WorkThere, InTree
<1> HIDE DEF done, todo
<1>9. WorkThere(a, f, v)' /\ IndexFollows(a, f, v)' /\ HistoriesKeep(a, f, v)'
  BY <1>1, <1>4, <1>5, <1>6, <1>7, <1>8, RebaseWork
<1>10. /\ rebasing'[a].active <=> at'[a].branch = NoBranch
       /\ rebasing'[a].active => tip' = tip
  <2>1. a \in DOMAIN at /\ a \in DOMAIN rebasing /\ a # NoBranch
    BY Shapes
  <2> QED
    BY <1>1, <2>1, RebasePlace
<1> QED
  BY <1>1, <1>9, <1>10 DEF WorkAt, MergeTook, Place

(* A rebase that starts, in a clean worktree: the work is tracked and in   *)
(* what the branch has since the old base, or in an untracked file, which  *)
(* nothing overwrites.                                                     *)
LEMMA RebaseBranchWork ==
  ASSUME NEW top, GitInv, ConflictAt(top), NEW a \in Attempt, NEW f \in File, NEW v, v # None,
         Place(a), NotInBases(f, v), WorkAt(a, f, v), rebase_branch(a)
  PROVE  WorkAt(a, f, v)' /\ Place(a)'
<1> DEFINE onto == tip[handler[a].new]
           mine == After(tip[a], tip[handler[a].old])
<1>0. handler[a].op = "rebase" /\ handler[a].new \in Target /\ handler[a].old \in Target
  BY DEF rebase_branch, GitInv, Rows, HandlerOK
<1>1. CASE UNCHANGED <<at, index, files, rebasing>> /\ tip'[a] = tip[a]
           /\ (handler'[a] = handler[a] \/ handler'[a] = Idle)
  <2>1. before' = before /\ (handler'[a] = handler[a] \/ handler'[a].op \notin {"moved", "memory"})
    BY <1>1 DEF rebase_branch, Idle
  <2> QED
    BY <1>1, <2>1, StillWork, StillPlace DEF StillAt
<1>2. CASE /\ check_worktree_clean(a) /\ ~rebasing[a].active
           /\ ~(\E g \in Untracked(a) : {Tree(onto)[g], Tree(tip[a])[g]} # {None})
           /\ RunRebase(a, onto, tip[a], mine) /\ handler'[a] = Idle
  <2>1. Sound(onto, top) /\ Sound(tip[handler[a].old], top) /\ Sound(tip[a], top)
    BY <1>0, Shapes DEF ConflictAt, Refs
  <2>2. Sound(mine, top)
    BY <2>1, AfterIsSound
  <2>3. Lacks(onto, f, v) /\ Lacks(tip[handler[a].old], f, v)
    BY <1>0 DEF NotInBases
  <2>4. /\ Ends(tip[a], mine)
        /\ InTree(tip[a], f, v) => InTree(mine, f, v)
    BY <2>1, <2>3, AfterHasWork DEF Sound
  <2>5. Stays(onto, f, v) /\ Stays(tip[a], f, v) /\ Stays(before[a], f, v)
    BY <2>3, LacksStays DEF WorkAt, HistoriesKeep
  <2>6. v \in Marks(files[a][f])
    BY <1>2 DEF WorkAt, WorkThere
  <2>7. HeadOf(a) = tip[a]
    BY <1>2, Shapes, HeadIs DEF Place
  <2>8. \/ InTree(mine, f, v) /\ InTree(tip[a], f, v)
        \/ f \in Untracked(a) /\ v \in Marks(files[a][f]) /\ Tree(onto)[f] = None
    <3>1. CASE index[a][f] # None
      <4>1. files[a][f] = Tree(tip[a])[f]
        BY <1>2, <2>7, <3>1 DEF check_worktree_clean, has_staged_changes
      <4> QED
        BY <2>4, <2>6, <4>1 DEF InTree
    <3>2. CASE index[a][f] = None
      <4>1. f \in Untracked(a)
        BY <2>6, <3>2, NoMarksOfNobody DEF Untracked
      <4> QED
        BY <1>2, <2>6, <4>1
    <3> QED
      BY <3>1, <3>2
  <2>9. before' = before
    BY DEF rebase_branch
  <2> HIDE DEF onto, mine
  <2>10. WorkThere(a, f, v)' /\ IndexFollows(a, f, v)' /\ HistoriesKeep(a, f, v)'
    BY <1>2, <2>1, <2>2, <2>4, <2>5, <2>8, <2>9, RebaseWork
  <2>11. rebasing'[a].active <=> at'[a].branch = NoBranch
    <3>1. a \in DOMAIN at /\ a \in DOMAIN rebasing /\ a # NoBranch
      BY Shapes
    <3> QED
      BY <1>2, <3>1, RebasePlace
  <2> QED
    BY <1>2, <2>10, <2>11 DEF WorkAt, MergeTook, Place, Idle
<1> QED
  <2>1. Origin # a
    BY Shapes DEF Target
  <2>2. \/ tip' = [tip EXCEPT ![Origin] = origin[Origin]] /\ UNCHANGED <<at, index, files, rebasing, handler>>
        \/ /\ check_worktree_clean(a) /\ ~rebasing[a].active
           /\ ~(\E g \in Untracked(a) : {Tree(onto)[g], Tree(tip[a])[g]} # {None})
           /\ RunRebase(a, onto, tip[a], mine) /\ handler' = [handler EXCEPT ![a] = Idle]
        \/ handler' = [handler EXCEPT ![a] = Idle] /\ UNCHANGED <<tip, at, index, files, rebasing>>
    BY DEF rebase_branch
  <2> HIDE DEF onto, mine
  <2>3. handler' = [handler EXCEPT ![a] = Idle] => handler'[a] = Idle
    BY Shapes
  <2>4. tip' = [tip EXCEPT ![Origin] = origin[Origin]] => tip'[a] = tip[a]
    BY <2>1
  <2> QED
    BY <1>1, <1>2, <2>2, <2>3, <2>4 DEF onto, mine

(* An abort goes back to the branch, which has what git takes off the disk. *)
LEMMA AbortWork ==
  ASSUME NEW top, GitInv, ConflictAt(top), NEW a \in Attempt, NEW f \in File, NEW v, v # None,
         WorkAt(a, f, v), DOMAIN work = Attempt, DOMAIN work[a] = File,
         abort_conflicts(a), a \notin adrift', work[a][f] = v, work'[a][f] = v
  PROVE  WorkAt(a, f, v)'
<1> DEFINE t == Tree(tip[a])
<1>1. /\ rebasing' = [rebasing EXCEPT ![a] = NoRebase]
      /\ \A g \in Untracked(a) : t[g] = None
      /\ at' = [at EXCEPT ![a] = OnBranch(a)]
      /\ index' = [index EXCEPT ![a] = t]
      /\ files' = [files EXCEPT ![a] = [g \in File |-> IF g \in Untracked(a) THEN files[a][g] ELSE t[g]]]
      /\ work' = [work EXCEPT ![a] = [g \in File |->
           IF index[a][g] = None \/ work[a][g] \in Marks(t[g]) THEN work[a][g] ELSE None]]
      /\ UNCHANGED <<tip, before, handler>>
  BY DEF abort_conflicts
<1>2. index[a][f] = None \/ v \in Marks(t[f])
  BY <1>1
<1> HIDE DEF t
<1>3. /\ index'[a][f] = t[f] /\ files'[a][f] = IF f \in Untracked(a) THEN files[a][f] ELSE t[f]
      /\ tip'[a] = tip[a] /\ HeadOf(a)' = tip[a] /\ ~rebasing'[a].active
  BY <1>1, Shapes, HeadIs DEF OnBranch, NoRebase
<1>4. v \in Marks(files'[a][f])
  <2>1. CASE f \in Untracked(a)
    <3>1. ~InTree(tip[a], f, v)
      BY <1>1, <2>1, NoMarksOfNobody DEF InTree, t
    <3> QED
      BY <1>3, <2>1, <3>1 DEF WorkAt, WorkThere
  <2>2. CASE f \notin Untracked(a)
    <3>1. CASE v \in Marks(t[f])
      BY <1>3, <2>2, <3>1
    <3>2. CASE index[a][f] = None
      <4>1. v \notin Marks(files[a][f])
        BY <2>2, <3>2, NoMarksOfNobody DEF Untracked
      <4> QED
        BY <1>3, <2>2, <4>1 DEF WorkAt, WorkThere, InTree, t
    <3> QED
      BY <1>2, <3>1, <3>2
  <2> QED
    BY <2>1, <2>2
<1>5. v \notin Marks(t[f]) => Lacks(tip[a], f, v)
  BY Shapes, StaysTree DEF WorkAt, HistoriesKeep, InTree, t
<1> QED
  BY <1>1, <1>3, <1>4, <1>5 DEF WorkAt, WorkThere, IndexFollows, HistoriesKeep, MergeTook

(* A reset leaves the files that git does not know, before and after.  Of  *)
(* the others the user gave up the work.                                   *)
LEMMA ResetWork ==
  ASSUME NEW top, GitInv, ConflictAt(top), NEW a \in Attempt, NEW f \in File, NEW v, v # None,
         Place(a), WorkAt(a, f, v), DOMAIN work = Attempt, NEW force \in BOOLEAN,
         reset_worktree_to_commit(a, force), work[a][f] = v, work'[a][f] = v
  PROVE  WorkAt(a, f, v)'
<1> DEFINE t == Tree(before[a])
           untracked(g) == index[a][g] = None /\ t[g] = None
<1>1. /\ check_worktree_clean(a) \/ force
      /\ MoveHead(a, before[a])
      /\ index' = [index EXCEPT ![a] = t]
      /\ files' = [files EXCEPT ![a] = [g \in File |-> IF untracked(g) THEN files[a][g] ELSE t[g]]]
      /\ work' = [work EXCEPT ![a] = [g \in File |->
          IF \/ untracked(g)
             \/ /\ ~force /\ index[a][g] # None
                /\ files[a][g] # Tree(HeadOf(a))[g] /\ ~InConflict(files[a][g])
          THEN work[a][g] ELSE None]]
      /\ UNCHANGED <<rebasing, before, handler>>
  BY DEF reset_worktree_to_commit, MayReset
<1>2. \/ untracked(f)
      \/ ~force /\ index[a][f] # None /\ files[a][f] # Tree(HeadOf(a))[f]
  BY <1>1
<1>3. untracked(f)
  <2>1. CASE ~force /\ index[a][f] # None
    <3>1. files[a][f] = Tree(HeadOf(a))[f]
      BY <1>1, <2>1 DEF check_worktree_clean, has_staged_changes
    <3> QED
      BY <1>2, <2>1, <3>1
  <2> QED
    BY <1>2, <2>1
<1>4. index'[a][f] = None /\ files'[a][f] = files[a][f]
  BY <1>1, <1>3, Shapes
<1>5. Lacks(before[a], f, v)
  <2>1. ~InTree(before[a], f, v)
    BY <1>3, NoMarksOfNobody DEF InTree
  <2> QED
    BY <2>1, Shapes, StaysTree DEF WorkAt, HistoriesKeep
<1>6. /\ HeadOf(a)' = before[a]
      /\ at[a].branch = NoBranch => tip' = tip
      /\ at[a].branch # NoBranch => tip'[a] = before[a]
  BY <1>1, MoveHeadIs
<1>7. v \notin Marks(index'[a][f])
  BY <1>4, NoMarksOfNobody
<1>8. rebasing[a].active => tip'[a] = tip[a]
  BY <1>6 DEF Place
<1>9. Stays(tip'[a], f, v) /\ Stays(before[a], f, v)
  BY <1>5, <1>6, LacksStays DEF WorkAt, HistoriesKeep
<1> QED
  BY <1>1, <1>4, <1>5, <1>6, <1>7, <1>8, <1>9 DEF WorkAt, WorkThere, IndexFollows, HistoriesKeep, MergeTook

(* The task branch is moved to the squash commit, which has none of the    *)
(* work that is left: that is on disk.                                     *)
LEMMA MovesWork ==
  ASSUME NEW top, GitInv, ConflictAt(top), NEW a \in Attempt, NEW f \in File, NEW v, v # None,
         Place(a), NotInBases(f, v), WorkAt(a, f, v), MergeMovesTaskBranch(a)
  PROVE  WorkAt(a, f, v)' /\ Place(a)'
<1> DEFINE h == handler[a].merged
<1>1. /\ handler[a].op = "moved" /\ tip' = [tip EXCEPT ![a] = h] /\ handler' = [handler EXCEPT ![a] = Idle]
      /\ UNCHANGED <<at, index, files, rebasing, before>>
  BY DEF MergeMovesTaskBranch
<1>2. Lacks(h, f, v) /\ Stays(h, f, v)
  BY <1>1, LacksStays DEF NotInBases
<1> HIDE DEF h
<1>3. tip'[a] = h /\ handler'[a] = Idle
  BY <1>1, Shapes
<1>4. v \in Marks(files[a][f])
  BY <1>1 DEF WorkAt, WorkThere, MergeTook
<1>5. HeadOf(a)' = IF at[a].branch = NoBranch THEN HeadOf(a) ELSE h
  BY <1>1, <1>3, Shapes, HeadIs
<1>6. Stays(HeadOf(a)', f, v) /\ (v \notin Marks(index[a][f]) => Lacks(HeadOf(a)', f, v))
  BY <1>2, <1>5 DEF WorkAt, IndexFollows, HistoriesKeep
<1>7. WorkAt(a, f, v)'
  BY <1>1, <1>2, <1>3, <1>4, <1>6 DEF WorkAt, WorkThere, IndexFollows, HistoriesKeep, MergeTook, Idle
<1> QED
  BY <1>1, <1>3, <1>7 DEF Place, Idle

-----------------------------------------------------------------------------
(* Merges.  The squash of a branch has all its work that the base lacks.   *)
LEMMA SquashHasWork ==
  ASSUME NEW ours, NEW theirs, IsHistory(ours), IsHistory(theirs), NEW f \in File, NEW v, v # None,
         Lacks(ours, f, v), InTree(theirs, f, v)
  PROVE  LET d == Squash(ours, theirs) IN
         f \in DOMAIN d /\ v \in Marks(d[f]) /\ d[f] # Tree(ours)[f]
<1>1. ~InTree(ours, f, v) /\ ~InTree(Shared(ours, theirs), f, v)
  BY LacksTree, SharedLacks
<1>2. Tree(theirs)[f] # Tree(ours)[f] /\ Tree(theirs)[f] # Tree(Shared(ours, theirs))[f]
  BY <1>1 DEF InTree
<1> QED
  BY <1>2 DEF Squash, InTree

(* What a target branch takes in is no longer work to keep.                *)
LEMMA TakenLacks ==
  ASSUME NEW a \in Attempt, NEW f \in File, NEW v, v # None, NEW change, NEW kind,
         work' = TakenIn(change), work[a][f] = v, work'[a][f] = v
  PROVE  /\ ~(f \in DOMAIN change /\ v \in Marks(change[f]))
         /\ \A h : IsHistory(h) /\ Lacks(h, f, v) => Lacks(Append(h, Commit(change, kind)), f, v)
<1>1. ~(f \in DOMAIN change /\ v \in Marks(change[f]))
  BY DEF TakenIn
<1>2. Commit(change, kind).change = change
  BY DEF Commit
<1>3. ~Marks1(Commit(change, kind), f, v)
  BY <1>1, <1>2 DEF Marks1
<1> QED
  BY <1>1, <1>3, AppendLacks

(* A merge in the project's directory commits the change.                  *)
SquashMoves(x, change) ==
  /\ tip'[Main] = Append(tip[Main], Commit(change, "squash"))
  /\ \A b \in Target : b # Main => tip'[b] = tip[b]
  /\ handler'[x].op = "moved" /\ handler'[x].merged = tip'[Main]
  /\ work' = TakenIn(change)
  /\ \A f \in File : LET d == Squash(tip[Main], tip[x]) IN
       f \in DOMAIN d /\ d[f] # Tree(tip[Main])[f] => f \in DOMAIN change /\ change[f] = d[f]

LEMMA SquashIs ==
  ASSUME NEW top, GitInv, ConflictAt(top), NEW x \in Attempt, merge_squash_commit(x)
  PROVE  /\ \A a \in Attempt : /\ tip'[a] = tip[a] /\ files'[a] = files[a] /\ index'[a] = index[a]
                               /\ a # x => handler'[a] = handler[a]
         /\ \/ handler'[x] = Idle /\ UNCHANGED <<tip, work>>
            \/ \E change : SquashMoves(x, change)
         /\ UNCHANGED <<origin, at, rebasing, before, adrift>>
<1> DEFINE d == Squash(tip[Main], tip[x])
           new == [f \in File |-> IF f \in DOMAIN d THEN d[f] ELSE index[Main][f]]
           change == Delta(new, Tree(tip[Main]))
           h == Append(tip[Main], Commit(change, "squash"))
<1>0. handler[x].base = Main /\ handler[x].place = Main /\ Main \in Target /\ Main \in DOMAIN tip
  BY GitAssumption DEF merge_squash_commit, GitInv, Rows, HandlerOK, Target, Branches
<1>1. UNCHANGED <<origin, at, rebasing, before, adrift>>
  BY DEF merge_squash_commit
<1>2. \/ handler' = [handler EXCEPT ![x] = Idle] /\ UNCHANGED <<tip, index, files, work>>
      \/ /\ handler' = [handler EXCEPT ![x] = Idle] /\ UNCHANGED <<tip, work>>
         /\ \E s : files' = [files EXCEPT ![Main] = s]
         /\ \E s : index' = [index EXCEPT ![Main] = s]
      \/ /\ tip' = [tip EXCEPT ![Main] = h] /\ work' = TakenIn(change)
         /\ handler' = [handler EXCEPT ![x] = [op |-> "moved", base |-> Main, merged |-> h, theirs |-> tip[x]]]
         /\ \E s : files' = [files EXCEPT ![Main] = s]
         /\ \E s : index' = [index EXCEPT ![Main] = s]
  BY <1>0 DEF merge_squash_commit
<1>3. \A f \in File : f \in DOMAIN d /\ d[f] # Tree(tip[Main])[f] => f \in DOMAIN change /\ change[f] = d[f]
  <2> HIDE DEF d
  <2> QED
    BY DEF Delta
<1>4. /\ \A a \in Attempt : a # Main /\ a \in DOMAIN files /\ a \in DOMAIN index /\ a \in DOMAIN tip
      /\ DOMAIN handler = Attempt /\ Target \subseteq DOMAIN tip
  BY Shapes
<1> HIDE DEF h, change, d
<1>5. \A a \in Attempt : files'[a] = files[a] /\ index'[a] = index[a]
  BY <1>2, <1>4
<1>6. \A a \in Attempt : tip'[a] = tip[a] /\ (a # x => handler'[a] = handler[a])
  <2> SUFFICES ASSUME NEW a \in Attempt PROVE tip'[a] = tip[a] /\ (a # x => handler'[a] = handler[a])
    OBVIOUS
  <2>1. tip' = tip \/ tip' = [tip EXCEPT ![Main] = h]
    BY <1>2
  <2>2. \E s : handler' = [handler EXCEPT ![x] = s]
    BY <1>2
  <2> QED
    BY <1>4, <2>1, <2>2
<1>7. CASE handler' = [handler EXCEPT ![x] = Idle] /\ UNCHANGED <<tip, work>>
  BY <1>1, <1>4, <1>5, <1>6, <1>7
<1>8. CASE /\ tip' = [tip EXCEPT ![Main] = h] /\ work' = TakenIn(change)
           /\ handler' = [handler EXCEPT ![x] = [op |-> "moved", base |-> Main, merged |-> h, theirs |-> tip[x]]]
  <2>1. tip'[Main] = h /\ \A b \in Target : b # Main => tip'[b] = tip[b]
    BY <1>0, <1>4, <1>8
  <2>2. handler'[x].op = "moved" /\ handler'[x].merged = h
    BY <1>4, <1>8
  <2> QED
    <3>1. SquashMoves(x, change)
      BY <1>3, <1>8, <2>1, <2>2 DEF SquashMoves, d, h
    <3> QED
      BY <1>1, <1>5, <1>6, <3>1
<1> QED
  BY <1>2, <1>7, <1>8

LEMMA SquashBases ==
  ASSUME NEW top, GitInv, ConflictAt(top), NEW x \in Attempt, merge_squash_commit(x),
         NEW a \in Attempt, NEW f \in File, NEW v, v # None, work[a][f] = v, work'[a][f] = v,
         NotInBases(f, v)
  PROVE  NotInBases(f, v)'
<1>1. IsHistory(tip[Main]) /\ Lacks(tip[Main], f, v) /\ Main \in Target
  BY GitAssumption DEF GitInv, Branches, Target, NotInBases
<1>2. CASE handler'[x] = Idle /\ UNCHANGED <<tip, work>>
  BY <1>2, SquashIs, BasesKept DEF Idle
<1>3. ASSUME NEW change, SquashMoves(x, change)
      PROVE  NotInBases(f, v)'
  <2>1. Lacks(tip'[Main], f, v)
    BY <1>1, <1>3, TakenLacks DEF SquashMoves
  <2>2. \A b \in Target : tip'[b] = tip[b] \/ Lacks(tip'[b], f, v)
    BY <1>3, <2>1 DEF SquashMoves
  <2>3. origin' = origin /\ \A y \in Attempt : y # x => handler'[y] = handler[y]
    BY SquashIs
  <2>4. handler'[x].op = "moved" /\ Lacks(handler'[x].merged, f, v)
    BY <1>3, <2>1 DEF SquashMoves
  <2> QED
    BY <2>2, <2>3, <2>4, BasesKept
<1> QED
  BY <1>2, <1>3, SquashIs

LEMMA SquashWork ==
  ASSUME NEW top, GitInv, ConflictAt(top), NEW a \in Attempt, merge_squash_commit(a),
         NEW f \in File, NEW v, v # None, work[a][f] = v, work'[a][f] = v,
         Place(a), NotInBases(f, v), WorkAt(a, f, v)
  PROVE  WorkAt(a, f, v)'
<1>1. IsHistory(tip[Main]) /\ Lacks(tip[Main], f, v) /\ Main \in Target /\ IsHistory(tip[a])
  BY GitAssumption, Shapes DEF GitInv, Branches, Target, NotInBases
<1>2. CASE handler'[a] = Idle
  BY <1>2, SquashIs, StillWork DEF StillAt, Idle
<1>3. ASSUME NEW change, SquashMoves(a, change)
      PROVE  WorkAt(a, f, v)'
  <2>1. ~InTree(tip[a], f, v)
    <3> SUFFICES ASSUME InTree(tip[a], f, v) PROVE FALSE
      OBVIOUS
    <3>1. f \in DOMAIN change /\ v \in Marks(change[f])
      BY <1>1, <1>3, SquashHasWork DEF SquashMoves
    <3> QED
      BY <1>3, <3>1, TakenLacks DEF SquashMoves
  <2>2. /\ tip'[a] = tip[a] /\ at'[a] = at[a] /\ rebasing'[a] = rebasing[a] /\ before'[a] = before[a]
        /\ files'[a] = files[a] /\ index'[a] = index[a]
    BY SquashIs
  <2>3. HeadOf(a)' = HeadOf(a)
    BY <2>2, Shapes, HeadIs
  <2> QED
    BY <2>1, <2>2, <2>3 DEF WorkAt, WorkThere, IndexFollows, HistoriesKeep, MergeTook
<1> QED
  BY <1>2, <1>3, SquashIs

(* ... and of the merge in memory.                                         *)
LEMMA MemoryIs ==
  ASSUME NEW top, GitInv, ConflictAt(top), NEW x \in Attempt, perform_squash_merge(x)
  PROVE  /\ \A a \in Attempt : tip'[a] = tip[a] /\ (a # x => handler'[a] = handler[a])
         /\ \/ handler'[x] = Idle /\ UNCHANGED <<tip, work>>
            \/ LET d == Squash(handler[x].ours, handler[x].theirs)
                   h == Append(handler[x].ours, Commit(d, "squash")) IN
               /\ \A b \in Target : tip'[b] \in {tip[b], h}
               /\ handler'[x].op = "moved" /\ handler'[x].merged = h
               /\ work' = TakenIn(d)
         /\ UNCHANGED <<origin, at, index, files, rebasing, before, adrift>>
<1> DEFINE b == handler[x].base
           d == Squash(handler[x].ours, handler[x].theirs)
           h == Append(handler[x].ours, Commit(d, "squash"))
<1>0. b \in Target
  BY DEF perform_squash_merge, GitInv, Rows, HandlerOK
<1>1. UNCHANGED <<origin, at, index, files, rebasing, before, adrift>>
  BY DEF perform_squash_merge
<1>2. \/ handler' = [handler EXCEPT ![x] = Idle] /\ UNCHANGED <<tip, work>>
      \/ /\ tip' = [tip EXCEPT ![b] = h] /\ work' = TakenIn(d)
         /\ handler' = [handler EXCEPT ![x] =
                          [op |-> "moved", base |-> b, merged |-> h, theirs |-> handler[x].theirs]]
  BY DEF perform_squash_merge
<1>3. DOMAIN handler = Attempt /\ \A a \in Attempt : a \notin Target /\ a \in DOMAIN tip
  BY Shapes
<1>4. b \in DOMAIN tip
  BY <1>0, Shapes
<1> HIDE DEF b, d, h
<1>5. \A a \in Attempt : tip'[a] = tip[a] /\ (a # x => handler'[a] = handler[a])
  <2> SUFFICES ASSUME NEW a \in Attempt PROVE tip'[a] = tip[a] /\ (a # x => handler'[a] = handler[a])
    OBVIOUS
  <2>1. tip' = tip \/ tip' = [tip EXCEPT ![b] = h]
    BY <1>2
  <2>2. \E s : handler' = [handler EXCEPT ![x] = s]
    BY <1>2
  <2>3. b # a
    BY <1>0, <1>3
  <2> QED
    BY <1>3, <2>1, <2>2, <2>3
<1>6. CASE handler' = [handler EXCEPT ![x] = Idle] /\ UNCHANGED <<tip, work>>
  BY <1>1, <1>3, <1>5, <1>6
<1>7. CASE /\ tip' = [tip EXCEPT ![b] = h] /\ work' = TakenIn(d)
           /\ handler' = [handler EXCEPT ![x] =
                            [op |-> "moved", base |-> b, merged |-> h, theirs |-> handler[x].theirs]]
  <2>1. handler'[x].op = "moved" /\ handler'[x].merged = h
    BY <1>3, <1>7
  <2>2. \A c \in Target : tip'[c] \in {tip[c], h}
    BY <1>4, <1>7
  <2> QED
    BY <1>1, <1>5, <1>7, <2>1, <2>2 DEF d, h
<1> QED
  BY <1>2, <1>6, <1>7

LEMMA MemoryBases ==
  ASSUME NEW top, GitInv, ConflictAt(top), NEW x \in Attempt, perform_squash_merge(x),
         NEW a \in Attempt, NEW f \in File, NEW v, v # None, work[a][f] = v, work'[a][f] = v,
         NotInBases(f, v)
  PROVE  NotInBases(f, v)'
<1> DEFINE d == Squash(handler[x].ours, handler[x].theirs)
           h == Append(handler[x].ours, Commit(d, "squash"))
<1>1. IsHistory(handler[x].ours) /\ Lacks(handler[x].ours, f, v)
  BY DEF perform_squash_merge, GitInv, Rows, HandlerOK, NotInBases
<1>2. CASE handler'[x] = Idle /\ UNCHANGED <<tip, work>>
  BY <1>2, MemoryIs, BasesKept DEF Idle
<1>3. CASE /\ \A b \in Target : tip'[b] \in {tip[b], h}
           /\ handler'[x].op = "moved" /\ handler'[x].merged = h
           /\ work' = TakenIn(d)
  <2>1. Lacks(h, f, v)
    <3> HIDE DEF d
    <3> QED
      BY <1>1, <1>3, TakenLacks
  <2> HIDE DEF h
  <2> QED
    BY <1>3, <2>1, MemoryIs, BasesKept
<1> QED
  BY <1>2, <1>3, MemoryIs

LEMMA MemoryWork ==
  ASSUME NEW top, GitInv, ConflictAt(top), NEW a \in Attempt, perform_squash_merge(a),
         NEW f \in File, NEW v, v # None, work[a][f] = v, work'[a][f] = v,
         Place(a), NotInBases(f, v), WorkAt(a, f, v)
  PROVE  WorkAt(a, f, v)'
<1> DEFINE d == Squash(handler[a].ours, handler[a].theirs)
<1>1. IsHistory(handler[a].ours) /\ Lacks(handler[a].ours, f, v) /\ IsHistory(tip[a])
  BY Shapes DEF perform_squash_merge, GitInv, Rows, HandlerOK, NotInBases
<1>2. CASE handler'[a] = Idle
  BY <1>2, MemoryIs, StillWork DEF StillAt, Idle
<1>3. CASE work' = TakenIn(d)
  <2>1. rebasing[a].active => ~InTree(tip[a], f, v)
    <3> SUFFICES ASSUME rebasing[a].active, InTree(tip[a], f, v) PROVE FALSE
      OBVIOUS
    <3>1. handler[a].theirs = tip[a]
      BY DEF Place, perform_squash_merge
    <3>2. f \in DOMAIN d /\ v \in Marks(d[f])
      BY <1>1, <3>1, SquashHasWork
    <3> HIDE DEF d
    <3> QED
      BY <1>3, <3>2, TakenLacks
  <2>2. tip'[a] = tip[a] /\ UNCHANGED <<at, index, files, rebasing, before>>
    BY MemoryIs
  <2>3. HeadOf(a)' = HeadOf(a)
    BY <2>2, Shapes, HeadIs
  <2> QED
    BY <2>1, <2>2, <2>3 DEF WorkAt, WorkThere, IndexFollows, HistoriesKeep, MergeTook
<1> QED
  BY <1>2, <1>3, MemoryIs

-----------------------------------------------------------------------------
(* What a step of attempt x leaves: the work marks that stay, the bases    *)
(* still lack; the other attempts are as they were; its own work is kept.  *)

WorkShrinks ==
  /\ DOMAIN work' = Attempt
  /\ \A a \in Attempt : DOMAIN work'[a] = File /\ \A f \in File : work'[a][f] \in {work[a][f], None}

BasesStay(a, f, v) == work[a][f] = v /\ work'[a][f] = v /\ NotInBases(f, v) => NotInBases(f, v)'

Still(a) ==
  /\ tip'[a] = tip[a] /\ at'[a] = at[a] /\ rebasing'[a] = rebasing[a] /\ before'[a] = before[a]
  /\ files'[a] = files[a] /\ index'[a] = index[a] /\ handler'[a] = handler[a]
  /\ a \in adrift' <=> a \in adrift

OwnStays(x) ==
  /\ x \in adrift => x \in adrift'
  /\ Place(x) /\ x \notin adrift' => Place(x)'
  /\ \A f \in File : \A v :
       /\ v # None /\ work[x][f] = v /\ work'[x][f] = v /\ x \notin adrift'
       /\ Place(x) /\ NotInBases(f, v) /\ WorkAt(x, f, v)
       => WorkAt(x, f, v)'

Carries(x) ==
  /\ WorkShrinks
  /\ \A a \in Attempt : /\ a # x => Still(a)
                        /\ \A f \in File : \A v : v # None => BasesStay(a, f, v)
  /\ x \in Attempt => OwnStays(x)

LEMMA ShrunkIsOK ==
  ASSUME WorkOK, WorkShrinks
  PROVE  WorkOK'
<1> SUFFICES ASSUME NEW a \in Attempt, NEW f \in File
             PROVE  work'[a][f] = None \/ \E k \in Nat : work'[a][f] = <<a, k>>
  BY DEF WorkOK, WorkShrinks
<1>1. work'[a][f] \in {work[a][f], None}
  BY DEF WorkShrinks
<1> QED
  BY <1>1 DEF WorkOK

LEMMA StillOwn ==
  ASSUME GitInv, NEW a \in Attempt, Still(a)
  PROVE  OwnStays(a)
<1>1. Place(a) => Place(a)'
  BY StillPlace DEF Still
<1>2. \A f, v : WorkAt(a, f, v) => WorkAt(a, f, v)'
  BY StillWork DEF Still, StillAt
<1> QED
  BY <1>1, <1>2 DEF OwnStays, Still

LEMMA OwnKept ==
  ASSUME NEW a \in Attempt, Kept(a), OwnStays(a), WorkShrinks,
         \A f \in File : \A v : v # None => BasesStay(a, f, v)
  PROVE  Kept(a)'
<1>0. a \notin adrift' => Place(a)'
  BY DEF Kept, OwnStays
<1> SUFFICES ASSUME NEW f \in File, NEW v, work'[a][f] = v, v # None
             PROVE  NotInBases(f, v)' /\ (a \notin adrift' => WorkAt(a, f, v)')
  BY <1>0 DEF Kept
<1>1. work[a][f] = v
  BY DEF WorkShrinks
<1>2. NotInBases(f, v) /\ (a \notin adrift => Place(a) /\ WorkAt(a, f, v))
  BY <1>1 DEF Kept
<1>3. NotInBases(f, v)'
  BY <1>1, <1>2 DEF BasesStay
<1>4. a \notin adrift' => WorkAt(a, f, v)'
  BY <1>1, <1>2 DEF OwnStays
<1> QED
  BY <1>3, <1>4

LEMMA CarriesKept ==
  ASSUME GitInv, WorkInv, NEW x, Carries(x)
  PROVE  WorkInv'
<1>1. WorkOK'
  BY ShrunkIsOK DEF WorkInv, Carries
<1>2. ASSUME NEW a \in Attempt PROVE Kept(a)'
  <2>1. OwnStays(a)
    BY StillOwn DEF Carries
  <2> QED
    BY <2>1, OwnKept DEF WorkInv, Carries
<1> QED
  BY <1>1, <1>2 DEF WorkInv

(* Steps that write no base and move none.                                 *)
LEMMA QuietBases ==
  ASSUME \A b \in Target : tip'[b] = tip[b], origin'[Origin] = origin[Origin],
         \A y \in Attempt : handler'[y] = handler[y] \/ handler'[y].op \notin {"memory", "moved"}
  PROVE  \A a, f, v : BasesStay(a, f, v)
BY BasesKept DEF BasesStay

LEMMA SameWork ==
  ASSUME WorkOK, UNCHANGED work
  PROVE  WorkShrinks
BY DEF WorkOK, WorkShrinks

LEMMA UserCarries ==
  ASSUME NEW top, GitInv, ConflictAt(top), WorkOK,
         UserCommits \/ \E f \in File : RemoteMoves(f) \/ \E s \in BOOLEAN : UserEdits(f, s)
  PROVE  Carries(Main)
<1>0. Main \notin Attempt /\ Main \in Target /\ Main \in DOMAIN tip /\ Target \subseteq DOMAIN tip
      /\ Origin \in DOMAIN origin
  BY GitAssumption DEF GitInv, Branches, Target
<1>1. CASE UserCommits
  <2> DEFINE d == Delta(Added(Main), Tree(HeadOf(Main)))
  <2>1. at[Main].branch = Main /\ Main # NoBranch /\ HeadOf(Main) = tip[Main]
    BY GitAssumption DEF GitInv, Checkouts, OnBranch, NoBranch, HeadOf
  <2>2. /\ tip' = [tip EXCEPT ![Main] = Append(tip[Main], Commit(d, "user"))] /\ at' = at
        /\ work' = TakenIn(d) /\ UNCHANGED <<origin, rebasing, handler, before, adrift>>
    BY <1>1, <2>1 DEF UserCommits, MoveHead
  <2>3. files' = [files EXCEPT ![Main] = Added(Main)] /\ index' = [index EXCEPT ![Main] = Added(Main)]
    BY <1>1 DEF UserCommits
  <2> HIDE DEF d
  <2>4. WorkShrinks
    BY <2>2 DEF WorkShrinks, TakenIn
  <2>5. ASSUME NEW a \in Attempt PROVE Still(a)
    BY <1>0, <2>2, <2>3, Shapes DEF Still
  <2>6. ASSUME NEW a \in Attempt, NEW f \in File, NEW v, v # None PROVE BasesStay(a, f, v)
    <3> SUFFICES ASSUME work[a][f] = v, work'[a][f] = v, NotInBases(f, v) PROVE NotInBases(f, v)'
      BY DEF BasesStay
    <3>1. IsHistory(tip[Main]) /\ Lacks(tip[Main], f, v)
      BY <1>0 DEF GitInv, Branches, NotInBases
    <3>2. Lacks(Append(tip[Main], Commit(d, "user")), f, v)
      BY <2>2, <2>6, <3>1, TakenLacks
    <3>3. \A b \in Target : tip'[b] = tip[b] \/ Lacks(tip'[b], f, v)
      BY <1>0, <2>2, <3>2
    <3> QED
      BY <2>2, <3>3, BasesKept
  <2> QED
    BY <1>0, <2>4, <2>5, <2>6 DEF Carries
<1>2. ASSUME NEW g \in File, RemoteMoves(g) PROVE Carries(Main)
  <2> DEFINE c == Commit([h \in {g} |-> Remote], "user")
  <2>1. /\ origin' = [origin EXCEPT ![Origin] = Append(@, c)]
        /\ UNCHANGED <<tip, at, index, files, rebasing, before, handler, work, adrift>>
    BY <1>2 DEF RemoteMoves
  <2>2. c.change = [h \in {g} |-> Remote]
    BY DEF Commit
  <2> HIDE DEF c
  <2>3. ASSUME NEW a \in Attempt, NEW f \in File, NEW v, v # None PROVE BasesStay(a, f, v)
    <3> SUFFICES ASSUME work[a][f] = v, work'[a][f] = v, NotInBases(f, v) PROVE NotInBases(f, v)'
      BY DEF BasesStay
    <3>1. v # Remote
      BY <2>3, WorkIsMark
    <3>2. v \notin Marks(Remote)
      BY <3>1, PlainMarks DEF Remote
    <3>3. ~Marks1(c, f, v)
      BY <2>2, <3>2 DEF Marks1
    <3>4. Lacks(Append(origin[Origin], c), f, v)
      BY <3>3, AppendLacks DEF GitInv, Branches, NotInBases
    <3> QED
      BY <1>0, <2>1, <3>4, BasesKept
  <2> QED
    BY <1>0, <2>1, <2>3, SameWork DEF Carries, Still
<1>3. ASSUME NEW g \in File, NEW s \in BOOLEAN, UserEdits(g, s) PROVE Carries(Main)
  <2>1. /\ files' = [files EXCEPT ![Main][g] = User] /\ (index' = index \/ index' = [index EXCEPT ![Main][g] = User])
        /\ UNCHANGED <<tip, origin, at, rebasing, before, handler, work, adrift>>
    BY <1>3 DEF UserEdits
  <2>2. ASSUME NEW a \in Attempt PROVE Still(a)
    BY <1>0, <2>1, Shapes DEF Still
  <2>3. \A a, f, v : BasesStay(a, f, v)
    BY <2>1, QuietBases
  <2> QED
    BY <1>0, <2>1, <2>2, <2>3, SameWork DEF Carries
<1> QED
  BY <1>1, <1>2, <1>3

(* Handlers that begin or look for the base.                               *)
LEMMA RowCarries ==
  ASSUME NEW top, GitInv, ConflictAt(top), WorkOK, NEW x \in Attempt,
         \/ RecordBefore(x) \/ push_task_attempt_branch(x) \/ merge_task_attempt(x) \/ MergeFindsBase(x)
         \/ \E b \in Target : change_target_branch(x, b) \/ rebase_task_attempt(x, b)
  PROVE  Carries(x)
<1>0. /\ DOMAIN handler = Attempt /\ DOMAIN before = Attempt /\ DOMAIN origin = Attempt \cup {Origin}
      /\ x # Origin /\ x # NoBranch
  BY Shapes DEF Target
<1>1. UNCHANGED <<tip, at, index, files, rebasing, work, adrift>>
  BY DEF RecordBefore, push_task_attempt_branch, push_to_github, merge_task_attempt, MergeCheck, MergeFindsBase,
         change_target_branch, rebase_task_attempt
<1>2. /\ before' = before \/ (before' = [before EXCEPT ![x] = HeadOf(x)] /\ RecordBefore(x))
      /\ origin' = origin \/ origin' = [origin EXCEPT ![x] = tip[x]]
  BY DEF RecordBefore, push_task_attempt_branch, push_to_github, merge_task_attempt, MergeCheck, MergeFindsBase,
         change_target_branch, rebase_task_attempt
<1>3. \/ handler' = handler
      \/ \E r : /\ handler' = [handler EXCEPT ![x] = r]
                /\ r.op \notin {"memory", "moved"}
      \/ /\ handler[x].base \in Target
         /\ handler' = [handler EXCEPT ![x] = [op |-> "memory", base |-> handler[x].base,
                                               ours |-> tip[handler[x].base], theirs |-> tip[x]]]
  <2>1. CASE RecordBefore(x) \/ push_task_attempt_branch(x) \/ \E b \in Target : change_target_branch(x, b)
    BY <2>1 DEF RecordBefore, push_task_attempt_branch, push_to_github, change_target_branch
  <2>2. CASE merge_task_attempt(x)
    <3> DEFINE r == [op |-> "status", base |-> target[x]]
    <3>1. handler' = [handler EXCEPT ![x] = r]
      BY <2>2 DEF merge_task_attempt, MergeCheck
    <3>2. r.op \notin {"memory", "moved"}
      OBVIOUS
    <3> HIDE DEF r
    <3> QED
      BY <3>1, <3>2
  <2>3. ASSUME NEW b \in Target, rebase_task_attempt(x, b)
        PROVE  \E r : handler' = [handler EXCEPT ![x] = r] /\ r.op \notin {"memory", "moved"}
    <3> DEFINE r == [op |-> "rebase", old |-> target[x], new |-> b]
    <3>1. handler' = [handler EXCEPT ![x] = r]
      BY <2>3 DEF rebase_task_attempt
    <3>2. r.op \notin {"memory", "moved"}
      OBVIOUS
    <3> HIDE DEF r
    <3> QED
      BY <3>1, <3>2
  <2>4. CASE MergeFindsBase(x)
    <3>1. handler[x].base \in Target
      BY <2>4 DEF MergeFindsBase, GitInv, Rows, HandlerOK
    <3>2. PICK r : /\ handler' = [handler EXCEPT ![x] = r]
                   /\ \/ r = Idle
                      \/ r = [op |-> "memory", base |-> handler[x].base,
                              ours |-> tip[handler[x].base], theirs |-> tip[x]]
                      \/ \E c : r = [op |-> "cli", base |-> handler[x].base, place |-> c]
      BY <2>4 DEF MergeFindsBase
    <3>3. r = Idle \/ (\E c : r = [op |-> "cli", base |-> handler[x].base, place |-> c])
          => r.op \notin {"memory", "moved"}
      BY DEF Idle
    <3> QED
      BY <3>1, <3>2, <3>3
  <2> QED
    BY <2>1, <2>2, <2>3, <2>4
<1>4. \A a \in Attempt : a # x => handler'[a] = handler[a] /\ before'[a] = before[a]
  BY <1>0, <1>2, <1>3
<1>5. /\ handler'[x] = handler[x] \/ handler'[x].op # "moved"
      /\ handler'[x] = handler[x] \/ handler'[x].op # "memory" \/ handler'[x].theirs = tip[x]
  BY <1>0, <1>3
<1>6. origin'[Origin] = origin[Origin]
  BY <1>0, <1>2
<1>7. ASSUME NEW a \in Attempt, NEW f \in File, NEW v PROVE BasesStay(a, f, v)
  <2> SUFFICES ASSUME NotInBases(f, v) PROVE NotInBases(f, v)'
    BY DEF BasesStay
  <2>1. \/ handler'[x] = handler[x] \/ handler'[x].op \notin {"memory", "moved"}
        \/ handler'[x].op = "memory" /\ Lacks(handler'[x].ours, f, v)
    BY <1>0, <1>3 DEF NotInBases
  <2> QED
    BY <1>1, <1>4, <1>6, <2>1, BasesKept
<1>8. OwnStays(x)
  <2>1. Place(x) => Place(x)'
    BY <1>1, <1>5, StillPlace
  <2>2. ASSUME NEW f \in File, NEW v, WorkAt(x, f, v) PROVE WorkAt(x, f, v)'
    <3>1. CASE before' = before
      BY <1>1, <1>5, <2>2, <3>1, StillWork DEF StillAt
    <3>2. CASE RecordBefore(x)
      BY <2>2, <3>2, BeforeWork
    <3> QED
      BY <1>2, <3>1, <3>2
  <2> QED
    BY <1>1, <2>1, <2>2 DEF OwnStays
<1> QED
  BY <1>1, <1>4, <1>7, <1>8, SameWork DEF Carries, Still

(* Steps in a worktree that write no other and no base.                    *)
LEMMA OthersStill ==
  ASSUME NEW top, GitInv, ConflictAt(top), NEW x \in Attempt, UNCHANGED <<handler, before, origin>>,
         \A a \in Attempt : a # x => /\ tip'[a] = tip[a] /\ at'[a] = at[a] /\ files'[a] = files[a] /\ index'[a] = index[a]
                                     /\ rebasing'[a] = rebasing[a] /\ (a \in adrift' <=> a \in adrift),
         \A b \in Target : tip'[b] = tip[b],
         WorkShrinks, OwnStays(x)
  PROVE  Carries(x)
<1>1. \A a, f, v : BasesStay(a, f, v)
  BY QuietBases
<1> QED
  BY <1>1 DEF Carries, Still

LEMMA OnlyHead ==
  ASSUME NEW top, GitInv, ConflictAt(top), NEW x \in Attempt, NEW h,
         MoveHead(x, h) \/ UNCHANGED <<tip, at>>
  PROVE  /\ \A a \in Attempt : a # x => tip'[a] = tip[a] /\ at'[a] = at[a]
         /\ \A b \in Target : tip'[b] = tip[b]
         /\ UNCHANGED <<rebasing, handler>> /\ Place(x) => Place(x)'
<1>1. \A a \in Attempt : a \in DOMAIN tip /\ a \in Checkout /\ a \notin Target
  BY Shapes
<1>2. Target \subseteq DOMAIN tip
  BY Shapes
<1>3. CASE MoveHead(x, h)
  <2>1. /\ at'[x].branch = at[x].branch /\ at[x].branch = NoBranch => tip' = tip
        /\ \A y \in Checkout : y # x => at'[y] = at[y]
        /\ \A y \in DOMAIN tip : y # x => tip'[y] = tip[y]
    BY <1>3, MoveHeadIs
  <2>2. UNCHANGED <<rebasing, handler>> /\ Place(x) => Place(x)'
    BY <1>3, <2>1, MoveHeadIs DEF Place
  <2> QED
    BY <1>1, <1>2, <2>1, <2>2
<1>4. CASE UNCHANGED <<tip, at>>
  BY <1>4 DEF Place
<1> QED
  BY <1>3, <1>4

LEMMA WorktreeCarries ==
  ASSUME NEW top, GitInv, ConflictAt(top), WorkOK, NEW x \in Attempt,
         \/ commit(x) \/ \E g \in File : delete_task_attempt_file(x, g)
         \/ abort_conflicts_task_attempt(x) \/ \E force \in BOOLEAN : reset_worktree_to_commit(x, force)
  PROVE  Carries(x)
<1>0. /\ DOMAIN files = Checkout /\ DOMAIN index = Checkout /\ DOMAIN rebasing = Attempt /\ DOMAIN at = Checkout
      /\ DOMAIN work = Attempt /\ (\A a \in Attempt : a \in Checkout /\ DOMAIN work[a] = File)
  BY Shapes DEF WorkOK
<1>1. CASE commit(x)
  <2>1. \E h : MoveHead(x, h) \/ UNCHANGED <<tip, at>>
    BY <1>1 DEF commit
  <2>2. /\ files' = [files EXCEPT ![x] = Added(x)] /\ index' = [index EXCEPT ![x] = Added(x)]
        /\ UNCHANGED <<origin, rebasing, handler, before, work, adrift>>
    BY <1>1 DEF commit
  <2>3. OwnStays(x)
    BY <1>1, <2>1, <2>2, CommitActWork, OnlyHead DEF OwnStays
  <2> QED
    BY <1>0, <2>1, <2>2, <2>3, OnlyHead, OthersStill, SameWork
<1>2. ASSUME NEW g \in File, delete_task_attempt_file(x, g) PROVE Carries(x)
  <2>0. delete_file_and_commit(x, g)
    BY <1>2 DEF delete_task_attempt_file
  <2>1. \E h : MoveHead(x, h) \/ UNCHANGED <<tip, at>>
    BY <2>0 DEF delete_file_and_commit
  <2>2. /\ files' = [files EXCEPT ![x][g] = None] /\ index' = [index EXCEPT ![x][g] = None]
        /\ work' = [work EXCEPT ![x][g] = None]
        /\ UNCHANGED <<origin, rebasing, handler, before, adrift>>
    BY <2>0 DEF delete_file_and_commit
  <2>3. WorkShrinks
    BY <1>0, <2>2 DEF WorkShrinks
  <2>4. work'[x][g] = None
    BY <1>0, <2>2
  <2>5. OwnStays(x)
    BY <2>0, <2>1, <2>2, <2>4, DeleteWork, OnlyHead DEF OwnStays
  <2> QED
    BY <1>0, <2>1, <2>2, <2>3, <2>5, OnlyHead, OthersStill
<1>3. CASE abort_conflicts_task_attempt(x)
  <2>0. abort_conflicts(x)
    BY <1>3 DEF abort_conflicts_task_attempt
  <2>1. /\ rebasing' = [rebasing EXCEPT ![x] = NoRebase] /\ UNCHANGED <<tip, origin, handler, before>>
        /\ \/ /\ at' = [at EXCEPT ![x] = OnBranch(x)] /\ adrift' = adrift
              /\ \E s : files' = [files EXCEPT ![x] = s] /\ \E t : index' = [index EXCEPT ![x] = t]
              /\ work' = [work EXCEPT ![x] = [f \in File |->
                   IF index[x][f] = None \/ work[x][f] \in Marks(Tree(tip[x])[f]) THEN work[x][f] ELSE None]]
           \/ adrift' = adrift \cup {x} /\ UNCHANGED <<at, index, files, work>>
    BY <2>0 DEF abort_conflicts
  <2>2. WorkShrinks
    BY <1>0, <2>1 DEF WorkShrinks
  <2>3. x \notin adrift' => Place(x)'
    BY <1>0, <2>1, Shapes DEF Place, OnBranch, NoRebase
  <2>4. OwnStays(x)
    BY <1>0, <2>0, <2>1, <2>3, AbortWork DEF OwnStays
  <2>5. \A a \in Attempt : a # x =>
           /\ tip'[a] = tip[a] /\ at'[a] = at[a] /\ files'[a] = files[a] /\ index'[a] = index[a]
           /\ rebasing'[a] = rebasing[a] /\ (a \in adrift' <=> a \in adrift)
    BY <1>0, <2>1
  <2> QED
    BY <2>1, <2>2, <2>4, <2>5, OthersStill
<1>4. ASSUME NEW force \in BOOLEAN, reset_worktree_to_commit(x, force) PROVE Carries(x)
  <2>1. MoveHead(x, before[x]) /\ UNCHANGED <<origin, rebasing, handler, before, adrift>>
    BY <1>4 DEF reset_worktree_to_commit
  <2>2. /\ \E s : files' = [files EXCEPT ![x] = s]
        /\ \E s : index' = [index EXCEPT ![x] = s]
        /\ \E keep : work' = [work EXCEPT ![x] = [f \in File |-> IF f \in keep THEN work[x][f] ELSE None]]
    <3> DEFINE keep == {f \in File : \/ index[x][f] = None /\ Tree(before[x])[f] = None
                                     \/ /\ ~force /\ index[x][f] # None
                                        /\ files[x][f] # Tree(HeadOf(x))[f] /\ ~InConflict(files[x][f])}
    <3>1. work' = [work EXCEPT ![x] = [f \in File |-> IF f \in keep THEN work[x][f] ELSE None]]
      BY <1>4 DEF reset_worktree_to_commit
    <3> HIDE DEF keep
    <3> QED
      BY <1>4, <3>1 DEF reset_worktree_to_commit
  <2>3. WorkShrinks
    BY <1>0, <2>2 DEF WorkShrinks
  <2>4. OwnStays(x)
    BY <1>0, <1>4, <2>1, ResetWork, OnlyHead DEF OwnStays
  <2>5. \A a \in Attempt : a # x => files'[a] = files[a] /\ index'[a] = index[a]
    BY <1>0, <2>2
  <2> QED
    BY <2>1, <2>3, <2>4, <2>5, OnlyHead, OthersStill
<1> QED
  BY <1>1, <1>2, <1>3, <1>4

LEMMA RebaseOnlyOwn ==
  ASSUME NEW top, GitInv, ConflictAt(top), NEW x \in Attempt, NEW onto, NEW h, NEW commits,
         RunRebase(x, onto, h, commits)
  PROVE  /\ \A a \in Attempt : a # x =>
              /\ tip'[a] = tip[a] /\ at'[a] = at[a] /\ files'[a] = files[a] /\ index'[a] = index[a]
              /\ rebasing'[a] = rebasing[a]
         /\ \A b \in Target : tip'[b] = tip[b]
<1>1. /\ \E s : files' = [files EXCEPT ![x] = s]
      /\ \E s : index' = [index EXCEPT ![x] = s]
      /\ \E s : at' = [at EXCEPT ![x] = s]
      /\ \E s : rebasing' = [rebasing EXCEPT ![x] = s]
      /\ tip' = tip \/ \E s : tip' = [tip EXCEPT ![x] = s]
  BY DEF RunRebase
<1>2. /\ DOMAIN files = Checkout /\ DOMAIN index = Checkout /\ DOMAIN rebasing = Attempt /\ DOMAIN at = Checkout
      /\ Target \subseteq DOMAIN tip
  BY Shapes
<1>3. \A a \in Attempt : a \in Checkout /\ a \in DOMAIN tip /\ a \notin Target
  BY Shapes
<1>4. \A a \in Attempt : a # x => files'[a] = files[a] /\ index'[a] = index[a] /\ at'[a] = at[a] /\ rebasing'[a] = rebasing[a]
  BY <1>1, <1>2, <1>3
<1>5. \A a \in Attempt \cup Target : a # x => tip'[a] = tip[a]
  BY <1>1, <1>2, <1>3
<1> QED
  BY <1>3, <1>4, <1>5

LEMMA ContinueCarries ==
  ASSUME NEW top, GitInv, ConflictAt(top), WorkOK, NEW x \in Attempt, AgentContinues(x)
  PROVE  Carries(x)
<1>1. \E onto, h, commits : RunRebase(x, onto, h, commits)
  BY DEF AgentContinues
<1>2. UNCHANGED <<handler, before, origin, work, adrift>>
  BY DEF AgentContinues
<1>3. Place(x) => Place(x)'
  <2>1. /\ rebasing'[x].active <=> at'[x].branch = NoBranch
        /\ rebasing'[x].active => tip' = tip
    <3>1. x \in DOMAIN at /\ x \in DOMAIN rebasing /\ x # NoBranch
      BY Shapes
    <3> QED
      BY <1>1, <3>1, RebasePlace
  <2>2. rebasing[x].active
    BY DEF AgentContinues
  <2> QED
    BY <1>2, <2>1, <2>2 DEF Place
<1>4. OwnStays(x)
  BY <1>2, <1>3, ContinueWork DEF OwnStays
<1> QED
  BY <1>1, <1>2, <1>4, RebaseOnlyOwn, OthersStill, SameWork

LEMMA RebaseCarries ==
  ASSUME NEW top, GitInv, ConflictAt(top), WorkOK, NEW x \in Attempt, rebase_branch(x)
  PROVE  Carries(x)
<1>0. UNCHANGED <<origin, before, work, adrift>>
  BY DEF rebase_branch
<1>1. \/ tip' = [tip EXCEPT ![Origin] = origin[Origin]] /\ UNCHANGED <<at, index, files, rebasing, handler>>
      \/ /\ \E onto, h, commits : RunRebase(x, onto, h, commits)
         /\ handler' = [handler EXCEPT ![x] = Idle]
      \/ handler' = [handler EXCEPT ![x] = Idle] /\ UNCHANGED <<tip, at, index, files, rebasing>>
  BY DEF rebase_branch
<1>2. /\ Origin \in Target /\ DOMAIN handler = Attempt /\ Target \subseteq DOMAIN tip
      /\ (\A a \in Attempt : a \notin Target /\ a \in DOMAIN tip)
  BY Shapes DEF Target
<1>3. Idle.op \notin {"memory", "moved"}
  BY DEF Idle
<1>4. \A a \in Attempt : a # x => Still(a)
  <2>1. CASE tip' = [tip EXCEPT ![Origin] = origin[Origin]] /\ UNCHANGED <<at, index, files, rebasing, handler>>
    BY <1>0, <1>2, <2>1 DEF Still
  <2>2. CASE /\ \E onto, h, commits : RunRebase(x, onto, h, commits)
             /\ handler' = [handler EXCEPT ![x] = Idle]
    BY <1>0, <1>2, <2>2, RebaseOnlyOwn DEF Still
  <2>3. CASE handler' = [handler EXCEPT ![x] = Idle] /\ UNCHANGED <<tip, at, index, files, rebasing>>
    BY <1>0, <1>2, <2>3 DEF Still
  <2> QED
    BY <1>1, <2>1, <2>2, <2>3
<1>5. \A y \in Attempt : handler'[y] = handler[y] \/ handler'[y].op \notin {"memory", "moved"}
  BY <1>1, <1>2, <1>3
<1>6. \A b \in Target : tip'[b] \in {tip[b], origin[Origin]}
  BY <1>1, <1>2, RebaseOnlyOwn
<1>7. ASSUME NEW a, NEW f, NEW v PROVE BasesStay(a, f, v)
  <2> SUFFICES ASSUME NotInBases(f, v) PROVE NotInBases(f, v)'
    BY DEF BasesStay
  <2>1. \A b \in Target : tip'[b] = tip[b] \/ Lacks(tip'[b], f, v)
    BY <1>6 DEF NotInBases
  <2> QED
    BY <1>0, <1>5, <2>1, BasesKept
<1>8. OwnStays(x)
  <2>1. Place(x) => Place(x)'
    <3>1. CASE tip' = [tip EXCEPT ![Origin] = origin[Origin]] /\ UNCHANGED <<at, index, files, rebasing, handler>>
      BY <1>2, <3>1 DEF Place
    <3>2. CASE /\ \E onto, h, commits : RunRebase(x, onto, h, commits)
               /\ handler' = [handler EXCEPT ![x] = Idle]
      <4>1. rebasing'[x].active <=> at'[x].branch = NoBranch
        BY <3>2, Shapes DEF RunRebase, OnBranch, Detached, NoRebase
      <4> QED
        BY <1>2, <1>3, <3>2, <4>1 DEF Place
    <3>3. CASE handler' = [handler EXCEPT ![x] = Idle] /\ UNCHANGED <<tip, at, index, files, rebasing>>
      BY <1>2, <1>3, <3>3 DEF Place
    <3> QED
      BY <1>1, <3>1, <3>2, <3>3
  <2> QED
    BY <1>0, <2>1, RebaseBranchWork DEF OwnStays
<1> QED
  BY <1>0, <1>4, <1>7, <1>8, SameWork DEF Carries

LEMMA MergeCarries ==
  ASSUME NEW top, GitInv, ConflictAt(top), WorkOK, NEW x \in Attempt,
         merge_squash_commit(x) \/ perform_squash_merge(x) \/ MergeMovesTaskBranch(x)
  PROVE  Carries(x)
<1>0. \A a \in Attempt : a \notin Target /\ a \in DOMAIN tip /\ a \in DOMAIN handler
  BY Shapes
<1>1. CASE merge_squash_commit(x)
  <2>1. UNCHANGED <<at, rebasing, before, adrift>>
    BY <1>1, SquashIs
  <2>2. work' = work \/ \E change : work' = TakenIn(change)
    BY <1>1, SquashIs DEF SquashMoves
  <2>3. WorkShrinks
    BY <2>2, SameWork DEF WorkShrinks, TakenIn
  <2>4. handler'[x].op # "memory" /\ tip'[x] = tip[x]
    BY <1>1, SquashIs DEF SquashMoves, Idle
  <2>5. OwnStays(x)
    BY <1>1, <2>1, <2>4, SquashWork, StillPlace DEF OwnStays
  <2>6. \A a \in Attempt : a # x => Still(a)
    BY <1>1, <2>1, SquashIs DEF Still
  <2>7. \A a \in Attempt : \A f \in File : \A v : v # None => BasesStay(a, f, v)
    BY <1>1, SquashBases DEF BasesStay
  <2> QED
    BY <2>3, <2>5, <2>6, <2>7 DEF Carries
<1>2. CASE perform_squash_merge(x)
  <2>1. UNCHANGED <<at, index, files, rebasing, before, adrift>>
    BY <1>2, MemoryIs
  <2>2. work' = work \/ \E change : work' = TakenIn(change)
    BY <1>2, MemoryIs
  <2>3. WorkShrinks
    BY <2>2, SameWork DEF WorkShrinks, TakenIn
  <2>4. handler'[x].op # "memory" /\ tip'[x] = tip[x]
    BY <1>2, MemoryIs DEF Idle
  <2>5. OwnStays(x)
    BY <1>2, <2>1, <2>4, MemoryWork, StillPlace DEF OwnStays
  <2>6. \A a \in Attempt : a # x => Still(a)
    BY <1>2, <2>1, MemoryIs DEF Still
  <2>7. \A a \in Attempt : \A f \in File : \A v : v # None => BasesStay(a, f, v)
    BY <1>2, MemoryBases DEF BasesStay
  <2> QED
    BY <2>3, <2>5, <2>6, <2>7 DEF Carries
<1>3. CASE MergeMovesTaskBranch(x)
  <2>1. /\ tip' = [tip EXCEPT ![x] = handler[x].merged] /\ handler' = [handler EXCEPT ![x] = Idle]
        /\ UNCHANGED <<origin, at, index, files, rebasing, before, work, adrift>>
    BY <1>3 DEF MergeMovesTaskBranch
  <2>2. Place(x) => Place(x)'
    BY <1>0, <2>1 DEF Place, Idle
  <2>3. OwnStays(x)
    BY <1>3, <2>1, <2>2, MovesWork DEF OwnStays
  <2>4. \A a \in Attempt : a # x => Still(a)
    BY <1>0, <2>1 DEF Still
  <2>5. \A y \in Attempt : handler'[y] = handler[y] \/ handler'[y].op \notin {"memory", "moved"}
    BY <1>0, <2>1 DEF Idle
  <2>6. \A b \in Target : tip'[b] = tip[b]
    BY <1>0, <2>1, Shapes
  <2>7. \A a, f, v : BasesStay(a, f, v)
    BY <2>1, <2>5, <2>6, QuietBases
  <2> QED
    BY <2>1, <2>3, <2>4, <2>7, SameWork DEF Carries
<1> QED
  BY <1>1, <1>2, <1>3

(* The agent's own edits give new marks.                                   *)
LEMMA AgentKept ==
  ASSUME GitInv, ConflictInv, WorkInv, NEW x \in Attempt,
         AgentResolves(x) \/ \E g \in File : AgentEdits(x, g)
  PROVE  WorkInv'
<1> DEFINE new == <<x, edits.agent + 1>>
<1>0. edits.agent \in Nat /\ ConflictAt(edits.agent)
  BY DEF ConflictInv, Counters
<1>1. UNCHANGED <<tip, origin, at, rebasing, before, handler, adrift>>
  BY DEF AgentResolves, AgentEdits
<1>2. PICK D \in SUBSET File : work' = [work EXCEPT ![x] = [f \in File |-> IF f \in D THEN new ELSE work[x][f]]]
  <2>1. CASE AgentResolves(x)
    <3> DEFINE D == {f \in File : InConflict(files[x][f])}
    <3>1. work' = [work EXCEPT ![x] = [f \in File |-> IF f \in D THEN new ELSE work[x][f]]]
      BY <2>1 DEF AgentResolves
    <3> HIDE DEF D
    <3>2. D \in SUBSET File
      BY DEF D
    <3> QED
      BY <3>1, <3>2
  <2>2. ASSUME NEW g \in File, AgentEdits(x, g)
        PROVE  work' = [work EXCEPT ![x] = [f \in File |-> IF f \in {g} THEN new ELSE work[x][f]]]
    <3>1. work' = [work EXCEPT ![x][g] = new] /\ DOMAIN work[x] = File /\ DOMAIN work = Attempt
      BY <2>2 DEF AgentEdits, WorkInv, WorkOK
    <3> HIDE DEF new
    <3> QED
      BY <3>1
  <2> QED
    BY <2>1, <2>2
<1>3. DOMAIN work = Attempt /\ DOMAIN work[x] = File
  BY DEF WorkInv, WorkOK
<1>4. WorkOK'
  <2>1. DOMAIN work' = Attempt /\ \A a \in Attempt : DOMAIN work'[a] = File
    BY <1>2, <1>3 DEF WorkInv, WorkOK
  <2>2. ASSUME NEW a \in Attempt, NEW f \in File
        PROVE  work'[a][f] = None \/ \E k \in Nat : work'[a][f] = <<a, k>>
    <3>1. work'[a][f] = work[a][f] \/ (a = x /\ work'[a][f] = new)
      BY <1>2, <1>3
    <3> QED
      BY <1>0, <3>1 DEF WorkInv, WorkOK
  <2> QED
    BY <2>1, <2>2 DEF WorkOK
<1>5. ASSUME NEW a \in Attempt PROVE Kept(a)'
  <2>1. a \notin adrift' => Place(a)'
    BY <1>1 DEF WorkInv, Kept, Place
  <2> SUFFICES ASSUME NEW f \in File, NEW v, work'[a][f] = v, v # None
               PROVE  NotInBases(f, v)' /\ (a \notin adrift' => WorkAt(a, f, v)')
    BY <2>1 DEF Kept
  <2>2. (a = x /\ v = new) \/ v = work[a][f]
    BY <1>2, <1>3
  <2>3. NotInBases(f, v)
    BY <1>0, <2>2, FreshBases DEF WorkInv, Kept
  <2>4. NotInBases(f, v)'
    BY <1>1, <2>3 DEF NotInBases
  <2>5. ASSUME a \notin adrift, a = x PROVE WorkAt(a, f, v)'
    <3>1. work[a][f] # None => WorkAt(a, f, work[a][f])
      BY <2>5 DEF WorkInv, Kept
    <3> QED
      BY <1>3, <2>5, <3>1, EditWork, ResolveWork
  <2>6. ASSUME a \notin adrift, a # x PROVE WorkAt(a, f, v)'
    <3>1. work[a][f] = v /\ WorkAt(a, f, v)
      BY <1>2, <1>3, <2>6 DEF WorkInv, Kept
    <3>2. files'[a] = files[a] /\ index'[a] = index[a]
      BY <1>0, <2>6, Shapes DEF AgentResolves, AgentEdits
    <3> QED
      BY <1>1, <3>1, <3>2, StillWork DEF StillAt
  <2> QED
    BY <1>1, <2>4, <2>5, <2>6
<1> QED
  BY <1>4, <1>5 DEF WorkInv

LEMMA WorkStep == GitInv /\ ConflictInv /\ WorkInv /\ [GitNext]_gitVars => WorkInv'
<1> SUFFICES ASSUME GitInv, ConflictInv, WorkInv, [GitNext]_gitVars PROVE WorkInv'
  OBVIOUS
<1>0. PICK top : ConflictAt(top)
  BY DEF ConflictInv
<1>1. WorkOK
  BY DEF WorkInv
<1>2. CASE UNCHANGED gitVars
  BY <1>2 DEF gitVars, WorkInv, WorkOK, Kept, Place, NotInBases, WorkAt, WorkThere, IndexFollows,
              HistoriesKeep, MergeTook, HeadOf
<1>3. CASE UserCommits \/ \E f \in File : RemoteMoves(f) \/ \E s \in BOOLEAN : UserEdits(f, s)
  BY <1>0, <1>1, <1>3, UserCarries, CarriesKept
<1>4. ASSUME NEW a \in Attempt, AgentResolves(a) \/ \E f \in File : AgentEdits(a, f)
      PROVE  WorkInv'
  BY <1>4, AgentKept
<1>5. ASSUME NEW a \in Attempt,
             \/ commit(a) \/ \E f \in File : delete_task_attempt_file(a, f)
             \/ abort_conflicts_task_attempt(a) \/ \E force \in BOOLEAN : reset_worktree_to_commit(a, force)
      PROVE  WorkInv'
  BY <1>0, <1>1, <1>5, WorktreeCarries, CarriesKept
<1>6. ASSUME NEW a \in Attempt,
             \/ RecordBefore(a) \/ push_task_attempt_branch(a) \/ merge_task_attempt(a) \/ MergeFindsBase(a)
             \/ \E b \in Target : change_target_branch(a, b) \/ rebase_task_attempt(a, b)
      PROVE  WorkInv'
  BY <1>0, <1>1, <1>6, RowCarries, CarriesKept
<1>7. ASSUME NEW a \in Attempt, AgentContinues(a) \/ rebase_branch(a) PROVE WorkInv'
  BY <1>0, <1>1, <1>7, ContinueCarries, RebaseCarries, CarriesKept
<1>8. ASSUME NEW a \in Attempt,
             merge_squash_commit(a) \/ perform_squash_merge(a) \/ MergeMovesTaskBranch(a)
      PROVE  WorkInv'
  BY <1>0, <1>1, <1>8, MergeCarries, CarriesKept
<1> QED
  BY <1>2, <1>3, <1>4, <1>5, <1>6, <1>7, <1>8 DEF GitNext

(* Where the work of an agent is that no target branch has taken in: on    *)
(* disk, staged and committed in this order, and during a rebase else in   *)
(* the commits still to replay; and that the bases lack it.                *)
THEOREM WorkIsKnown == GitSpec => []WorkInv
<1>1. GitInit => WorkInv
  <2> SUFFICES ASSUME GitInit PROVE WorkInv
    OBVIOUS
  <2>1. WorkOK
    BY DEF GitInit, WorkOK, EmptyTree
  <2>2. ASSUME NEW a \in Attempt PROVE Kept(a)
    <3>1. a # NoBranch
      BY GitAssumption DEF NoBranch
    <3>2. Place(a)
      BY <3>1 DEF GitInit, Place, NoRebase, OnBranch, Checkout
    <3> QED
      BY <3>2 DEF GitInit, Kept, EmptyTree
  <2> QED
    BY <2>1, <2>2 DEF WorkInv
<1>2. GitInv /\ ConflictInv /\ WorkInv /\ [GitNext]_gitVars => WorkInv'
  BY WorkStep
<1> QED
  BY <1>1, <1>2, GitInvariant, NoConflictInHistory, PTL DEF GitSpec

(* What an agent wrote and has not been merged is in its branch, in its    *)
(* HEAD or on disk, however commits, merges, rebases of any number of      *)
(* commits, aborts, unforced resets and the other attempts interleave.     *)
THEOREM WorkStays == GitSpec => []WorkKept
<1>1. WorkInv => WorkKept
  <2> SUFFICES ASSUME WorkInv, NEW a \in Attempt \ adrift, NEW f \in File, work[a][f] # None
               PROVE  \/ work[a][f] \in Marks(Tree(tip[a])[f]) \/ work[a][f] \in Marks(files[a][f])
    BY DEF WorkKept
  <2> QED
    BY DEF WorkInv, Kept, WorkAt, WorkThere, InTree
<1> QED
  BY <1>1, WorkIsKnown, PTL
=============================================================================
