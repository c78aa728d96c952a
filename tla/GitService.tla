----------------------------- MODULE GitService -----------------------------
(***************************************************************************)
(* The git operations of a task attempt (services/git.rs, git_cli.rs) and  *)
(* the handlers of routes/task_attempts.rs that run them: commit, merge,   *)
(* rebase, abort, reset, delete file, push, change of the target branch.   *)
(*                                                                         *)
(* A branch is its history, a sequence of commits: the code only squashes, *)
(* rebases and appends, so histories stay linear and two branches share    *)
(* the commits of their longest common prefix.  A commit is the change it  *)
(* makes.  Files hold the mark of whoever wrote them last.  Handlers run   *)
(* on several threads; what one git process does is one step.              *)
(***************************************************************************)
EXTENDS Naturals, Sequences, SequencesExt, FiniteSets, TLC

CONSTANTS
  Attempt,      \* task attempts; each has a branch and a worktree of its name
  Base,         \* local branches an attempt may target
  Main,         \* the branch checked out in the project's own directory
  Origin,       \* the remote-tracking branch an attempt may target
  File,
  MaxEdit,      \* bound: edits the agents make
  MaxRequest,   \* bound: requests of the user to the server
  MaxUser,      \* bound: edits the user makes in the project's directory
  MaxRemote,    \* bound: commits others push to the remote branch
  MaxLength,    \* bound: commits on a branch
  MaxMerging    \* bound: merge requests served at the same time

ASSUME GitAssumption ==
  /\ Main \in Base /\ Origin \notin Base
  /\ Attempt \cap (Base \cup {Origin}) = {}
  /\ "detached" \notin Attempt \cup Base \cup {Origin}
  /\ {"nobody", "user", "remote", "conflict", "markers"} \cap Attempt = {}

VARIABLES
  tip,          \* local branches and remote-tracking refs: their histories
  origin,       \* the branches of the remote repository
  at,           \* checkout -> its HEAD: on a branch, or detached at a history
  index,        \* checkout -> file -> staged content
  files,        \* checkout -> file -> content on disk
  rebasing,     \* attempt -> a rebase in progress and what is left to replay
  target,       \* attempt -> target_branch, the row in the database
  handler,      \* attempt -> the merge or rebase request being served
  before,       \* attempt -> before_head_commit of its last process
  merges,       \* attempt -> the commits recorded by Merge::create_direct
  edits,        \* counters: edits of the agents, of the user, requests
  work,         \* ghost: attempt -> file -> what its agent last wrote there, until
                \* a target branch has it
  staged,       \* ghost: files that the user, or a merge that stopped in conflict,
                \* left staged in the project's directory
  adrift,       \* ghost: attempts whose HEAD `rebase --quit` once left detached
  lost          \* ghost: histories of bases that a merge in memory overwrote

gitVars == <<tip, origin, at, index, files, rebasing, target, handler, before,
             merges, edits, work, staged, adrift, lost>>

Checkout == Attempt \cup {Main}
None == <<"nobody", 0>>
User == <<"user", 0>>
Remote == <<"remote", 0>>
NoBranch == "detached"
Idle == [op |-> "idle"]
NoRebase == [active |-> FALSE, todo |-> <<>>]
Target == Base \cup {Origin}

-----------------------------------------------------------------------------
(* Contents.  A file in conflict holds both sides, with all their marks,   *)
(* and still does when its conflict markers are taken as content.          *)

Marks(v) == IF v[1] \in {"conflict", "markers"} THEN v[2] ELSE {v}

Conflict(ours, theirs) == <<"conflict", Marks(ours) \cup Marks(theirs), <<ours, theirs>>>>

InConflict(v) == v[1] = "conflict"

-----------------------------------------------------------------------------
(* Histories and trees.                                                    *)

EmptyTree == [f \in File |-> None]

(* A file has what the last commit that changes it gave it.                *)
Tree(h) ==
  [f \in File |-> LET touching == {i \in 1..Len(h) : f \in DOMAIN h[i].change}
                  IN  IF touching = {} THEN None ELSE h[Max(touching)].change[f]]

Delta(new, old) == [f \in {g \in File : new[g] # old[g]} |-> new[f]]

Commit(change, kind) == [change |-> change, kind |-> kind]

Shared(h, k) == LongestCommonPrefix({h, k})

After(h, k) == SubSeq(h, Len(Shared(h, k)) + 1, Len(h))

get_branch_status(branch, base) ==
  [ahead |-> Len(After(tip[branch], tip[base])),
   behind |-> Len(After(tip[base], tip[branch]))]

HeadOf(c) == IF at[c].branch = NoBranch THEN at[c].history ELSE tip[at[c].branch]

OnBranch(b) == [branch |-> b, history |-> <<>>]

Detached(h) == [branch |-> NoBranch, history |-> h]

has_staged_changes(c) == index[c] # Tree(HeadOf(c))

(* Untracked files (on disk, not in the index) do not count.               *)
check_worktree_clean(c) ==
  /\ ~has_staged_changes(c)
  /\ \A f \in File : index[c][f] # None => files[c][f] = index[c][f]

has_changes(c) == has_staged_changes(c) \/ files[c] # index[c]

(* What `git add -A` stages: conflict markers become content.              *)
Added(c) ==
  [f \in File |-> IF InConflict(files[c][f]) THEN [files[c][f] EXCEPT ![1] = "markers"]
                  ELSE files[c][f]]

(* HEAD advances to history h: the branch moves, or the detached HEAD.     *)
MoveHead(c, h) ==
  IF at[c].branch = NoBranch
  THEN at' = [at EXCEPT ![c] = Detached(h)] /\ UNCHANGED tip
  ELSE tip' = [tip EXCEPT ![at[c].branch] = h] /\ UNCHANGED at

(* A request of the user is taken.                                         *)
Ask == edits.request < MaxRequest /\ edits' = [edits EXCEPT !.request = @ + 1]

(* Ghost: a target branch takes in a change, and with it the work in it.   *)
TakenIn(change) ==
  [a \in Attempt |-> [f \in File |->
     IF f \in DOMAIN change /\ work[a][f] \in Marks(change[f]) THEN None ELSE work[a][f]]]

-----------------------------------------------------------------------------
GitInit ==
  /\ tip = [b \in Base \cup Attempt \cup {Origin} |-> <<>>]
  /\ origin = [b \in Attempt \cup {Origin} |-> <<>>]
  /\ at = [c \in Checkout |-> OnBranch(c)]
  /\ index = [c \in Checkout |-> EmptyTree]
  /\ files = [c \in Checkout |-> EmptyTree]
  /\ rebasing = [a \in Attempt |-> NoRebase]
  /\ target = [a \in Attempt |-> Main]
  /\ handler = [a \in Attempt |-> Idle]
  /\ before = [a \in Attempt |-> <<>>]
  /\ merges = [a \in Attempt |-> {}]
  /\ edits = [agent |-> 0, user |-> 0, request |-> 0]
  /\ work = [a \in Attempt |-> EmptyTree]
  /\ staged = {}
  /\ adrift = {}
  /\ lost = {}

-----------------------------------------------------------------------------
(* The agent, the user and the remote: not code of the repository.         *)

AgentEdits(a, f) ==
  /\ edits.agent < MaxEdit
  /\ LET v == <<a, edits.agent + 1>> IN
     /\ files' = [files EXCEPT ![a][f] = v]
     /\ work' = [work EXCEPT ![a][f] = v]
  /\ edits' = [edits EXCEPT !.agent = @ + 1]
  /\ UNCHANGED <<tip, origin, at, index, rebasing, target, handler, before,
                 merges, staged, adrift, lost>>

(* In the project's directory the user leaves an edit, stages it, or       *)
(* commits everything there: after a conflict, a merge finished by hand.   *)
UserEdits(f, stage) ==
  /\ edits.user < MaxUser
  /\ files' = [files EXCEPT ![Main][f] = User]
  /\ index' = IF stage THEN [index EXCEPT ![Main][f] = User] ELSE index
  /\ staged' = IF stage THEN staged \cup {f} ELSE staged
  /\ edits' = [edits EXCEPT !.user = @ + 1]
  /\ UNCHANGED <<tip, origin, at, rebasing, target, handler, before, merges,
                 work, adrift, lost>>

UserCommits ==
  /\ has_changes(Main)
  /\ Len(HeadOf(Main)) < MaxLength
  /\ LET d == Delta(Added(Main), Tree(HeadOf(Main))) IN
     /\ DOMAIN d # {}
     /\ MoveHead(Main, Append(HeadOf(Main), Commit(d, "user")))
     /\ work' = TakenIn(d)
  /\ index' = [index EXCEPT ![Main] = Added(Main)]
  /\ files' = [files EXCEPT ![Main] = Added(Main)]
  /\ staged' = {}
  /\ UNCHANGED <<origin, rebasing, target, handler, before, merges, edits, adrift, lost>>

RemoteMoves(f) ==
  /\ Len(origin[Origin]) < MaxRemote
  /\ origin' = [origin EXCEPT ![Origin] = Append(@, Commit([g \in {f} |-> Remote], "user"))]
  /\ UNCHANGED <<tip, at, index, files, rebasing, target, handler, before,
                 merges, edits, work, staged, adrift, lost>>

-----------------------------------------------------------------------------
(* commit, run by the exit monitor: everything on disk is added, so a file *)
(* with conflict markers is committed as it is.                            *)
commit(a) ==
  /\ has_changes(a)
  /\ Len(HeadOf(a)) < MaxLength
  /\ LET d == Delta(Added(a), Tree(HeadOf(a))) IN
     IF DOMAIN d = {} THEN UNCHANGED <<tip, at>>      \* git commit fails
     ELSE MoveHead(a, Append(HeadOf(a), Commit(d, "work")))
  /\ files' = [files EXCEPT ![a] = Added(a)]
  /\ index' = [index EXCEPT ![a] = Added(a)]
  /\ UNCHANGED <<origin, rebasing, target, handler, before, merges,
                 edits, work, staged, adrift, lost>>

(* A process starts: before_head_commit is recorded.                       *)
RecordBefore(a) ==
  /\ before[a] # HeadOf(a)
  /\ before' = [before EXCEPT ![a] = HeadOf(a)]
  /\ UNCHANGED <<tip, origin, at, index, files, rebasing, target, handler,
                 merges, edits, work, staged, adrift, lost>>

(* delete_file_and_commit: the index without the file becomes the commit,  *)
(* an empty one if the file was not tracked.  A conflict in the file is    *)
(* resolved by this; one in another file makes write_tree fail.            *)
delete_file_and_commit(a, f) ==
  /\ Len(HeadOf(a)) < MaxLength
  /\ files' = [files EXCEPT ![a][f] = None]
  /\ index' = [index EXCEPT ![a][f] = None]
  /\ IF \E g \in File : InConflict(index'[a][g]) THEN UNCHANGED <<tip, at>>
     ELSE MoveHead(a, Append(HeadOf(a), Commit(Delta(index'[a], Tree(HeadOf(a))), "work")))
  /\ work' = [work EXCEPT ![a][f] = None]
  /\ UNCHANGED <<origin, rebasing, target, handler, before, merges, staged, adrift, lost>>

delete_task_attempt_file(a, f) == Ask /\ delete_file_and_commit(a, f)

-----------------------------------------------------------------------------
(* merge_changes.  The handler reads the target, checks that the base has  *)
(* not moved, looks for a checkout of the base and goes on with the merge  *)
(* of the git CLI there or with one in memory.                             *)

(* Mutant: a base that is checked out is not found. *)
NoCheckout(b) == {}

find_checkout_path_for_branch(b) == {c \in Checkout : at[c].branch = b}

MergeCheck(a) ==
  /\ Ask
  /\ get_branch_status(a, target[a]).behind = 0
  /\ handler' = [handler EXCEPT ![a] = [op |-> "status", base |-> target[a]]]
  /\ UNCHANGED <<tip, origin, at, index, files, rebasing, target, before, merges,
                 work, staged, adrift, lost>>

merge_task_attempt(a) ==
  /\ handler[a] = Idle
  /\ Cardinality({b \in Attempt : handler[b].op \in {"status", "cli", "memory", "moved"}})
       < MaxMerging
  /\ MergeCheck(a)

MergeFindsBase(a) ==
  /\ handler[a].op = "status"
  /\ LET b == handler[a].base
         where == find_checkout_path_for_branch(b) IN
     handler' = [handler EXCEPT ![a] =
       IF where = {} THEN [op |-> "memory", base |-> b, ours |-> tip[b], theirs |-> tip[a]]
       ELSE IF \E c \in where : has_staged_changes(c) THEN Idle   \* WorktreeDirty
       ELSE [op |-> "cli", base |-> b, place |-> CHOOSE c \in where : TRUE]]
  /\ UNCHANGED <<tip, origin, at, index, files, rebasing, target, before, merges,
                 edits, work, staged, adrift, lost>>

(* The three-way merge of theirs into ours, as one change of ours.         *)
Clash(ours, theirs) ==
  LET old == Tree(Shared(ours, theirs)) IN
  {f \in File : /\ Tree(theirs)[f] # old[f] /\ Tree(ours)[f] # old[f]
                /\ Tree(ours)[f] # Tree(theirs)[f]}

Squash(ours, theirs) ==
  LET old == Tree(Shared(ours, theirs))
      new == {f \in File : Tree(theirs)[f] # old[f] /\ Tree(theirs)[f] # Tree(ours)[f]}
  IN  [f \in new |-> Tree(theirs)[f]]

(* merge_squash_commit: checkout, merge --squash and commit in the         *)
(* directory where the base is checked out.  Git refuses an index with     *)
(* conflicts and to overwrite files that differ from the index; a conflict *)
(* of the merge stays in that directory.                                   *)
merge_squash_commit(a) ==
  /\ handler[a].op = "cli"
  /\ LET b == handler[a].base
         c == handler[a].place
         d == Squash(tip[b], tip[a])
         blocked == \/ \E f \in DOMAIN d : files[c][f] # index[c][f]
                    \/ \E f \in File : InConflict(index[c][f])
         new == [f \in File |-> IF f \in DOMAIN d THEN d[f] ELSE index[c][f]]
     IN
     /\ Len(tip[b]) < MaxLength
     /\ \/ /\ blocked \/ (DOMAIN d = {} /\ ~has_staged_changes(c))
           /\ handler' = [handler EXCEPT ![a] = Idle]
           /\ UNCHANGED <<tip, index, files, staged, work>>
        \/ /\ ~blocked /\ Clash(tip[b], tip[a]) # {}
           /\ handler' = [handler EXCEPT ![a] = Idle]
           /\ LET stop(t) == [f \in File |->
                     IF f \in Clash(tip[b], tip[a]) THEN Conflict(Tree(tip[b])[f], d[f])
                     ELSE IF f \in DOMAIN d THEN d[f] ELSE t[f]] IN
              /\ files' = [files EXCEPT ![c] = stop(@)]
              /\ index' = [index EXCEPT ![c] = stop(@)]
           /\ staged' = IF c = Main THEN staged \cup DOMAIN d ELSE staged
           /\ UNCHANGED <<tip, work>>
        \/ /\ ~blocked /\ Clash(tip[b], tip[a]) = {}
           /\ DOMAIN d # {} \/ has_staged_changes(c)
           /\ index' = [index EXCEPT ![c] = new]
           /\ files' = [files EXCEPT ![c] =
                           [f \in File |-> IF f \in DOMAIN d THEN d[f] ELSE @[f]]]
           /\ LET change == Delta(new, Tree(tip[b]))
                  h == Append(tip[b], Commit(change, "squash")) IN
              /\ tip' = [tip EXCEPT ![b] = h]
              /\ work' = TakenIn(change)
              /\ handler' = [handler EXCEPT ![a] =
                               [op |-> "moved", base |-> b, merged |-> h, theirs |-> tip[a]]]
           /\ staged' = IF c = Main THEN {} ELSE staged
  /\ UNCHANGED <<origin, at, rebasing, target, before, merges, edits, adrift, lost>>

(* perform_squash_merge: in memory, from the commits resolved before; the  *)
(* base ref is then overwritten.  If the base is a remote-tracking branch, *)
(* the ref written is a local branch of that name, which find_branch       *)
(* prefers from then on.                                                   *)
perform_squash_merge(a) ==
  /\ handler[a].op = "memory"
  /\ LET b == handler[a].base
         ours == handler[a].ours
         theirs == handler[a].theirs
         h == Append(ours, Commit(Squash(ours, theirs), "squash"))
     IN
     /\ Len(ours) < MaxLength
     /\ IF Clash(ours, theirs) # {}
        THEN /\ handler' = [handler EXCEPT ![a] = Idle]    \* MergeConflicts
             /\ UNCHANGED <<tip, work, lost>>
        ELSE /\ handler' = [handler EXCEPT ![a] =
                              [op |-> "moved", base |-> b, merged |-> h, theirs |-> theirs]]
             /\ tip' = [tip EXCEPT ![b] = h]
             /\ work' = TakenIn(Squash(ours, theirs))
             /\ lost' = IF tip[b] = ours THEN lost
                        ELSE lost \cup {[base |-> b, history |-> tip[b]]}
  /\ UNCHANGED <<origin, at, index, files, rebasing, target, before, merges,
                 edits, staged, adrift>>

(* Mutant: the head of the task branch is recorded, not the squash commit. *)
MergeRecordsTaskHead(a) ==
  /\ handler[a].op = "moved"
  /\ tip' = [tip EXCEPT ![a] = handler[a].merged]
  /\ merges' = [merges EXCEPT ![a] = @ \cup {[base |-> handler[a].base, commit |-> handler[a].theirs]}]
  /\ handler' = [handler EXCEPT ![a] = Idle]
  /\ UNCHANGED <<origin, at, index, files, rebasing, target, before, edits, work,
                 staged, adrift, lost>>

(* The task branch is moved to the squash commit by a plain ref update,    *)
(* whatever it holds by now; Merge::create_direct records the commit.      *)
MergeMovesTaskBranch(a) ==
  /\ handler[a].op = "moved"
  /\ tip' = [tip EXCEPT ![a] = handler[a].merged]
  /\ merges' = [merges EXCEPT ![a] = @ \cup {[base |-> handler[a].base, commit |-> handler[a].merged]}]
  /\ handler' = [handler EXCEPT ![a] = Idle]
  /\ UNCHANGED <<origin, at, index, files, rebasing, target, before, edits, work,
                 staged, adrift, lost>>

-----------------------------------------------------------------------------
(* change_target_branch, and the first half of rebase_task_attempt: the    *)
(* row is written before the worktree is looked at.                        *)
change_target_branch(a, b) ==
  /\ Ask
  /\ handler[a] = Idle
  /\ target[a] # b
  /\ target' = [target EXCEPT ![a] = b]
  /\ UNCHANGED <<tip, origin, at, index, files, rebasing, handler, before,
                 merges, work, staged, adrift, lost>>

rebase_task_attempt(a, b) ==
  /\ Ask
  /\ handler[a] = Idle
  /\ target' = [target EXCEPT ![a] = b]
  /\ handler' = [handler EXCEPT ![a] = [op |-> "rebase", old |-> target[a], new |-> b]]
  /\ UNCHANGED <<tip, origin, at, index, files, rebasing, before, merges, work, staged, adrift, lost>>

(* Files on disk that git does not know.                                   *)
Untracked(c) == {f \in File : index[c][f] = None /\ files[c][f] # None}

(* Replaying commit i on what the commits before it gave: one that does    *)
(* not apply stops the rebase, and so does one that would write a file of  *)
(* the set inWay.                                                          *)
ReplayStep(s, i, h, commits, inWay) ==
  LET parent == Tree(SubSeq(h, 1, Len(h) - Len(commits) + i - 1))
      t == Tree(s.done)
      change == commits[i].change
      clash == {f \in DOMAIN change : t[f] # parent[f] /\ t[f] # change[f]}
      new == {f \in DOMAIN change : t[f] # change[f]}
  IN  IF s.stop # 0 THEN s
      ELSE IF new \cap inWay # {} THEN [s EXCEPT !.stop = i]
      ELSE IF clash # {} THEN [s EXCEPT !.clash = clash, !.stop = i]
      ELSE IF new = {} /\ DOMAIN change # {} THEN s    \* already there: dropped
      ELSE [s EXCEPT !.done = Append(@, [commits[i] EXCEPT !.change = [f \in new |-> change[f]]])]

Replayed(onto, h, commits, inWay) ==
  LET after[i \in 0 .. Len(commits)] ==
        IF i = 0 THEN [done |-> onto, clash |-> {}, stop |-> 0]
        ELSE ReplayStep(after[i - 1], i, h, commits, inWay)
  IN  after[Len(commits)]

(* A merge into Origin has made a local branch of that name: find_branch   *)
(* finds it first, and it is not fetched.                                  *)
Shadowed ==
  \E a \in Attempt : \/ handler[a].op = "moved" /\ handler[a].base = Origin
                     \/ \E m \in merges[a] : m.base = Origin

(* Where a rebase of a with history h onto `onto` leaves the worktree.     *)
RunRebase(a, onto, h, commits) ==
  LET r == Replayed(onto, h, commits, Untracked(a))
      done == Tree(r.done)
      \* The files of the commit that stops which do apply are staged.
      t == [f \in File |->
              IF f \in r.clash THEN Conflict(done[f], commits[r.stop].change[f])
              ELSE IF r.clash # {} /\ f \in DOMAIN commits[r.stop].change
              THEN commits[r.stop].change[f] ELSE done[f]]
      show(old) == [f \in File |-> IF index[a][f] = None /\ t[f] = None THEN old[f] ELSE t[f]]
  IN
  /\ Len(r.done) <= MaxLength
  /\ files' = [files EXCEPT ![a] = show(@)]
  /\ index' = [index EXCEPT ![a] = t]
  /\ IF r.stop = 0
     THEN /\ tip' = [tip EXCEPT ![a] = r.done]
          /\ at' = [at EXCEPT ![a] = OnBranch(a)]
          /\ rebasing' = [rebasing EXCEPT ![a] = NoRebase]
     ELSE /\ at' = [at EXCEPT ![a] = Detached(r.done)]
          /\ rebasing' = [rebasing EXCEPT ![a] =
               [active |-> TRUE,
                todo |-> SubSeq(commits, IF r.clash = {} THEN r.stop ELSE r.stop + 1, Len(commits))]]
          /\ UNCHANGED tip

(* rebase_branch.  A remote base is fetched first.  Git checks the task    *)
(* branch out, refuses if an untracked file would be overwritten, and      *)
(* replays what the branch has since its merge base with the old base.     *)
rebase_branch(a) ==
  /\ handler[a].op = "rebase"
  /\ LET onto == tip[handler[a].new]
         mine == After(tip[a], tip[handler[a].old])
         stale == handler[a].new = Origin /\ ~Shadowed /\ tip[Origin] # origin[Origin]
         overwritten == \E f \in Untracked(a) : {Tree(onto)[f], Tree(tip[a])[f]} # {None}
     IN
     \/ /\ check_worktree_clean(a) /\ ~rebasing[a].active /\ stale
        /\ tip' = [tip EXCEPT ![Origin] = origin[Origin]]      \* fetch_branch_from_remote
        /\ UNCHANGED <<at, index, files, rebasing, handler>>
     \/ /\ check_worktree_clean(a) /\ ~rebasing[a].active /\ ~stale /\ ~overwritten
        /\ RunRebase(a, onto, tip[a], mine)
        /\ handler' = [handler EXCEPT ![a] = Idle]
     \/ /\ ~check_worktree_clean(a) \/ rebasing[a].active \/ (overwritten /\ ~stale)
        /\ handler' = [handler EXCEPT ![a] = Idle]
        /\ UNCHANGED <<tip, at, index, files, rebasing>>
  /\ UNCHANGED <<origin, target, before, merges, edits, work, staged, adrift, lost>>

(* The agent resolves the conflicts with an edit of its own and stages it, *)
(* and either stops there or lets git go on with the commits that remain.  *)
AgentResolves(a) ==
  LET conflicts == {f \in File : InConflict(files[a][f])} IN
  /\ rebasing[a].active /\ conflicts # {}
  /\ edits.agent < MaxEdit
  /\ edits' = [edits EXCEPT !.agent = @ + 1]
  /\ LET fix(t) == [f \in File |-> IF f \in conflicts THEN <<a, edits.agent + 1>> ELSE t[f]] IN
     /\ files' = [files EXCEPT ![a] = fix(@)]
     /\ index' = [index EXCEPT ![a] = fix(@)]
     /\ work' = [work EXCEPT ![a] = fix(@)]
  /\ UNCHANGED <<tip, origin, at, rebasing, target, handler, before, merges,
                 staged, adrift, lost>>

AgentContinues(a) ==
  /\ rebasing[a].active
  /\ \A f \in File : ~InConflict(files[a][f]) /\ files[a][f] = index[a][f]
  /\ LET d == Delta(index[a], Tree(HeadOf(a)))
         done == IF DOMAIN d = {} THEN HeadOf(a) ELSE Append(HeadOf(a), Commit(d, "work")) IN
     RunRebase(a, done, tip[a], rebasing[a].todo)
  /\ UNCHANGED <<origin, target, handler, before, merges, edits, work, staged, adrift, lost>>

get_conflicted_files(a) == {f \in File : InConflict(index[a][f])}

(* The merges, cherry-picks and reverts the code also looks for are made   *)
(* by hand; the server starts rebases only.                                *)
detect_conflict_op(a) == IF rebasing[a].active THEN "Rebase" ELSE "None"

get_worktree_status(a) ==
  [uncommitted |-> Cardinality({f \in File : index[a][f] # None /\ files[a][f] # index[a][f]}
                     \cup {f \in File : index[a][f] # Tree(HeadOf(a))[f]}),
   untracked |-> Cardinality(Untracked(a))]

(* What get_task_attempt_branch_status shows of the worktree.              *)
get_task_attempt_branch_status(a) ==
  [ahead |-> get_branch_status(a, target[a]).ahead,
   behind |-> get_branch_status(a, target[a]).behind,
   has_uncommitted_changes |-> ~check_worktree_clean(a),
   counts |-> get_worktree_status(a),
   is_rebase_in_progress |-> rebasing[a].active,
   conflicted_files |-> get_conflicted_files(a),
   conflict_op |-> IF get_conflicted_files(a) = {} THEN "None" ELSE detect_conflict_op(a)]

(* Mutant: the rebase is always quit. *)
AbortQuits(a) ==
  /\ rebasing[a].active
  /\ rebasing' = [rebasing EXCEPT ![a] = NoRebase]
  /\ adrift' = adrift \cup {a}
  /\ UNCHANGED <<tip, origin, at, index, files, work, target, handler, before,
                 merges, staged, lost>>

(* abort_conflicts: a rebase with unmerged files is aborted, back to the   *)
(* task branch, which git refuses if an untracked file is in the way; one  *)
(* without is quit, which leaves HEAD where it is.                         *)
abort_conflicts(a) ==
  /\ rebasing[a].active
  /\ rebasing' = [rebasing EXCEPT ![a] = NoRebase]
  /\ IF get_conflicted_files(a) # {}
     THEN /\ \A f \in Untracked(a) : Tree(tip[a])[f] = None
          /\ at' = [at EXCEPT ![a] = OnBranch(a)]
          /\ index' = [index EXCEPT ![a] = Tree(tip[a])]
          /\ files' = [files EXCEPT ![a] = [f \in File |->
               IF f \in Untracked(a) THEN @[f] ELSE Tree(tip[a])[f]]]
          /\ work' = [work EXCEPT ![a] = [f \in File |->
               IF index[a][f] = None \/ @[f] \in Marks(Tree(tip[a])[f]) THEN @[f] ELSE None]]
          /\ UNCHANGED adrift
     ELSE adrift' = adrift \cup {a} /\ UNCHANGED <<at, index, files, work>>
  /\ UNCHANGED <<tip, origin, target, handler, before, merges, staged, lost>>

abort_conflicts_task_attempt(a) == Ask /\ abort_conflicts(a)

-----------------------------------------------------------------------------
(* Mutant: a dirty worktree is reset without force. *)
ResetAlways(a, force) == TRUE

(* reconcile_worktree_to_commit and the check of reset_worktree_to_commit. *)
MayReset(a, force) == check_worktree_clean(a) \/ force

(* replace_process and follow_up with a retry: HEAD goes back to           *)
(* before_head_commit with reset --hard; untracked files stay.             *)
reset_worktree_to_commit(a, force) ==
  /\ Ask
  /\ before[a] # HeadOf(a) \/ ~check_worktree_clean(a)
  /\ MayReset(a, force)
  /\ MoveHead(a, before[a])
  /\ LET t == Tree(before[a])
         untracked(f) == index[a][f] = None /\ t[f] = None
     IN
     /\ index' = [index EXCEPT ![a] = t]
     /\ files' = [files EXCEPT ![a] = [f \in File |-> IF untracked(f) THEN @[f] ELSE t[f]]]
     \* The user asked to drop the commits, and the edits only with force; an
     \* untracked file in the way of a tracked one is overwritten by git.
     /\ work' = [work EXCEPT ![a] = [f \in File |->
          IF \/ untracked(f)
             \/ /\ ~force /\ index[a][f] # None
                /\ files[a][f] # Tree(HeadOf(a))[f] /\ ~InConflict(files[a][f])
          THEN @[f] ELSE None]]
  /\ UNCHANGED <<origin, rebasing, target, handler, before, merges, staged, adrift, lost>>

-----------------------------------------------------------------------------
(* push_with_token has no + in its refspec: only a fast-forward is taken.  *)
FastForward(a) == IsPrefix(origin[a], tip[a])

push_to_github(a) ==
  /\ check_worktree_clean(a)
  /\ origin[a] # tip[a]
  /\ FastForward(a)
  /\ origin' = [origin EXCEPT ![a] = tip[a]]
  /\ UNCHANGED <<tip, at, index, files, rebasing, target, handler, before,
                 merges, work, staged, adrift, lost>>

push_task_attempt_branch(a) == Ask /\ push_to_github(a)

-----------------------------------------------------------------------------
GitNext ==
  \/ UserCommits
  \/ \E f \in File : RemoteMoves(f) \/ \E s \in BOOLEAN : UserEdits(f, s)
  \/ \E a \in Attempt :
       \/ \E f \in File : AgentEdits(a, f) \/ delete_task_attempt_file(a, f)
       \/ commit(a) \/ RecordBefore(a) \/ AgentResolves(a) \/ AgentContinues(a)
       \/ merge_task_attempt(a) \/ MergeFindsBase(a) \/ merge_squash_commit(a)
       \/ perform_squash_merge(a) \/ MergeMovesTaskBranch(a)
       \/ \E b \in Target : change_target_branch(a, b) \/ rebase_task_attempt(a, b)
       \/ rebase_branch(a) \/ abort_conflicts_task_attempt(a) \/ push_task_attempt_branch(a)
       \/ \E force \in BOOLEAN : reset_worktree_to_commit(a, force)

GitSpec == GitInit /\ [][GitNext]_gitVars

-----------------------------------------------------------------------------
(* What an agent wrote and has not been merged is in its branch, in its    *)
(* HEAD or on disk (beside the other side, in a conflict): no commit, merge, *)
(* rebase, abort or unforced reset loses it.  (After rebase --quit: adrift.) *)
WorkKept ==
  \A a \in Attempt \ adrift : \A f \in File :
    work[a][f] # None =>
      work[a][f] \in UNION {Marks(v) : v \in {Tree(tip[a])[f], Tree(HeadOf(a))[f], files[a][f]}}

(* A merge that was recorded is in the history of the branch it was made   *)
(* into, and stays there (merge_changes, Merge::create_direct): only a     *)
(* merge in memory that resolved its base before another one moved it      *)
(* takes it out again.                                                     *)
RecordedMergeIsInTarget ==
  \A a \in Attempt : \A m \in merges[a] :
    \/ IsPrefix(m.commit, tip[m.base])
    \/ \E l \in lost : l.base = m.base /\ IsPrefix(m.commit, l.history)

(* The project's own checkout never falls behind its branch: what differs  *)
(* between its index and its HEAD, the user staged, or a merge that        *)
(* stopped in conflict (merge_changes, find_checkout_path_for_branch).     *)
BaseCheckoutInStep ==
  \A f \in File : index[Main][f] # Tree(HeadOf(Main))[f] => f \in staged

(* A worktree in conflict is shown as in a rebase, and as changed: the     *)
(* user is offered the abort that leads out of it.                         *)
ConflictsAreShown ==
  \A a \in Attempt : LET s == get_task_attempt_branch_status(a) IN
    s.conflicted_files # {} =>
      s.conflict_op = "Rebase" /\ s.is_rebase_in_progress /\ s.has_uncommitted_changes

=============================================================================
