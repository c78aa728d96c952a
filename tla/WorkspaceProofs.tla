-------------------------- MODULE WorkspaceProofs --------------------------
(***************************************************************************)
(* Proofs about what a user works in: Worktrees, for every set of attempts *)
(* and runs and every number of starts, crashes and losses; Drafts, for    *)
(* every number of tabs, prompts, versions and crashes; and DiffStream,    *)
(* for all files, contents, budgets, channels and changes.                 *)
(***************************************************************************)
EXTENDS Worktrees, Drafts, DiffStream, Recursion

-----------------------------------------------------------------------------
(* Worktrees.                                                              *)

Rows == [there : BOOLEAN, ref : BOOLEAN, deleted : BOOLEAN, old : BOOLEAN]
Locked == {"check", "clean", "rmdir", "add", "retry", "verify"}
HandlerSteps == Locked \cup {"new", "idle", "wait", "ref", "start", "spawn"}
Handlers == [for : {"create", "follow"}, at : HandlerSteps]
Removing == {"clean", "rmdir"}
JobSteps == Removing \cup {"idle", "mark missing", "next", "mark", "commit"}
Jobs == [at : JobSteps, on : Owner \cup {NoOwner}, todo : SUBSET Owner, all : SUBSET Owner]

WtTypeOK ==
  /\ row \in [Owner -> Rows]
  /\ dir \subseteq Owner
  /\ meta \subseteq Owner
  /\ lock \in [Owner -> Job \cup {Free, "handler"}]
  /\ handler \in [Owner -> Handlers]
  /\ job \in [Job -> Jobs]
  /\ proc \in [Owner -> {"none", "row", "running"}]
  /\ server \in {"down", "scan", "up"}
  /\ count \in [start : Nat, crash : Nat, loss : Nat]
  /\ stuck \subseteq Owner

(* Whoever creates, repairs or removes a worktree holds the lock of its path. *)
LockIsHeld ==
  /\ \A o \in Owner : handler[o].at \in Locked => lock[o] = "handler"
  /\ \A j \in Job : job[j].at \in Removing => job[j].on \in Owner /\ lock[job[j].on] = j

(* What git worktree add made stays registered until the handler has looked,
   unless the user takes the directory away. *)
AddedIsRegistered ==
  \A o \in Owner : handler[o].at = "verify" => (o \in dir => o \in meta)

(* Until the server serves, no request and no job but the scan is under way. *)
QuietUntilUp ==
  server # "up" =>
    /\ \A o \in Owner : handler[o].at \in {"new", "idle"}
    /\ \A j \in Job \ {"scan"} : job[j].at = "idle"

(* Every directory is on the list of the scan, or a row refers to it, or its
   removal failed. *)
ScanCovers ==
  server = "scan" =>
    \A o \in dir \ stuck : o \in job["scan"].todo \/ container_ref_exists(o)

(* The inductive invariant. *)
WtInv ==
  /\ WtTypeOK /\ LockIsHeld /\ AddedIsRegistered /\ QuietUntilUp /\ ScanCovers

-----------------------------------------------------------------------------
(* What the helpers of the actions do to a handler and to a job. *)

LEMMA GotoHandler ==
  ASSUME WtTypeOK, NEW o \in Owner, NEW step \in HandlerSteps, Goto(o, step)
  PROVE  /\ handler' \in [Owner -> Handlers]
         /\ handler'[o].at = step
         /\ \A p \in Owner \ {o} : handler'[p] = handler[p]
  BY DEF WtTypeOK, Goto, Handlers

(* What the statements on a row write. *)
LEMMA RowWrites ==
  ASSUME NEW r \in Rows, NEW b \in BOOLEAN
  PROVE  /\ [r EXCEPT !.ref = TRUE, !.old = FALSE] \in Rows
         /\ [r EXCEPT !.deleted = b, !.old = FALSE] \in Rows
         /\ [r EXCEPT !.old = b] \in Rows
<1>1. [r EXCEPT !.ref = TRUE, !.old = FALSE] \in Rows
  BY DEF Rows
<1>2. [r EXCEPT !.deleted = b, !.old = FALSE] \in Rows
  BY DEF Rows
<1>3. [r EXCEPT !.old = b] \in Rows
  BY DEF Rows
<1>. QED
  BY <1>1, <1>2, <1>3

LEMMA HandlingIs ==
  ASSUME NEW for \in {"create", "follow"}, NEW at \in HandlerSteps
  PROVE  Handling(for, at) \in Handlers /\ Handling(for, at).at = at
  BY DEF Handling, Handlers

LEMMA EndsHandler ==
  ASSUME WtTypeOK, NEW o \in Owner, Ends(o)
  PROVE  /\ handler' \in [Owner -> Handlers]
         /\ handler'[o].at = "idle"
         /\ \A p \in Owner \ {o} : handler'[p] = handler[p]
  BY DEF WtTypeOK, Ends, Handling, Handlers, HandlerSteps

LEMMA SucceedsHandler ==
  ASSUME WtTypeOK, NEW o \in Owner, Succeeds(o)
  PROVE  /\ handler' \in [Owner -> Handlers]
         /\ handler'[o].at \in {"ref", "start"}
         /\ \A p \in Owner \ {o} : handler'[p] = handler[p]
         /\ Unlock(o)
<1>. DEFINE step == IF handler[o].for = "create" THEN "ref" ELSE "start"
<1>1. step \in {"ref", "start"} /\ step \in HandlerSteps
  BY DEF HandlerSteps
<1>2. Goto(o, step) /\ Unlock(o)
  BY DEF Succeeds
<1>. HIDE DEF step
<1>. QED
  BY <1>1, <1>2, GotoHandler

(* The steps at which a job holds no lock. *)
LEMMA ListSteps ==
  {"mark missing", "next", "mark", "commit"} \subseteq JobSteps \ Removing
  BY DEF JobSteps, Removing

LEMMA IdleJobIs == IdleJob \in Jobs /\ IdleJob.at = "idle"
  BY DEF IdleJob, Jobs, JobSteps

LEMMA TodoJob ==
  ASSUME WtTypeOK, NEW j \in Job, NEW at \in JobSteps, NEW todo \in SUBSET Owner,
         Todo(j, at, todo)
  PROVE  /\ job' \in [Job -> Jobs]
         /\ job'[j].at = at
         /\ job'[j].todo = todo
         /\ \A k \in Job \ {j} : job'[k] = job[k]
<1>. DEFINE new == [IdleJob EXCEPT !.at = at, !.todo = todo, !.all = todo]
<1>1. new \in Jobs /\ new.at = at /\ new.todo = todo
  BY DEF IdleJob, Jobs
<1>2. job' = [job EXCEPT ![j] = new]
  BY DEF Todo
<1>. HIDE DEF new
<1>. QED
  BY <1>1, <1>2 DEF WtTypeOK

(* A job goes to another step, with the owner it is on, or done with one. *)
JobGoes(j, at, o) ==
  \/ job' = [job EXCEPT ![j].at = at]
  \/ job' = [job EXCEPT ![j].at = at, ![j].on = o]
  \/ job' = [job EXCEPT ![j].at = at, ![j].todo = @ \ {o}]

LEMMA JobMoves ==
  ASSUME WtTypeOK, NEW j \in Job, NEW at \in JobSteps, NEW o \in Owner, JobGoes(j, at, o)
  PROVE  /\ job' \in [Job -> Jobs]
         /\ job'[j].at = at
         /\ \A k \in Job \ {j} : job'[k] = job[k]
         /\ job'[j].on \in {job[j].on, o}
<1>0. job \in [Job -> Jobs] /\ job[j] \in Jobs
  BY DEF WtTypeOK
<1>1. CASE job' = [job EXCEPT ![j].at = at]
  BY <1>0, <1>1 DEF Jobs
<1>2. CASE job' = [job EXCEPT ![j].at = at, ![j].on = o]
  BY <1>0, <1>2 DEF Jobs
<1>3. CASE job' = [job EXCEPT ![j].at = at, ![j].todo = @ \ {o}]
  BY <1>0, <1>3 DEF Jobs
<1>. QED
  BY <1>1, <1>2, <1>3 DEF JobGoes

(* While the server is up, the locks and the registrations are what is to be
   preserved. *)
LEMMA UpStep ==
  ASSUME WtInv, server = "up", UNCHANGED server, WtTypeOK',
         LockIsHeld', AddedIsRegistered'
  PROVE  WtInv'
  BY DEF WtInv, QuietUntilUp, ScanCovers

(* A handler of a path moves; with the lock only if it has taken it, and
   giving the lock back only if it had it. *)
LEMMA HandlerLocks ==
  ASSUME WtInv, NEW o \in Owner,
         \A p \in Owner \ {o} : handler'[p] = handler[p],
         handler'[o].at \in Locked => lock'[o] = "handler",
         \/ UNCHANGED lock
         \/ lock[o] = Free /\ lock' = [lock EXCEPT ![o] = "handler"]
         \/ handler[o].at \in Locked /\ Unlock(o),
         UNCHANGED job
  PROVE  LockIsHeld'
  BY DEF WtInv, WtTypeOK, LockIsHeld, Unlock, Free, Job

(* A request before and after the critical section, which touches no directory
   and no lock. *)
LEMMA RequestStep ==
  ASSUME WtInv, NEW o \in Owner, server = "up", WtTypeOK',
         handler'[o].at \notin Locked,
         \A p \in Owner \ {o} : handler'[p] = handler[p],
         UNCHANGED <<dir, meta, lock, job, server>>
  PROVE  WtInv'
<1>1. LockIsHeld'
  BY HandlerLocks
<1>2. AddedIsRegistered'
  BY DEF WtInv, AddedIsRegistered, Locked
<1>. QED
  BY <1>1, <1>2, UpStep

-----------------------------------------------------------------------------
(* Requests. *)

LEMMA CreateStep ==
  ASSUME WtInv, NEW o \in Owner, create(o)
  PROVE  WtInv'
<1>0. WtTypeOK
  BY DEF WtInv
<1>1. handler' \in [Owner -> Handlers] /\ handler'[o].at = "wait"
        /\ \A p \in Owner \ {o} : handler'[p] = handler[p]
  BY <1>0, GotoHandler DEF create, HandlerSteps
<1>2. [NoRow EXCEPT !.there = TRUE] \in Rows
  BY DEF NoRow, Rows
<1>3. row' \in [Owner -> Rows] /\ count' \in [start : Nat, crash : Nat, loss : Nat]
  BY <1>0, <1>2 DEF create, WtTypeOK
<1>4. WtTypeOK'
  BY <1>0, <1>1, <1>3 DEF create, WtTypeOK
<1>. QED
  BY <1>1, <1>4, RequestStep DEF create, Locked

LEMMA FollowUpStep ==
  ASSUME WtInv, NEW o \in Owner, ensure_container_exists(o) \/ RunFollowUp(o)
  PROVE  WtInv'
<1>0. WtTypeOK
  BY DEF WtInv
<1>1. PICK at \in {"wait", "start"} : handler' = [handler EXCEPT ![o] = Handling("follow", at)]
  BY DEF ensure_container_exists, RunFollowUp
<1>2. handler' \in [Owner -> Handlers] /\ handler'[o].at \notin Locked
        /\ \A p \in Owner \ {o} : handler'[p] = handler[p]
  BY <1>0, <1>1, HandlingIs DEF WtTypeOK, HandlerSteps, Locked
<1>3. /\ count' = [count EXCEPT !.start = @ + 1]
      /\ server = "up"
      /\ UNCHANGED <<row, dir, meta, lock, job, proc, server, stuck>>
  BY DEF ensure_container_exists, RunFollowUp
<1>4. WtTypeOK'
  BY <1>0, <1>2, <1>3 DEF WtTypeOK
<1>. QED
  BY <1>2, <1>3, <1>4, RequestStep

(* A handler that is anywhere but at its start or its end: the server is up. *)
LEMMA UnderWayIsUp ==
  ASSUME WtInv, NEW o \in Owner, handler[o].at \notin {"new", "idle"}
  PROVE  server = "up"
  BY DEF WtInv, QuietUntilUp

LEMMA TakeLockStep ==
  ASSUME WtInv, NEW o \in Owner, ensure_worktree_exists(o)
  PROVE  WtInv'
<1>0. WtTypeOK /\ server = "up"
  BY UnderWayIsUp DEF WtInv, ensure_worktree_exists, At
<1>1. handler' \in [Owner -> Handlers] /\ handler'[o].at = "check"
        /\ \A p \in Owner \ {o} : handler'[p] = handler[p]
  BY <1>0, GotoHandler DEF ensure_worktree_exists, HandlerSteps, Locked
<1>2. WtTypeOK'
  BY <1>0, <1>1 DEF WtTypeOK, ensure_worktree_exists
<1>3. lock'[o] = "handler"
  BY <1>0 DEF WtTypeOK, ensure_worktree_exists
<1>4. LockIsHeld'
  BY <1>1, <1>3, HandlerLocks DEF ensure_worktree_exists
<1>5. AddedIsRegistered'
  BY <1>1 DEF WtInv, AddedIsRegistered, ensure_worktree_exists
<1>. QED
  BY <1>0, <1>2, <1>4, <1>5, UpStep DEF ensure_worktree_exists

LEMMA CheckStep ==
  ASSUME WtInv, NEW o \in Owner, is_worktree_properly_set_up(o)
  PROVE  WtInv'
<1>0. WtTypeOK /\ server = "up" /\ handler[o].at = "check" /\ handler[o].at \in Locked
  BY UnderWayIsUp DEF WtInv, is_worktree_properly_set_up, At, Locked
<1>1. \/ Succeeds(o)
      \/ Goto(o, "clean") /\ UNCHANGED lock
  BY DEF is_worktree_properly_set_up
<1>2. lock[o] = "handler"
  BY <1>0 DEF WtInv, LockIsHeld
<1>3. /\ handler' \in [Owner -> Handlers]
      /\ \A p \in Owner \ {o} : handler'[p] = handler[p]
      /\ handler'[o].at # "verify"
      /\ handler'[o].at \in Locked => lock'[o] = "handler"
      /\ UNCHANGED lock \/ Unlock(o)
  BY <1>0, <1>1, <1>2, SucceedsHandler, GotoHandler DEF HandlerSteps, Locked
<1>4. lock' \in [Owner -> Job \cup {Free, "handler"}]
  BY <1>0, <1>3 DEF WtTypeOK, Unlock
<1>5. WtTypeOK'
  BY <1>0, <1>3, <1>4 DEF WtTypeOK, is_worktree_properly_set_up
<1>6. LockIsHeld'
  BY <1>0, <1>3, HandlerLocks DEF is_worktree_properly_set_up
<1>7. AddedIsRegistered'
  BY <1>3 DEF WtInv, AddedIsRegistered, is_worktree_properly_set_up
<1>. QED
  BY <1>0, <1>5, <1>6, <1>7, UpStep DEF is_worktree_properly_set_up

(* Removing what is left of the path o takes no other path's registration away
   while its directory is there: worktree prune drops the missing ones only. *)
LEMMA RemovalSparesOthers ==
  ASSUME WtTypeOK, NEW o \in Owner, Unregister(o) \/ RemoveDir(o) \/ RemoveDirFails(o)
  PROVE  /\ dir' \subseteq Owner /\ meta' \subseteq Owner
         /\ dir' \subseteq dir
         /\ \A p \in Owner \ {o} : p \in dir' => p \in dir /\ (p \in meta => p \in meta')
  BY DEF WtTypeOK, Unregister, RemoveDir, RemoveDirFails

LEMMA RecreateStep ==
  ASSUME WtInv, NEW o \in Owner, recreate_worktree_internal(o)
  PROVE  WtInv'
<1>0. WtTypeOK /\ server = "up" /\ handler[o].at \in Locked
  BY UnderWayIsUp DEF WtInv, recreate_worktree_internal, At, Locked
<1>1. Unregister(o) \/ RemoveDir(o) \/ RemoveDirFails(o)
  BY DEF recreate_worktree_internal
<1>2. \/ Goto(o, "rmdir") /\ UNCHANGED lock
      \/ Goto(o, "add") /\ UNCHANGED lock
      \/ Fails(o)
  BY DEF recreate_worktree_internal
<1>3. lock[o] = "handler"
  BY <1>0 DEF WtInv, LockIsHeld
<1>4. /\ handler' \in [Owner -> Handlers]
      /\ \A p \in Owner \ {o} : handler'[p] = handler[p]
      /\ handler'[o].at # "verify"
      /\ handler'[o].at \in Locked => lock'[o] = "handler"
      /\ UNCHANGED lock \/ Unlock(o)
  BY <1>0, <1>2, <1>3, EndsHandler, GotoHandler DEF HandlerSteps, Locked, Fails
<1>5. lock' \in [Owner -> Job \cup {Free, "handler"}]
  BY <1>0, <1>4 DEF WtTypeOK, Unlock
<1>6. stuck' \subseteq Owner
  BY <1>0 DEF WtTypeOK, recreate_worktree_internal, RemoveDir, RemoveDirFails
<1>7. WtTypeOK'
  BY <1>0, <1>1, <1>4, <1>5, <1>6, RemovalSparesOthers
     DEF WtTypeOK, recreate_worktree_internal
<1>8. LockIsHeld'
  BY <1>0, <1>4, HandlerLocks DEF recreate_worktree_internal
<1>9. AddedIsRegistered'
  BY <1>0, <1>1, <1>4, RemovalSparesOthers DEF WtInv, AddedIsRegistered
<1>. QED
  BY <1>0, <1>7, <1>8, <1>9, UpStep DEF recreate_worktree_internal

LEMMA AddStep ==
  ASSUME WtInv, NEW o \in Owner, create_worktree_with_retry(o)
  PROVE  WtInv'
<1>0. WtTypeOK /\ server = "up" /\ handler[o].at \in Locked
  BY UnderWayIsUp DEF WtInv, create_worktree_with_retry, At, Locked
<1>1. \/ Goto(o, "verify") /\ UNCHANGED lock
      \/ Goto(o, "retry") /\ UNCHANGED lock
      \/ Fails(o)
      \/ Succeeds(o)
  BY DEF create_worktree_with_retry
<1>2. lock[o] = "handler"
  BY <1>0 DEF WtInv, LockIsHeld
<1>3. /\ handler' \in [Owner -> Handlers]
      /\ \A p \in Owner \ {o} : handler'[p] = handler[p]
      /\ handler'[o].at \in Locked => lock'[o] = "handler"
      /\ UNCHANGED lock \/ Unlock(o)
  BY <1>0, <1>1, <1>2, EndsHandler, GotoHandler, SucceedsHandler DEF HandlerSteps, Locked, Fails
<1>4. lock' \in [Owner -> Job \cup {Free, "handler"}]
  BY <1>0, <1>3 DEF WtTypeOK, Unlock
<1>5. /\ dir' \subseteq Owner /\ meta' \subseteq Owner
      /\ \A p \in Owner \ {o} : (p \in dir' <=> p \in dir) /\ (p \in meta' <=> p \in meta)
  BY <1>0 DEF WtTypeOK, create_worktree_with_retry
<1>6. WtTypeOK'
  BY <1>0, <1>3, <1>4, <1>5 DEF WtTypeOK, create_worktree_with_retry
<1>7. LockIsHeld'
  BY <1>0, <1>3, HandlerLocks DEF create_worktree_with_retry
<1>8. handler'[o].at = "verify" => o \in meta'
  <2>1. CASE dir' = dir \cup {o} /\ meta' = meta \cup {o}
    BY <2>1
  <2>2. CASE Goto(o, "retry")
    BY <1>0, <2>2, GotoHandler DEF HandlerSteps, Locked
  <2>3. CASE Fails(o)
    BY <1>0, <2>3, EndsHandler DEF Fails
  <2>4. CASE Succeeds(o)
    BY <1>0, <2>4, SucceedsHandler
  <2>. QED  BY <2>1, <2>2, <2>3, <2>4 DEF create_worktree_with_retry
<1>9. AddedIsRegistered'
  BY <1>3, <1>5, <1>8 DEF WtInv, AddedIsRegistered
<1>. QED
  BY <1>0, <1>6, <1>7, <1>9, UpStep DEF create_worktree_with_retry

LEMMA RefStep ==
  ASSUME WtInv, NEW o \in Owner, update_container_ref(o)
  PROVE  WtInv'
<1>0. WtTypeOK /\ server = "up"
  BY UnderWayIsUp DEF WtInv, update_container_ref, At
<1>1. /\ handler' \in [Owner -> Handlers]
      /\ \A p \in Owner \ {o} : handler'[p] = handler[p]
      /\ handler'[o].at \notin Locked
  BY <1>0, GotoHandler, EndsHandler DEF update_container_ref, HandlerSteps, Locked
<1>2. row' \in [Owner -> Rows]
  <2>1. [row[o] EXCEPT !.ref = TRUE, !.old = FALSE] \in Rows
    BY <1>0, RowWrites DEF WtTypeOK
  <2>2. UNCHANGED row \/ row' = [row EXCEPT ![o].ref = TRUE, ![o].old = FALSE]
    BY DEF update_container_ref
  <2>3. UNCHANGED row \/ row' = [row EXCEPT ![o] = [row[o] EXCEPT !.ref = TRUE, !.old = FALSE]]
    BY <1>0, <2>2 DEF WtTypeOK
  <2>. QED  BY <1>0, <2>1, <2>3 DEF WtTypeOK
<1>3. WtTypeOK'
  BY <1>0, <1>1, <1>2 DEF WtTypeOK, update_container_ref
<1>. QED
  BY <1>0, <1>1, <1>3, RequestStep DEF update_container_ref

LEMMA StartStep ==
  ASSUME WtInv, NEW o \in Owner, start_execution(o)
  PROVE  WtInv'
<1>0. WtTypeOK /\ server = "up"
  BY UnderWayIsUp DEF WtInv, start_execution, At
<1>1. /\ handler' \in [Owner -> Handlers]
      /\ \A p \in Owner \ {o} : handler'[p] = handler[p]
      /\ handler'[o].at \notin Locked
  BY <1>0, GotoHandler, EndsHandler DEF start_execution, HandlerSteps, Locked
<1>2. proc' \in [Owner -> {"none", "row", "running"}]
  BY <1>0 DEF WtTypeOK, start_execution
<1>3. WtTypeOK'
  BY <1>0, <1>1, <1>2 DEF WtTypeOK, start_execution
<1>. QED
  BY <1>0, <1>1, <1>3, RequestStep DEF start_execution

-----------------------------------------------------------------------------
(* The process, the clock and the user. *)

(* HandlerSteps that change only rows, processes and directories that the user takes
   away disturb no lock. *)
LEMMA OutsideStep ==
  ASSUME WtInv, WtTypeOK', dir' \subseteq dir,
         \A o \in Owner : container_ref_exists(o) => container_ref_exists(o)',
         UNCHANGED <<meta, lock, handler, job, server, stuck>>
  PROVE  WtInv'
<1>1. LockIsHeld' /\ QuietUntilUp'
  BY DEF WtInv, LockIsHeld, QuietUntilUp
<1>2. AddedIsRegistered'
  BY DEF WtInv, AddedIsRegistered
<1>3. ScanCovers'
  BY DEF WtInv, WtTypeOK, ScanCovers
<1>. QED
  BY <1>1, <1>2, <1>3 DEF WtInv

LEMMA OldRow ==
  ASSUME WtTypeOK, NEW o \in Owner, NEW b \in BOOLEAN,
         row' = [row EXCEPT ![o].old = b]
  PROVE  /\ row' \in [Owner -> Rows]
         /\ \A p \in Owner : container_ref_exists(p)' <=> container_ref_exists(p)
<1>1. [row[o] EXCEPT !.old = b] \in Rows
  BY RowWrites DEF WtTypeOK
<1>2. row' = [row EXCEPT ![o] = [row[o] EXCEPT !.old = b]]
  BY DEF WtTypeOK
<1>3. row' \in [Owner -> Rows]
  BY <1>1, <1>2 DEF WtTypeOK
<1>4. row'[o].there = row[o].there
  BY DEF WtTypeOK, Rows
<1>5. row'[o].ref = row[o].ref
  BY DEF WtTypeOK, Rows
<1>6. \A p \in Owner \ {o} : row'[p] = row[p]
  BY DEF WtTypeOK
<1>7. ASSUME NEW p \in Owner
      PROVE  container_ref_exists(p)' <=> container_ref_exists(p)
  <2>1. CASE p = o
    BY <1>4, <1>5, <2>1 DEF container_ref_exists
  <2>2. CASE p # o
    BY <1>6, <2>2 DEF container_ref_exists
  <2>. QED  BY <2>1, <2>2
<1>. QED
  BY <1>3, <1>7

LEMMA ProcessStep ==
  ASSUME WtInv, NEW o \in Owner, ProcessEnds(o) \/ TimePasses(o) \/ UserRemoves(o)
  PROVE  WtInv'
<1>0. WtTypeOK
  BY DEF WtInv
<1>1. CASE ProcessEnds(o)
  <2>1. WtTypeOK'
    BY <1>0, <1>1, OldRow DEF WtTypeOK, ProcessEnds
  <2>. QED  BY <1>0, <1>1, <2>1, OldRow, OutsideStep DEF ProcessEnds
<1>2. CASE TimePasses(o)
  <2>1. WtTypeOK'
    BY <1>0, <1>2, OldRow DEF WtTypeOK, TimePasses
  <2>. QED  BY <1>0, <1>2, <2>1, OldRow, OutsideStep DEF TimePasses
<1>3. CASE UserRemoves(o)
  <2>1. WtTypeOK'
    BY <1>0, <1>3 DEF WtTypeOK, UserRemoves
  <2>. QED  BY <1>3, <2>1, OutsideStep DEF UserRemoves, container_ref_exists
<1>. QED
  BY <1>1, <1>2, <1>3

-----------------------------------------------------------------------------
(* Background jobs. *)

LEMMA JobIsUp ==
  ASSUME WtInv, NEW j \in Job \ {"scan"}, job[j].at # "idle"
  PROVE  server = "up"
  BY DEF WtInv, QuietUntilUp

(* A job moves; removing only with the lock it has taken, and giving back only
   a lock of its own. *)
LEMMA JobLocks ==
  ASSUME WtInv, NEW j \in Job,
         \A k \in Job \ {j} : job'[k] = job[k],
         job'[j].at \in Removing => job'[j].on \in Owner /\ lock'[job'[j].on] = j,
         \/ UNCHANGED lock
         \/ \E o \in Owner : lock[o] = Free /\ lock' = [lock EXCEPT ![o] = j]
         \/ \E o \in Owner : lock[o] = j /\ Unlock(o),
         UNCHANGED handler
  PROVE  LockIsHeld'
  BY DEF WtInv, WtTypeOK, LockIsHeld, Unlock, Free, Job

(* A job's step that takes no directory away. *)
LEMMA ListStep ==
  ASSUME WtInv, NEW j \in Job, server = "up", WtTypeOK',
         \A k \in Job \ {j} : job'[k] = job[k],
         job'[j].at \notin Removing,
         UNCHANGED <<dir, meta, lock, handler, server>>
  PROVE  WtInv'
<1>1. LockIsHeld'
  BY JobLocks
<1>2. AddedIsRegistered'
  BY DEF WtInv, AddedIsRegistered
<1>. QED
  BY <1>1, <1>2, UpStep

LEMMA SweepStep ==
  ASSUME WtInv, check_externally_deleted_worktrees \/ cleanup_expired_attempts
  PROVE  WtInv'
<1>0. WtTypeOK /\ "sweep" \in Job /\ "sweep" # "scan" /\ Attempt \subseteq Owner
  BY DEF WtInv, Job, Owner
<1>1. server = "up"
  BY <1>0, JobIsUp DEF check_externally_deleted_worktrees, cleanup_expired_attempts
<1>2. \E at \in {"mark missing", "next"}, todo \in SUBSET Owner : Todo("sweep", at, todo)
  <2>1. {a \in Attempt : row[a].there /\ ~row[a].deleted /\ row[a].ref /\ a \notin dir}
            \in SUBSET Owner
    BY <1>0
  <2>2. find_expired_for_cleanup \in SUBSET Owner
    BY <1>0 DEF find_expired_for_cleanup
  <2>. QED
    BY <2>1, <2>2 DEF check_externally_deleted_worktrees, cleanup_expired_attempts
<1>3. /\ job' \in [Job -> Jobs]
      /\ \A k \in Job \ {"sweep"} : job'[k] = job[k]
      /\ job'["sweep"].at \notin Removing
  BY <1>0, <1>2, TodoJob DEF JobSteps, Removing
<1>4. UNCHANGED <<row, dir, meta, lock, handler, proc, server, count, stuck>>
  BY DEF check_externally_deleted_worktrees, cleanup_expired_attempts
<1>5. WtTypeOK'
  BY <1>0, <1>3, <1>4 DEF WtTypeOK
<1>. QED
  BY <1>0, <1>1, <1>3, <1>4, <1>5, ListStep

LEMMA MarkDeletedRow ==
  ASSUME WtTypeOK, NEW a \in Owner, mark_worktree_deleted(a)
  PROVE  row' \in [Owner -> Rows]
<1>1. row[a] \in Rows
  BY DEF WtTypeOK
<1>2. row[a].there \in BOOLEAN
  BY <1>1 DEF Rows
<1>. DEFINE new == [row[a] EXCEPT !.deleted = row[a].there, !.old = FALSE]
<1>3. new \in Rows
  BY <1>1, <1>2, RowWrites
<1>4. row' = [row EXCEPT ![a] = new]
  BY DEF WtTypeOK, mark_worktree_deleted
<1>. HIDE DEF new
<1>. QED
  BY <1>3, <1>4 DEF WtTypeOK

LEMMA MarkJobStep ==
  ASSUME WtInv, NEW a \in Attempt, MarkMissing(a) \/ cleanup_expired_attempt(a)
  PROVE  WtInv'
<1>0. WtTypeOK /\ "sweep" \in Job /\ "sweep" # "scan" /\ a \in Owner
  BY DEF WtInv, Job, Owner
<1>1. server = "up"
  BY <1>0, JobIsUp DEF MarkMissing, cleanup_expired_attempt
<1>2. row' \in [Owner -> Rows]
  BY <1>0, MarkDeletedRow DEF MarkMissing, cleanup_expired_attempt
<1>3. /\ job' \in [Job -> Jobs]
      /\ \A k \in Job \ {"sweep"} : job'[k] = job[k]
      /\ job'["sweep"].at \notin Removing
  <2>1. CASE MarkMissing(a)
    <3>1. job' = [job EXCEPT !["sweep"].todo = @ \ {a}] /\ job["sweep"].at = "mark missing"
      BY <2>1 DEF MarkMissing
    <3>2. job' = [job EXCEPT !["sweep"].at = "mark missing", !["sweep"].todo = @ \ {a}]
      BY <1>0, <3>1 DEF WtTypeOK, Jobs
    <3>3. JobGoes("sweep", "mark missing", a)
      BY <3>2 DEF JobGoes
    <3>. QED  BY <1>0, <3>3, JobMoves, ListSteps
  <2>2. CASE cleanup_expired_attempt(a)
    <3>1. JobGoes("sweep", "next", a)
      BY <2>2 DEF JobGoes, cleanup_expired_attempt
    <3>. QED  BY <1>0, <3>1, JobMoves, ListSteps
  <2>. QED  BY <2>1, <2>2
<1>4. UNCHANGED <<dir, meta, lock, handler, proc, server, count, stuck>>
  BY DEF MarkMissing, cleanup_expired_attempt
<1>5. WtTypeOK'
  BY <1>0, <1>2, <1>3, <1>4 DEF WtTypeOK
<1>. QED
  BY <1>0, <1>1, <1>3, <1>4, <1>5, ListStep

LEMMA DeleteStep ==
  ASSUME WtInv, delete_task \/ delete_project
  PROVE  WtInv'
<1>0. WtTypeOK /\ "delete" \in Job /\ "delete" # "scan" /\ Attempt \subseteq Owner
  BY DEF WtInv, Job, Owner
<1>1. server = "up" /\ UNCHANGED <<dir, meta, lock, handler, server, count, stuck, proc>>
  BY DEF delete_task, delete_project
<1>2. NoRow \in Rows
  BY DEF NoRow, Rows
<1>3. row' \in [Owner -> Rows]
  <2>1. CASE row' = [o \in Owner |-> IF o \in Attempt THEN NoRow ELSE row[o]]
    BY <1>0, <1>2, <2>1 DEF WtTypeOK
  <2>2. CASE row' = [o \in Owner |-> NoRow]
    BY <1>2, <2>2
  <2>3. CASE UNCHANGED row
    BY <1>0, <2>3 DEF WtTypeOK
  <2>. QED  BY <2>1, <2>2, <2>3 DEF delete_task, delete_project
<1>4. /\ job' \in [Job -> Jobs]
      /\ \A k \in Job \ {"delete"} : job'[k] = job[k]
      /\ UNCHANGED job \/ job'["delete"].at \notin Removing
  <2>1. CASE Todo("delete", "commit", {a \in Attempt : row[a].there /\ row[a].ref})
    <3>1. {a \in Attempt : row[a].there /\ row[a].ref} \in SUBSET Owner
      BY <1>0
    <3>2. "commit" \in JobSteps /\ "commit" \notin Removing
      BY DEF JobSteps, Removing
    <3>. QED  BY <1>0, <2>1, <3>1, <3>2, TodoJob
  <2>2. CASE job' = [job EXCEPT !["delete"].at = "next"]
    <3>1. job["delete"] \in Jobs /\ "next" \in JobSteps /\ "next" \notin Removing
      BY <1>0 DEF WtTypeOK, JobSteps, Removing
    <3>2. [job["delete"] EXCEPT !.at = "next"] \in Jobs /\ [job["delete"] EXCEPT !.at = "next"].at = "next"
      BY <3>1 DEF Jobs
    <3>3. job' = [job EXCEPT !["delete"] = [job["delete"] EXCEPT !.at = "next"]]
      BY <2>2
    <3>. QED  BY <1>0, <3>1, <3>2, <3>3 DEF WtTypeOK
  <2>3. CASE job' = [job EXCEPT !["delete"] = IdleJob]
    BY <1>0, <2>3, IdleJobIs DEF WtTypeOK, Removing
  <2>4. CASE UNCHANGED job
    BY <1>0, <2>4 DEF WtTypeOK
  <2>. QED  BY <2>1, <2>2, <2>3, <2>4 DEF delete_task, delete_project
<1>5. WtTypeOK'
  BY <1>0, <1>1, <1>3, <1>4 DEF WtTypeOK
<1>6. CASE UNCHANGED job
  <2>1. LockIsHeld' /\ AddedIsRegistered'
    BY <1>1, <1>6 DEF WtInv, LockIsHeld, AddedIsRegistered
  <2>. QED  BY <1>1, <1>5, <2>1, UpStep
<1>7. CASE job'["delete"].at \notin Removing
  BY <1>0, <1>1, <1>4, <1>5, <1>7, ListStep
<1>. QED
  BY <1>4, <1>6, <1>7

LEMMA ArchiveStep ==
  ASSUME WtInv, handle_task_archive
  PROVE  WtInv'
<1>0. WtTypeOK /\ "archive" \in Job /\ "archive" # "scan" /\ Attempt \subseteq Owner
  BY DEF WtInv, Job, Owner
<1>. DEFINE new == [IdleJob EXCEPT !.at = "next",
                       !.todo = {a \in Attempt : row[a].there /\ row[a].ref},
                       !.all = {a \in Attempt : row[a].there}]
<1>1. new \in Jobs /\ new.at \notin Removing
  BY <1>0 DEF IdleJob, Jobs, JobSteps, Removing
<1>2. job' = [job EXCEPT !["archive"] = new]
  BY DEF handle_task_archive
<1>. HIDE DEF new
<1>3. /\ job' \in [Job -> Jobs]
      /\ \A k \in Job \ {"archive"} : job'[k] = job[k]
      /\ job'["archive"].at \notin Removing
  BY <1>0, <1>1, <1>2 DEF WtTypeOK
<1>4. server = "up" /\ UNCHANGED <<row, dir, meta, lock, handler, proc, server, count, stuck>>
  BY DEF handle_task_archive
<1>5. WtTypeOK'
  BY <1>0, <1>3, <1>4 DEF WtTypeOK
<1>. QED
  BY <1>0, <1>3, <1>4, <1>5, ListStep

(* A job takes the lock of the next path of its list. *)
LEMMA CleanupLockStep ==
  ASSUME WtInv, NEW j \in Job \ {"scan"}, NEW o \in Owner, cleanup_worktree(j, o)
  PROVE  WtInv'
<1>0. WtTypeOK /\ server = "up"
  BY JobIsUp DEF WtInv, cleanup_worktree
<1>1. /\ job' \in [Job -> Jobs]
      /\ \A k \in Job \ {j} : job'[k] = job[k]
      /\ job'[j].on = o
  <2>1. job' = [job EXCEPT ![j].at = "clean", ![j].on = o]
    BY DEF cleanup_worktree
  <2>2. job'[j].on = o
    BY <1>0, <2>1 DEF WtTypeOK, Jobs
  <2>3. JobGoes(j, "clean", o)
    BY <2>1 DEF JobGoes
  <2>. QED  BY <1>0, <2>2, <2>3, JobMoves DEF JobSteps, Removing
<1>2. lock' \in [Owner -> Job \cup {Free, "handler"}] /\ lock'[o] = j
  BY <1>0 DEF WtTypeOK, cleanup_worktree
<1>3. WtTypeOK'
  BY <1>0, <1>1, <1>2 DEF WtTypeOK, cleanup_worktree
<1>4. LockIsHeld'
  <2>1. /\ lock[o] = Free /\ lock' = [lock EXCEPT ![o] = j]
        /\ UNCHANGED handler
    BY DEF cleanup_worktree
  <2>2. \E p \in Owner : lock[p] = Free /\ lock' = [lock EXCEPT ![p] = j]
    BY <2>1
  <2>3. job'[j].on \in Owner /\ lock'[job'[j].on] = j
    BY <1>1, <1>2
  <2>. QED  BY <1>1, <2>1, <2>2, <2>3, JobLocks
<1>5. AddedIsRegistered'
  BY DEF WtInv, AddedIsRegistered, cleanup_worktree
<1>. QED
  BY <1>0, <1>3, <1>4, <1>5, UpStep DEF cleanup_worktree

(* The removal itself: because of the lock, no request is in its critical
   section for the path. *)
LEMMA CleanupStep ==
  ASSUME WtInv, NEW j \in Job \ {"scan"}, NEW o \in Owner,
         comprehensive_worktree_cleanup(j, o)
  PROVE  WtInv'
<1>0. WtTypeOK /\ server = "up" /\ job[j].at \in Removing /\ job[j].on = o
  BY JobIsUp DEF WtInv, comprehensive_worktree_cleanup, Removing
<1>1. lock[o] = j
  BY <1>0 DEF WtInv, LockIsHeld
<1>2. Unregister(o) \/ RemoveDir(o) \/ RemoveDirFails(o)
  BY DEF comprehensive_worktree_cleanup
<1>3. /\ job' \in [Job -> Jobs]
      /\ \A k \in Job \ {j} : job'[k] = job[k]
      /\ job'[j].at \in Removing => job'[j].on = o /\ UNCHANGED lock
      /\ UNCHANGED lock \/ Unlock(o)
  <2>1. CASE /\ job' = [job EXCEPT ![j].at = "rmdir"]
             /\ UNCHANGED lock
    <3>1. JobGoes(j, "rmdir", o)
      BY <2>1 DEF JobGoes
    <3>. QED  BY <1>0, <2>1, <3>1, JobMoves DEF JobSteps, Removing
  <2>2. CASE /\ job' = [job EXCEPT ![j].at = IF j = "sweep" THEN "mark" ELSE "next",
                              ![j].todo = @ \ {o}]
             /\ Unlock(o)
    <3>. DEFINE at == IF j = "sweep" THEN "mark" ELSE "next"
    <3>1. at \in JobSteps /\ at \notin Removing
      BY DEF JobSteps, Removing
    <3>2. JobGoes(j, at, o)
      BY <2>2 DEF JobGoes
    <3>. HIDE DEF at
    <3>. QED  BY <1>0, <2>2, <3>1, <3>2, JobMoves
  <2>3. CASE /\ job' = [job EXCEPT ![j].at = "next", ![j].todo = @ \ {o}]
             /\ Unlock(o)
    <3>1. JobGoes(j, "next", o)
      BY <2>3 DEF JobGoes
    <3>2. "next" \in JobSteps /\ "next" \notin Removing
      BY ListSteps
    <3>3. /\ job' \in [Job -> Jobs] /\ job'[j].at = "next"
          /\ \A k \in Job \ {j} : job'[k] = job[k]
      BY <1>0, <3>1, <3>2, JobMoves
    <3>. QED  BY <2>3, <3>2, <3>3
  <2>. QED  BY <2>1, <2>2, <2>3 DEF comprehensive_worktree_cleanup
<1>4. lock' \in [Owner -> Job \cup {Free, "handler"}]
  BY <1>0, <1>3 DEF WtTypeOK, Unlock
<1>5. stuck' \subseteq Owner
  BY <1>0 DEF WtTypeOK, comprehensive_worktree_cleanup, RemoveDir, RemoveDirFails
<1>6. WtTypeOK'
  BY <1>0, <1>2, <1>3, <1>4, <1>5, RemovalSparesOthers
     DEF WtTypeOK, comprehensive_worktree_cleanup
<1>7. LockIsHeld'
  BY <1>1, <1>3, JobLocks DEF comprehensive_worktree_cleanup
<1>8. AddedIsRegistered'
  <2>1. handler[o].at # "verify"
    BY <1>1 DEF WtInv, LockIsHeld, Locked, Job
  <2>. QED
    BY <1>0, <1>2, <2>1, RemovalSparesOthers
       DEF WtInv, AddedIsRegistered, comprehensive_worktree_cleanup
<1>. QED
  BY <1>0, <1>6, <1>7, <1>8, UpStep DEF comprehensive_worktree_cleanup

LEMMA ListDoneStep ==
  ASSUME WtInv, NEW j \in Job \ {"scan"}, cleanup_worktrees_direct(j)
  PROVE  WtInv'
<1>0. WtTypeOK /\ server = "up"
  BY JobIsUp DEF WtInv, cleanup_worktrees_direct
<1>1. /\ job' \in [Job -> Jobs]
      /\ \A k \in Job \ {j} : job'[k] = job[k]
      /\ job'[j].at \notin Removing
  BY <1>0, IdleJobIs DEF WtTypeOK, cleanup_worktrees_direct, Removing
<1>2. row' \in [Owner -> Rows]
  <2>1. \A o \in Owner : [row[o] EXCEPT !.deleted = TRUE, !.old = FALSE] \in Rows
    BY <1>0, RowWrites DEF WtTypeOK
  <2>2. CASE UNCHANGED row
    BY <1>0, <2>2 DEF WtTypeOK
  <2>3. CASE row' = [o \in Owner |-> IF o \in job[j].all /\ row[o].there
                                     THEN [row[o] EXCEPT !.deleted = TRUE, !.old = FALSE]
                                     ELSE row[o]]
    <3>1. \A o \in Owner : row[o] \in Rows
      BY <1>0 DEF WtTypeOK
    <3>. QED  BY <2>1, <2>3, <3>1, Zenon
  <2>. QED  BY <2>2, <2>3 DEF cleanup_worktrees_direct
<1>3. WtTypeOK'
  BY <1>0, <1>1, <1>2 DEF WtTypeOK, cleanup_worktrees_direct
<1>. QED
  BY <1>0, <1>1, <1>3, ListStep DEF cleanup_worktrees_direct

-----------------------------------------------------------------------------
(* Restart. *)

LEMMA CrashStep ==
  ASSUME WtInv, Crash
  PROVE  WtInv'
<1>0. WtTypeOK
  BY DEF WtInv
<1>1. handler' \in [Owner -> Handlers] /\ \A o \in Owner : handler'[o].at \in {"new", "idle"}
  BY <1>0 DEF WtTypeOK, Crash, At, Handling, Handlers, HandlerSteps
<1>2. job' \in [Job -> Jobs] /\ \A j \in Job : job'[j].at = "idle"
  BY IdleJobIs DEF Crash
<1>3. WtTypeOK'
  BY <1>0, <1>1, <1>2 DEF WtTypeOK, Crash
<1>4. (LockIsHeld /\ AddedIsRegistered)'
  BY <1>1, <1>2 DEF LockIsHeld, AddedIsRegistered, Locked, Removing
<1>5. (QuietUntilUp /\ ScanCovers)'
  BY <1>1, <1>2 DEF QuietUntilUp, ScanCovers, Crash
<1>. QED
  BY <1>3, <1>4, <1>5 DEF WtInv

(* The scan begins with every directory on its list. *)
LEMMA ScanBeginsStep ==
  ASSUME WtInv, spawn_worktree_cleanup
  PROVE  WtInv'
<1>0. WtTypeOK /\ "scan" \in Job
  BY DEF WtInv, Job
<1>1. /\ job' \in [Job -> Jobs]
      /\ job'["scan"].at = "next" /\ job'["scan"].todo = dir
      /\ \A k \in Job \ {"scan"} : job'[k] = job[k]
  BY <1>0, TodoJob, ListSteps DEF spawn_worktree_cleanup, WtTypeOK
<1>2. WtTypeOK'
  BY <1>0, <1>1 DEF WtTypeOK, spawn_worktree_cleanup
<1>3. LockIsHeld'
  BY <1>0, <1>1, JobLocks, ListSteps DEF spawn_worktree_cleanup
<1>4. AddedIsRegistered'
  BY DEF WtInv, AddedIsRegistered, spawn_worktree_cleanup
<1>5. QuietUntilUp'
  BY <1>1 DEF WtInv, QuietUntilUp, spawn_worktree_cleanup
<1>6. ScanCovers'
  BY <1>1 DEF ScanCovers, spawn_worktree_cleanup
<1>. QED
  BY <1>2, <1>3, <1>4, <1>5, <1>6 DEF WtInv

(* What the scan takes from its list is referred to, removed or stuck. *)
LEMMA ScanStep ==
  ASSUME WtInv, NEW o \in Owner, cleanup_orphaned_worktrees(o)
  PROVE  WtInv'
<1>0. WtTypeOK /\ "scan" \in Job /\ server = "scan"
  BY DEF WtInv, Job, cleanup_orphaned_worktrees
<1>1. /\ job' \in [Job -> Jobs]
      /\ job'["scan"].at = job["scan"].at /\ job'["scan"].on = job["scan"].on
      /\ job'["scan"].todo = job["scan"].todo \ {o}
      /\ \A k \in Job \ {"scan"} : job'[k] = job[k]
  BY <1>0 DEF WtTypeOK, Jobs, cleanup_orphaned_worktrees
<1>2. /\ dir' \subseteq dir /\ meta' \subseteq meta /\ stuck \subseteq stuck'
      /\ stuck' \subseteq stuck \cup {o}
      /\ o \in dir' => container_ref_exists(o) \/ o \in stuck'
  BY DEF cleanup_orphaned_worktrees, RemoveDir, RemoveDirFails, simple_worktree_cleanup
<1>3. UNCHANGED <<row, lock, handler, proc, server, count>>
  BY DEF cleanup_orphaned_worktrees
<1>4. WtTypeOK'
  BY <1>0, <1>1, <1>2, <1>3 DEF WtTypeOK
<1>5. LockIsHeld'
  BY <1>1, <1>3 DEF WtInv, LockIsHeld
<1>6. \A p \in Owner : handler'[p].at # "verify"
  BY <1>0, <1>3 DEF WtInv, QuietUntilUp
<1>7. AddedIsRegistered'
  BY <1>6 DEF AddedIsRegistered
<1>8. QuietUntilUp'
  BY <1>1, <1>3 DEF WtInv, QuietUntilUp
<1>9. ScanCovers'
  BY <1>0, <1>1, <1>2, <1>3 DEF WtInv, ScanCovers, container_ref_exists
<1>. QED
  BY <1>4, <1>5, <1>7, <1>8, <1>9 DEF WtInv

LEMMA ServeStep ==
  ASSUME WtInv, Serve
  PROVE  WtInv'
<1>0. WtTypeOK /\ "scan" \in Job
  BY DEF WtInv, Job
<1>1. /\ job' \in [Job -> Jobs]
      /\ job'["scan"].at \notin Removing
      /\ \A k \in Job \ {"scan"} : job'[k] = job[k]
  BY <1>0, IdleJobIs DEF WtTypeOK, Serve, Removing
<1>2. WtTypeOK'
  BY <1>0, <1>1 DEF WtTypeOK, Serve
<1>3. LockIsHeld'
  BY <1>0, <1>1, JobLocks DEF Serve
<1>4. AddedIsRegistered'
  BY DEF WtInv, AddedIsRegistered, Serve
<1>5. (QuietUntilUp /\ ScanCovers)'
  BY DEF QuietUntilUp, ScanCovers, Serve
<1>. QED
  BY <1>2, <1>3, <1>4, <1>5 DEF WtInv

-----------------------------------------------------------------------------
LEMMA WtInitInv == WtInit => WtInv
<1>. SUFFICES ASSUME WtInit PROVE WtInv
  OBVIOUS
<1>1. NoRow \in Rows
  BY DEF NoRow, Rows
<1>2. Handling("create", "new") \in Handlers /\ Handling("create", "new").at = "new"
  BY HandlingIs DEF HandlerSteps
<1>3. WtTypeOK
  BY <1>1, <1>2, IdleJobIs DEF WtInit, WtTypeOK
<1>4. LockIsHeld /\ AddedIsRegistered
  BY <1>2, IdleJobIs DEF WtInit, LockIsHeld, AddedIsRegistered, Locked, Removing
<1>5. QuietUntilUp /\ ScanCovers
  BY DEF WtInit, QuietUntilUp, ScanCovers
<1>. QED
  BY <1>3, <1>4, <1>5 DEF WtInv

LEMMA WtStepInv == WtInv /\ [WtNext]_wtVars => WtInv'
<1>. SUFFICES ASSUME WtInv, [WtNext]_wtVars PROVE WtInv'
  OBVIOUS
<1>0. Attempt \subseteq Owner /\ Run \subseteq Owner
  BY DEF Owner
<1>1. ASSUME NEW o \in Owner, create(o) PROVE WtInv'
  BY <1>1, CreateStep
<1>2. ASSUME NEW o \in Owner, Handle(o) PROVE WtInv'
  BY <1>2, TakeLockStep, CheckStep, RecreateStep, AddStep, RefStep, StartStep DEF Handle
<1>3. ASSUME NEW o \in Owner, ProcessEnds(o) \/ TimePasses(o) \/ UserRemoves(o) PROVE WtInv'
  BY <1>3, ProcessStep
<1>4. ASSUME NEW o \in Owner, ensure_container_exists(o) \/ RunFollowUp(o) PROVE WtInv'
  BY <1>4, FollowUpStep
<1>5. CASE check_externally_deleted_worktrees \/ cleanup_expired_attempts
  BY <1>5, SweepStep
<1>6. ASSUME NEW a \in Attempt, MarkMissing(a) \/ cleanup_expired_attempt(a) PROVE WtInv'
  BY <1>6, MarkJobStep
<1>7. CASE delete_task \/ delete_project
  BY <1>7, DeleteStep
<1>8. CASE handle_task_archive
  BY <1>8, ArchiveStep
<1>9. ASSUME NEW j \in Job \ {"scan"}, Work(j) PROVE WtInv'
  BY <1>9, CleanupLockStep, CleanupStep, ListDoneStep DEF Work
<1>10. CASE Crash \/ spawn_worktree_cleanup \/ Serve
  BY <1>10, CrashStep, ScanBeginsStep, ServeStep
<1>11. ASSUME NEW o \in Owner, cleanup_orphaned_worktrees(o) PROVE WtInv'
  BY <1>11, ScanStep
<1>12. CASE UNCHANGED wtVars
  BY <1>12 DEF wtVars, WtInv, WtTypeOK, LockIsHeld, AddedIsRegistered, QuietUntilUp,
      ScanCovers, container_ref_exists
<1>. QED
  BY <1>0, <1>1, <1>2, <1>3, <1>4, <1>5, <1>6, <1>7, <1>8, <1>9, <1>10, <1>11, <1>12 DEF WtNext

(* The variables keep their types, and whoever is between the lock of a path and
   its release has that lock: WORKTREE_CREATION_LOCKS excludes a removal from a
   creation of the same path. *)
THEOREM WorktreeInvariant == WtSpec => []WtInv
  BY WtInitInv, WtStepInv, PTL DEF WtSpec

-----------------------------------------------------------------------------
(* A handler leaves its critical section with success from two places. *)
LEMMA ReadyMeansThere ==
  ASSUME WtInv, WtNext, NEW o \in Owner,
         handler[o].at \in {"check", "verify"}, handler'[o].at \in {"ref", "start"}
  PROVE  o \in dir' \cap meta'
<1>0. WtTypeOK /\ server = "up"
  BY UnderWayIsUp DEF WtInv
<1>1. ASSUME NEW p \in Owner, p # o,
             create(p) \/ Handle(p) \/ ensure_container_exists(p) \/ RunFollowUp(p)
      PROVE  handler'[o] = handler[o]
  <2>1. \/ \E step : Goto(p, step)
        \/ Ends(p)
        \/ \E at : handler' = [handler EXCEPT ![p] = Handling("follow", at)]
    BY <1>1 DEF create, Handle, ensure_container_exists, RunFollowUp, ensure_worktree_exists,
        is_worktree_properly_set_up, recreate_worktree_internal, create_worktree_with_retry,
        update_container_ref, start_execution, Succeeds, Fails
  <2>. QED  BY <1>0, <1>1, <2>1 DEF WtTypeOK, Goto, Ends
<1>2. CASE create(o) \/ ensure_container_exists(o) \/ RunFollowUp(o) \/ ensure_worktree_exists(o)
             \/ recreate_worktree_internal(o) \/ update_container_ref(o) \/ start_execution(o)
  BY <1>2 DEF create, ensure_container_exists, RunFollowUp, ensure_worktree_exists,
      recreate_worktree_internal, update_container_ref, start_execution, At
<1>3. CASE is_worktree_properly_set_up(o)
  <2>1. CASE Goto(o, "clean")
    BY <1>0, <2>1, GotoHandler DEF HandlerSteps, Locked
  <2>. QED  BY <1>3, <2>1 DEF is_worktree_properly_set_up
<1>4. CASE create_worktree_with_retry(o)
  <2>1. CASE Goto(o, "verify") \/ Goto(o, "retry") \/ Fails(o)
    BY <1>0, <2>1, GotoHandler, EndsHandler DEF HandlerSteps, Locked, Fails
  <2>2. CASE At(o, "verify") /\ o \in dir /\ UNCHANGED <<dir, meta>>
    BY <2>2 DEF WtInv, AddedIsRegistered, At
  <2>. QED  BY <1>4, <2>1, <2>2 DEF create_worktree_with_retry
<1>5. CASE UNCHANGED handler
  BY <1>5
<1>6. CASE Crash
  <2>1. handler'[o].at \in {"new", "idle"}
    BY <1>6 DEF Crash, At, Handling
  <2>. QED  BY <2>1
<1>7. ASSUME NEW p \in Owner, ProcessEnds(p) \/ TimePasses(p) \/ UserRemoves(p)
                                 \/ cleanup_orphaned_worktrees(p)
      PROVE  UNCHANGED handler
  BY <1>7 DEF ProcessEnds, TimePasses, UserRemoves, cleanup_orphaned_worktrees
<1>8. ASSUME \/ check_externally_deleted_worktrees \/ cleanup_expired_attempts
             \/ delete_task \/ delete_project \/ handle_task_archive
             \/ spawn_worktree_cleanup \/ Serve
             \/ \E a \in Attempt : MarkMissing(a) \/ cleanup_expired_attempt(a)
             \/ \E j \in Job \ {"scan"} : Work(j)
      PROVE  UNCHANGED handler
  BY <1>8 DEF check_externally_deleted_worktrees, cleanup_expired_attempts, delete_task,
      delete_project, handle_task_archive, spawn_worktree_cleanup, Serve, MarkMissing,
      cleanup_expired_attempt, Work, cleanup_worktree, comprehensive_worktree_cleanup,
      cleanup_worktrees_direct
<1>9. Attempt \subseteq Owner /\ Run \subseteq Owner
  BY DEF Owner
<1>10. ASSUME NEW p \in Owner,
              create(p) \/ Handle(p) \/ ensure_container_exists(p) \/ RunFollowUp(p)
       PROVE  o \in dir' \cap meta'
  <2>1. CASE p = o
    BY <1>2, <1>3, <1>4, <1>10, <2>1 DEF Handle
  <2>2. CASE p # o
    BY <1>1, <1>10, <2>2
  <2>. QED  BY <2>1, <2>2
<1>. QED
  BY <1>5, <1>6, <1>7, <1>8, <1>9, <1>10 DEF WtNext

(* Whatever requests, sweeps, deletions, archivings, crashes and losses happen at
   the same time: a worktree that ensure_worktree_exists or the creation reports
   as ready has its directory, and git knows it. *)
THEOREM EnsureTheorem == WtSpec => EnsureGivesWorktree
<1>1. WtInv /\ [WtNext]_wtVars =>
        [\A o \in Owner : handler[o].at \in {"check", "verify"} /\ handler'[o].at \in {"ref", "start"}
            => o \in dir' \cap meta']_wtVars
  BY ReadyMeansThere
<1>. QED
  BY <1>1, WorktreeInvariant, PTL DEF WtSpec, EnsureGivesWorktree

(* Once the scan of start-up is done, every directory has a row that refers to
   it, except where remove_dir_all failed. *)
THEOREM OrphansTheorem == WtSpec => OrphansGone
<1>1. WtInv /\ WtNext /\ server = "scan" /\ server' = "up" =>
        \A o \in dir' \ stuck : row[o].there /\ row[o].ref
  <2>. SUFFICES ASSUME WtInv, WtNext, server = "scan", server' = "up"
                PROVE  \A o \in dir' \ stuck : row[o].there /\ row[o].ref
    OBVIOUS
  <2>1. Serve
    BY DEF WtNext, create, Handle, ensure_container_exists, RunFollowUp, ensure_worktree_exists,
        is_worktree_properly_set_up, recreate_worktree_internal, create_worktree_with_retry,
        update_container_ref, start_execution, ProcessEnds, TimePasses, UserRemoves,
        cleanup_orphaned_worktrees, check_externally_deleted_worktrees,
        cleanup_expired_attempts, delete_task, delete_project, handle_task_archive,
        spawn_worktree_cleanup, MarkMissing, cleanup_expired_attempt, Work, cleanup_worktree,
        comprehensive_worktree_cleanup, cleanup_worktrees_direct, Crash
  <2>. QED  BY <2>1 DEF Serve, WtInv, ScanCovers, container_ref_exists
<1>2. WtInv /\ [WtNext]_wtVars =>
        [server = "scan" /\ server' = "up" =>
           \A o \in dir' \ stuck : row[o].there /\ row[o].ref]_wtVars
  BY <1>1
<1>. QED
  BY <1>2, WorktreeInvariant, PTL DEF WtSpec, OrphansGone

(* Before the server serves again, a directory disappears only if no row refers
   to it, or by the hand of the user. *)
THEOREM RestartTheorem == WtSpec => WorkSurvivesRestart
<1>1. WtInv /\ WtNext /\ server # "up" =>
        \A o \in dir \ dir' : ~(row[o].there /\ row[o].ref) \/ count'.loss > count.loss
  <2>. SUFFICES ASSUME WtInv, WtNext, server # "up", NEW o \in dir \ dir'
                PROVE  ~(row[o].there /\ row[o].ref) \/ count'.loss > count.loss
    OBVIOUS
  <2>1. ASSUME NEW p \in Owner, cleanup_orphaned_worktrees(p)
        PROVE  ~(row[o].there /\ row[o].ref)
    BY <2>1 DEF cleanup_orphaned_worktrees, RemoveDir, RemoveDirFails,
        simple_worktree_cleanup, container_ref_exists
  <2>2. ASSUME NEW p \in Owner, UserRemoves(p)
        PROVE  count'.loss > count.loss
    BY <2>2 DEF UserRemoves, WtInv, WtTypeOK
  <2>3. ASSUME NEW p \in Owner, create(p) \/ Handle(p) \/ ProcessEnds(p) \/ TimePasses(p)
                 \/ ensure_container_exists(p) \/ RunFollowUp(p)
        PROVE  UNCHANGED dir
    <3>1. handler[p].at \in {"new", "idle"}
      BY DEF WtInv, QuietUntilUp
    <3>. QED
      BY <2>3, <3>1 DEF create, Handle, ProcessEnds, TimePasses, ensure_container_exists,
          RunFollowUp, ensure_worktree_exists, is_worktree_properly_set_up,
          recreate_worktree_internal, create_worktree_with_retry, update_container_ref,
          start_execution, At
  <2>4. ASSUME NEW j \in Job \ {"scan"}, Work(j)
        PROVE  UNCHANGED dir
    <3>1. job[j].at = "idle"
      BY DEF WtInv, QuietUntilUp
    <3>. QED
      BY <2>4, <3>1 DEF Work, cleanup_worktree, comprehensive_worktree_cleanup,
          cleanup_worktrees_direct
  <2>5. ASSUME \/ check_externally_deleted_worktrees \/ cleanup_expired_attempts
               \/ delete_task \/ delete_project \/ handle_task_archive
               \/ Crash \/ spawn_worktree_cleanup \/ Serve
               \/ \E a \in Attempt : MarkMissing(a) \/ cleanup_expired_attempt(a)
        PROVE  UNCHANGED dir
    BY <2>5 DEF check_externally_deleted_worktrees, cleanup_expired_attempts, delete_task,
        delete_project, handle_task_archive, Crash, spawn_worktree_cleanup, Serve,
        MarkMissing, cleanup_expired_attempt
  <2>6. Attempt \subseteq Owner /\ Run \subseteq Owner
    BY DEF Owner
  <2>. QED
    BY <2>1, <2>2, <2>3, <2>4, <2>5, <2>6 DEF WtNext
<1>2. WtInv /\ [WtNext]_wtVars =>
        [server # "up" =>
           \A o \in dir \ dir' : ~(row[o].there /\ row[o].ref) \/ count'.loss > count.loss]_wtVars
  BY <1>1
<1>. QED
  BY <1>2, WorktreeInvariant, PTL DEF WtSpec, WorkSurvivesRestart

-----------------------------------------------------------------------------
(* Drafts.                                                                 *)

Prompt == Text \cup {Blank}
Row == [there : BOOLEAN, prompt : Prompt, queued : BOOLEAN, sending : BOOLEAN, version : Nat]
Place == {"idle", "insert", "check", "save", "queued", "free?", "look", "load",
          "mark", "send", "clear"}

DrTypeOK ==
  /\ draft \in Row
  /\ retry \in Row
  /\ actor \in [Actor -> [at : Place, draft : Row, prompt : Prompt, version : Nat]]
  /\ running \in BOOLEAN
  /\ ticket \in Nat
  /\ sends \subseteq Nat
  /\ sentTwice \in BOOLEAN
  /\ leaked \in BOOLEAN
  /\ draftCrashes \in Nat

(* Where there is no row there is nothing to send. *)
NoRowIsQuiet == ~draft.there => ~draft.queued /\ ~draft.sending

(* A sender about to start a process does so for a queueing that happened, for
   which no process was started, and which no other sender has taken. *)
SenderHasTicket ==
  /\ \A n \in sends : n <= ticket
  /\ \A a \in Actor : Waits(a, "send") => actor[a].version <= ticket /\ actor[a].version \notin sends
  /\ \A a, b \in Actor : Waits(a, "send") /\ Waits(b, "send")
                           /\ actor[a].version = actor[b].version => a = b

(* A draft that is queued and that nobody sends has a queueing of its own:
   sending it would be the first time. *)
QueuedIsUntaken ==
  draft.queued /\ ~draft.sending =>
    ticket \notin sends /\ \A a \in Actor : Waits(a, "send") => actor[a].version # ticket

(* The inductive invariant. *)
DrInv ==
  /\ DrTypeOK /\ NoRowIsQuiet /\ SenderHasTicket /\ QueuedIsUntaken
  /\ QueuedSentOnce /\ FlagIsHeld

-----------------------------------------------------------------------------
(* The statements of the drafts table: what they make of a row. *)

(* A new version is otherwise the same row. *)
LEMMA BumpRow ==
  ASSUME NEW d \in Row
  PROVE  /\ Bump(d) \in Row
         /\ Bump(d).there = d.there
         /\ Bump(d).queued = d.queued
         /\ Bump(d).sending = d.sending
<1>1. Bump(d) \in Row
  BY DEF Row, Bump
<1>2. Bump(d).there = d.there
  BY DEF Row, Bump
<1>3. Bump(d).queued = d.queued
  BY DEF Row, Bump
<1>4. Bump(d).sending = d.sending
  BY DEF Row, Bump
<1>. QED
  BY <1>1, <1>2, <1>3, <1>4

(* The constants of the model are rows and handlers. *)
LEMMA ConstantRows ==
  /\ NoDraft \in Row
  /\ EmptyDraft \in Row
  /\ NoHandler \in [at : Place, draft : Row, prompt : Prompt, version : Nat]
  /\ NoHandler.at = "idle"
  BY DEF NoDraft, EmptyDraft, NoHandler, Row, Prompt, Place

(* Writing the row as a whole keeps the flag of a sender and takes the draft
   from the queue. *)
LEMMA UpsertRow ==
  ASSUME NEW d \in Row, NEW text \in Prompt
  PROVE  /\ upsert(d, text) \in Row
         /\ upsert(d, text).there
         /\ ~upsert(d, text).queued
         /\ upsert(d, text).sending => d.there /\ d.sending
<1>1. CASE ~d.there
  <2>. DEFINE e == [EmptyDraft EXCEPT !.prompt = text]
  <2>1. upsert(d, text) = e
    BY <1>1 DEF upsert
  <2>2. e \in Row
    BY ConstantRows DEF Row
  <2>3. e.there = TRUE /\ e.queued = FALSE /\ e.sending = FALSE
    BY DEF EmptyDraft, NoDraft
  <2>. HIDE DEF e
  <2>. QED  BY <2>1, <2>2, <2>3
<1>2. CASE d.there
  <2>. DEFINE e == [d EXCEPT !.prompt = text, !.queued = FALSE]
  <2>1. upsert(d, text) = Bump(e)
    BY <1>2 DEF upsert
  <2>2. e \in Row
    BY DEF Row
  <2>3. e.there = d.there
    BY DEF Row
  <2>4. e.queued = FALSE
    BY DEF Row
  <2>5. e.sending = d.sending
    BY DEF Row
  <2>. HIDE DEF e
  <2>. QED  BY <1>2, <2>1, <2>2, <2>3, <2>4, <2>5, BumpRow
<1>. QED
  BY <1>1, <1>2

(* A partial update leaves the queue and the flag alone. *)
LEMMA UpdatePartialRow ==
  ASSUME NEW d \in Row, NEW text \in Prompt
  PROVE  /\ update_partial(d, text) \in Row
         /\ update_partial(d, text).there = d.there
         /\ update_partial(d, text).queued = d.queued
         /\ update_partial(d, text).sending = d.sending
<1>1. CASE ~d.there
  <2>1. update_partial(d, text) = d
    BY <1>1 DEF update_partial
  <2>. QED  BY <2>1
<1>2. CASE d.there
  <2>. DEFINE e == [d EXCEPT !.prompt = text]
  <2>1. update_partial(d, text) = Bump(e)
    BY <1>2 DEF update_partial
  <2>2. e \in Row
    BY DEF Row
  <2>3. e.there = d.there
    BY DEF Row
  <2>4. e.queued = d.queued
    BY DEF Row
  <2>5. e.sending = d.sending
    BY DEF Row
  <2>. HIDE DEF e
  <2>. QED  BY <2>1, <2>2, <2>3, <2>4, <2>5, BumpRow
<1>. QED
  BY <1>1, <1>2

(* Emptying the row takes it from the queue and from its sender together. *)
LEMMA ClearRow ==
  ASSUME NEW d \in Row, ~d.there => ~d.queued /\ ~d.sending
  PROVE  /\ clear_after_send(d) \in Row
         /\ ~clear_after_send(d).queued
         /\ ~clear_after_send(d).sending
<1>1. CASE ~d.there
  <2>1. clear_after_send(d) = d
    BY <1>1 DEF clear_after_send
  <2>. QED  BY <1>1, <2>1
<1>2. CASE d.there
  <2>. DEFINE e == [d EXCEPT !.prompt = Blank, !.queued = FALSE, !.sending = FALSE]
  <2>1. clear_after_send(d) = Bump(e)
    BY <1>2 DEF clear_after_send
  <2>2. e \in Row
    BY DEF Row, Prompt
  <2>3. e.queued = FALSE
    BY DEF Row
  <2>4. e.sending = FALSE
    BY DEF Row
  <2>. HIDE DEF e
  <2>. QED  BY <2>1, <2>2, <2>3, <2>4, BumpRow
<1>. QED
  BY <1>1, <1>2

(* Queueing leaves the flag of a sender alone. *)
LEMMA SetQueuedRow ==
  ASSUME NEW d \in Row, NEW queued \in BOOLEAN
  PROVE  /\ set_queued(d, queued) \in Row
         /\ set_queued(d, queued).there = d.there
         /\ set_queued(d, queued).sending = d.sending
<1>. DEFINE e == [d EXCEPT !.queued = queued /\ d.prompt # Blank]
<1>1. set_queued(d, queued) = Bump(e)
  BY DEF set_queued
<1>2. e \in Row
  BY DEF Row
<1>3. e.there = d.there
  BY DEF Row
<1>4. e.sending = d.sending
  BY DEF Row
<1>. HIDE DEF e
<1>. QED
  BY <1>1, <1>2, <1>3, <1>4, BumpRow

(* The row that try_mark_sending leaves. *)
LEMMA MarkRow ==
  ASSUME DrTypeOK, MarkSending
  PROVE  /\ draft' \in Row
         /\ draft'.there = draft.there
         /\ draft'.queued = draft.queued
         /\ draft'.sending
<1>. DEFINE e == [draft EXCEPT !.sending = TRUE]
<1>1. draft' = Bump(e)
  BY DEF MarkSending
<1>2. e \in Row
  BY DEF DrTypeOK, Row
<1>3. e.there = draft.there
  BY DEF DrTypeOK, Row
<1>4. e.queued = draft.queued
  BY DEF DrTypeOK, Row
<1>5. e.sending = TRUE
  BY DEF DrTypeOK, Row
<1>. HIDE DEF e
<1>. QED
  BY <1>1, <1>2, <1>3, <1>4, <1>5, BumpRow

-----------------------------------------------------------------------------
(* Handlers between their statements. *)

Handler == [at : Place, draft : Row, prompt : Prompt, version : Nat]

(* A handler that moves to another statement, or that ends, keeps its type. *)
LEMMA HandlerMoves ==
  ASSUME DrTypeOK, NEW a \in Actor, NEW at \in Place, Moves(a, at)
  PROVE  /\ actor' \in [Actor -> Handler]
         /\ actor'[a].at = at
         /\ actor'[a].version = actor[a].version
         /\ \A b \in Actor \ {a} : actor'[b] = actor[b]
  BY DEF DrTypeOK, Moves, Handler

LEMMA HandlerEnds ==
  ASSUME DrTypeOK, NEW a \in Actor, DraftEnds(a)
  PROVE  /\ actor' \in [Actor -> Handler]
         /\ actor'[a].at = "idle"
         /\ \A b \in Actor \ {a} : actor'[b] = actor[b]
  BY ConstantRows DEF DrTypeOK, DraftEnds, Handler

(* A statement that neither queues nor sends: the handler holds no flag before
   it, starts no process after it, and the row is not more ready to be sent
   than it was. *)
LEMMA QuietStep ==
  ASSUME DrInv, NEW a \in Actor,
         draft' \in Row, retry' \in Row, running' \in BOOLEAN, draftCrashes' \in Nat,
         actor' \in [Actor -> Handler],
         actor[a].at \notin {"send", "clear"},
         actor'[a].at # "send",
         \A b \in Actor \ {a} : actor'[b] = actor[b],
         ~draft'.there => ~draft'.queued /\ ~draft'.sending,
         draft'.sending => draft.sending,
         draft'.queued /\ ~draft'.sending => draft.queued /\ ~draft.sending,
         UNCHANGED <<ticket, sends, sentTwice, leaked>>
  PROVE  DrInv'
<1>1. DrTypeOK'
  BY DEF DrInv, DrTypeOK, Handler
<1>2. NoRowIsQuiet'
  BY DEF NoRowIsQuiet
<1>3. SenderHasTicket'
  BY DEF DrInv, SenderHasTicket, Waits
<1>4. QueuedIsUntaken'
  BY DEF DrInv, QueuedIsUntaken, Waits
<1>5. FlagIsHeld'
  BY DEF DrInv, FlagIsHeld
<1>6. QueuedSentOnce'
  BY DEF DrInv, QueuedSentOnce
<1>. QED
  BY <1>1, <1>2, <1>3, <1>4, <1>5, <1>6 DEF DrInv

(* Editing: PUT /draft. *)
LEMMA EditStep ==
  ASSUME DrInv, NEW a \in Tab,
         \/ ensure_follow_up_draft_row(a) \/ InsertDraft(a)
         \/ save_follow_up_draft(a) \/ SaveDraft(a)
  PROVE  DrInv'
<1>. a \in Actor
  BY DEF Actor
<1>0. DrTypeOK
  BY DEF DrInv
<1>1. CASE ensure_follow_up_draft_row(a)
  <2>1. PICK text \in Text, v \in {draft.version, draft.version + 1} :
           actor' = [actor EXCEPT ![a] =
             [NoHandler EXCEPT !.at = IF draft.there THEN "check" ELSE "insert",
                               !.draft = draft, !.prompt = text, !.version = v]]
    BY <1>1 DEF ensure_follow_up_draft_row
  <2>. DEFINE h == [NoHandler EXCEPT !.at = IF draft.there THEN "check" ELSE "insert",
                               !.draft = draft, !.prompt = text, !.version = v]
  <2>2. v \in Nat
    BY <1>0, <2>1 DEF DrTypeOK, Row
  <2>3. h \in Handler /\ h.at \in {"check", "insert"}
    BY <1>0, <2>2 DEF DrTypeOK, Handler, NoHandler, Place, Prompt
  <2>. HIDE DEF h
  <2>4. actor' = [actor EXCEPT ![a] = h]
    BY <2>1 DEF h
  <2>5. /\ actor' \in [Actor -> Handler]
        /\ actor'[a].at # "send"
        /\ \A b \in Actor \ {a} : actor'[b] = actor[b]
    BY <1>0, <2>3, <2>4 DEF DrTypeOK, Handler
  <2>6. UNCHANGED <<draft, retry, running, ticket, sends, sentTwice, leaked, draftCrashes>>
    BY <1>1 DEF ensure_follow_up_draft_row
  <2>7. actor[a].at = "idle"
    BY <1>1 DEF ensure_follow_up_draft_row, Waits
  <2>. QED  BY <1>0, <2>5, <2>6, <2>7, QuietStep DEF DrInv, DrTypeOK, NoRowIsQuiet
<1>2. CASE InsertDraft(a)
  <2>1. /\ actor[a].at = "insert"
        /\ draft' = upsert(draft, Blank)
        /\ actor' = [actor EXCEPT ![a].at = "check", ![a].draft = upsert(draft, Blank)]
        /\ UNCHANGED <<retry, running, ticket, sends, sentTwice, leaked, draftCrashes>>
    BY <1>2 DEF InsertDraft, Waits
  <2>2. draft' \in Row /\ draft'.there /\ ~draft'.queued /\ (draft'.sending => draft.sending)
    BY <1>0, <2>1, UpsertRow DEF DrTypeOK, Prompt
  <2>3. actor' = [actor EXCEPT ![a].at = "check", ![a].draft = draft']
    BY <2>1
  <2>4. /\ actor' \in [Actor -> Handler]
        /\ actor'[a].at # "send"
        /\ \A b \in Actor \ {a} : actor'[b] = actor[b]
    <3>1. actor \in [Actor -> Handler] /\ actor[a] \in Handler /\ "check" \in Place
      BY <1>0 DEF DrTypeOK, Place, Handler
    <3>2. /\ [actor[a] EXCEPT !.at = "check", !.draft = draft'] \in Handler
          /\ [actor[a] EXCEPT !.at = "check", !.draft = draft'].at = "check"
      BY <2>2, <3>1 DEF Handler
    <3>3. actor' = [actor EXCEPT ![a] = [actor[a] EXCEPT !.at = "check", !.draft = draft']]
      BY <2>3
    <3>. QED  BY <3>1, <3>2, <3>3
  <2>. QED  BY <1>0, <2>1, <2>2, <2>4, QuietStep DEF DrTypeOK
<1>3. CASE save_follow_up_draft(a)
  <2>1. actor[a].at = "check" /\ (DraftEnds(a) \/ Moves(a, "save"))
    BY <1>3 DEF save_follow_up_draft, Waits
  <2>2. UNCHANGED <<draft, retry, running, ticket, sends, sentTwice, leaked, draftCrashes>>
    BY <1>3 DEF save_follow_up_draft
  <2>3. /\ actor' \in [Actor -> Handler]
        /\ actor'[a].at # "send"
        /\ \A b \in Actor \ {a} : actor'[b] = actor[b]
    BY <1>0, <2>1, HandlerMoves, HandlerEnds DEF Place
  <2>. QED  BY <1>0, <2>1, <2>2, <2>3, QuietStep DEF DrInv, DrTypeOK, NoRowIsQuiet
<1>4. CASE SaveDraft(a)
  <2>1. /\ actor[a].at = "save"
        /\ draft' = update_partial(draft, actor[a].prompt)
        /\ DraftEnds(a)
        /\ UNCHANGED <<retry, running, ticket, sends, sentTwice, leaked, draftCrashes>>
    BY <1>4 DEF SaveDraft, Waits
  <2>2. actor[a].prompt \in Prompt
    BY <1>0 DEF DrTypeOK
  <2>3. /\ draft' \in Row /\ draft'.there = draft.there
        /\ draft'.queued = draft.queued /\ draft'.sending = draft.sending
    BY <1>0, <2>1, <2>2, UpdatePartialRow DEF DrTypeOK
  <2>4. /\ actor' \in [Actor -> Handler]
        /\ actor'[a].at # "send"
        /\ \A b \in Actor \ {a} : actor'[b] = actor[b]
    BY <1>0, <2>1, HandlerEnds
  <2>. QED  BY <1>0, <2>1, <2>3, <2>4, QuietStep DEF DrInv, DrTypeOK, NoRowIsQuiet
<1>. QED
  BY <1>1, <1>2, <1>3, <1>4

-----------------------------------------------------------------------------
(* Queueing: a queueing that was not there before has a new number, so that
   nobody has taken it. *)
LEMMA QueueStep ==
  ASSUME DrInv, NEW a \in Tab, NEW queued \in BOOLEAN, set_follow_up_queue(a, queued)
  PROVE  DrInv'
<1>. a \in Actor
  BY DEF Actor
<1>0. DrTypeOK
  BY DEF DrInv
<1>1. /\ actor[a].at = "idle"
      /\ draft.there
      /\ draft' = set_queued(draft, queued)
      /\ ticket' = IF draft'.queued /\ ~draft.queued THEN ticket + 1 ELSE ticket
      /\ Moves(a, "queued")
      /\ UNCHANGED <<retry, running, sends, sentTwice, leaked, draftCrashes>>
  BY DEF set_follow_up_queue, Waits
<1>2. draft' \in Row /\ draft'.there = draft.there /\ draft'.sending = draft.sending
  BY <1>0, <1>1, SetQueuedRow DEF DrTypeOK
<1>3. /\ actor' \in [Actor -> Handler]
      /\ actor'[a].at = "queued"
      /\ \A b \in Actor \ {a} : actor'[b] = actor[b]
  BY <1>0, <1>1, HandlerMoves DEF Place
<1>4. ticket' \in Nat /\ ticket' >= ticket
  BY <1>0, <1>1 DEF DrTypeOK
<1>5. DrTypeOK'
  BY <1>0, <1>1, <1>2, <1>3, <1>4 DEF DrTypeOK, Handler
<1>6. NoRowIsQuiet'
  BY <1>1, <1>2 DEF NoRowIsQuiet
<1>7. SenderHasTicket'
  <2>1. \A n \in sends' : n <= ticket'
    BY <1>0, <1>1, <1>4 DEF DrInv, SenderHasTicket, DrTypeOK
  <2>2. \A b \in Actor : actor'[b].at = "send" => b # a /\ actor'[b] = actor[b]
    BY <1>3
  <2>3. \A b \in Actor : actor[b].version \in Nat
    BY <1>0 DEF DrTypeOK
  <2>4. \A b \in Actor : actor'[b].at = "send" =>
            actor'[b].version <= ticket' /\ actor'[b].version \notin sends'
    BY <1>0, <1>1, <1>4, <2>2, <2>3 DEF DrInv, SenderHasTicket, DrTypeOK, Waits
  <2>. QED  BY <2>1, <2>2, <2>4 DEF DrInv, SenderHasTicket, Waits
<1>8. QueuedIsUntaken'
  <2>1. SUFFICES ASSUME draft'.queued, ~draft'.sending
                 PROVE  /\ ticket' \notin sends
                        /\ \A b \in Actor : actor'[b].at = "send" => actor'[b].version # ticket'
    BY <1>1 DEF QueuedIsUntaken, Waits
  <2>2. \A b \in Actor : actor'[b].at = "send" => actor'[b] = actor[b]
    BY <1>3
  <2>3. CASE draft.queued
    BY <1>1, <1>2, <2>1, <2>2, <2>3 DEF DrInv, QueuedIsUntaken, Waits
  <2>4. CASE ~draft.queued
    <3>1. ticket' = ticket + 1
      BY <1>1, <2>1, <2>4
    <3>2. ticket' \notin sends
      BY <1>0, <3>1 DEF DrInv, SenderHasTicket, DrTypeOK
    <3>3. \A b \in Actor : actor[b].version \in Nat
      BY <1>0 DEF DrTypeOK
    <3>4. \A b \in Actor : actor'[b].at = "send" => actor'[b].version # ticket'
      BY <1>0, <2>2, <3>1, <3>3 DEF DrInv, SenderHasTicket, DrTypeOK, Waits
    <3>. QED  BY <3>2, <3>4
  <2>. QED  BY <2>3, <2>4
<1>9. FlagIsHeld'
  BY <1>1, <1>2, <1>3 DEF DrInv, FlagIsHeld
<1>10. QueuedSentOnce'
  BY <1>1 DEF DrInv, QueuedSentOnce
<1>. QED
  BY <1>5, <1>6, <1>7, <1>8, <1>9, <1>10 DEF DrInv

(* What the handler that queued does before it takes the flag, and a follow-up
   that starts by itself. *)
LEMMA LookStep ==
  ASSUME DrInv, NEW a \in Tab,
         \/ ReadQueued(a) \/ has_running_processes_for_attempt(a) \/ follow_up_clears(a)
  PROVE  DrInv'
<1>. a \in Actor
  BY DEF Actor
<1>0. DrTypeOK
  BY DEF DrInv
<1>1. CASE ReadQueued(a)
  <2>1. /\ actor[a].at = "queued"
        /\ \/ actor' = [actor EXCEPT ![a].at = "free?", ![a].draft = draft]
           \/ DraftEnds(a)
        /\ UNCHANGED <<draft, retry, running, ticket, sends, sentTwice, leaked, draftCrashes>>
    BY <1>1 DEF ReadQueued, Waits
  <2>2. /\ actor' \in [Actor -> Handler]
        /\ actor'[a].at # "send"
        /\ \A b \in Actor \ {a} : actor'[b] = actor[b]
    <3>1. CASE actor' = [actor EXCEPT ![a].at = "free?", ![a].draft = draft]
      BY <1>0, <3>1 DEF DrTypeOK, Handler, Place
    <3>2. CASE DraftEnds(a)
      BY <1>0, <3>2, HandlerEnds
    <3>. QED  BY <2>1, <3>1, <3>2
  <2>. QED  BY <1>0, <2>1, <2>2, QuietStep DEF DrInv, DrTypeOK, NoRowIsQuiet
<1>2. CASE has_running_processes_for_attempt(a)
  <2>1. /\ actor[a].at = "free?"
        /\ DraftEnds(a) \/ Moves(a, "mark")
        /\ UNCHANGED <<draft, retry, running, ticket, sends, sentTwice, leaked, draftCrashes>>
    BY <1>2 DEF has_running_processes_for_attempt, Waits
  <2>2. /\ actor' \in [Actor -> Handler]
        /\ actor'[a].at # "send"
        /\ \A b \in Actor \ {a} : actor'[b] = actor[b]
    BY <1>0, <2>1, HandlerMoves, HandlerEnds DEF Place
  <2>. QED  BY <1>0, <2>1, <2>2, QuietStep DEF DrInv, DrTypeOK, NoRowIsQuiet
<1>3. CASE follow_up_clears(a)
  <2>1. /\ actor[a].at = "idle"
        /\ running' = TRUE
        /\ Moves(a, "clear")
        /\ UNCHANGED <<draft, retry, ticket, sends, sentTwice, leaked, draftCrashes>>
    BY <1>3 DEF follow_up_clears, Waits
  <2>2. /\ actor' \in [Actor -> Handler]
        /\ actor'[a].at # "send"
        /\ \A b \in Actor \ {a} : actor'[b] = actor[b]
    BY <1>0, <2>1, HandlerMoves DEF Place
  <2>. QED  BY <1>0, <2>1, <2>2, QuietStep DEF DrInv, DrTypeOK, NoRowIsQuiet
<1>. QED
  BY <1>1, <1>2, <1>3

(* The exit monitor before it takes the flag. *)
LEMMA MonitorStep ==
  ASSUME DrInv, AgentEnds \/ try_consume_queued_followup \/ LoadDraft
  PROVE  DrInv'
<1>. DEFINE a == ExitMonitor
<1>. a \in Actor
  BY DEF Actor
<1>0. DrTypeOK
  BY DEF DrInv
<1>1. CASE AgentEnds
  <2>1. /\ actor[a].at = "idle"
        /\ running' = FALSE
        /\ Moves(a, "look")
        /\ UNCHANGED <<draft, retry, ticket, sends, sentTwice, leaked, draftCrashes>>
    BY <1>1 DEF AgentEnds, Waits
  <2>2. /\ actor' \in [Actor -> Handler]
        /\ actor'[a].at # "send"
        /\ \A b \in Actor \ {a} : actor'[b] = actor[b]
    BY <1>0, <2>1, HandlerMoves DEF Place
  <2>. QED  BY <1>0, <2>1, <2>2, QuietStep DEF DrInv, DrTypeOK, NoRowIsQuiet
<1>2. CASE try_consume_queued_followup
  <2>1. /\ actor[a].at = "look"
        /\ DraftEnds(a) \/ Moves(a, "load")
        /\ UNCHANGED <<draft, retry, running, ticket, sends, sentTwice, leaked, draftCrashes>>
    BY <1>2 DEF try_consume_queued_followup, Waits
  <2>2. /\ actor' \in [Actor -> Handler]
        /\ actor'[a].at # "send"
        /\ \A b \in Actor \ {a} : actor'[b] = actor[b]
    BY <1>0, <2>1, HandlerMoves, HandlerEnds DEF Place
  <2>. QED  BY <1>0, <2>1, <2>2, QuietStep DEF DrInv, DrTypeOK, NoRowIsQuiet
<1>3. CASE LoadDraft
  <2>1. /\ actor[a].at = "load"
        /\ \/ actor' = [actor EXCEPT ![a].at = "mark", ![a].draft = draft]
           \/ DraftEnds(a)
        /\ UNCHANGED <<draft, retry, running, ticket, sends, sentTwice, leaked, draftCrashes>>
    BY <1>3 DEF LoadDraft, Waits
  <2>2. /\ actor' \in [Actor -> Handler]
        /\ actor'[a].at # "send"
        /\ \A b \in Actor \ {a} : actor'[b] = actor[b]
    <3>1. CASE actor' = [actor EXCEPT ![a].at = "mark", ![a].draft = draft]
      BY <1>0, <3>1 DEF DrTypeOK, Handler, Place
    <3>2. CASE DraftEnds(a)
      BY <1>0, <3>2, HandlerEnds
    <3>. QED  BY <2>1, <3>1, <3>2
  <2>. QED  BY <1>0, <2>1, <2>2, QuietStep DEF DrInv, DrTypeOK, NoRowIsQuiet
<1>. QED
  BY <1>1, <1>2, <1>3

-----------------------------------------------------------------------------
(* Sending. *)

(* Taking the flag is atomic, and refused while it is taken: the sender has
   the current queueing to itself. *)
LEMMA MarkStep ==
  ASSUME DrInv, NEW a \in Actor, Mark(a)
  PROVE  DrInv'
<1>0. DrTypeOK
  BY DEF DrInv
<1>1. /\ actor[a].at = "mark"
      /\ UNCHANGED <<retry, running, ticket, sends, sentTwice, leaked, draftCrashes>>
  BY DEF Mark, Waits
<1>2. CASE try_mark_sending(draft)
  <2>1. MarkSending /\ actor' = [actor EXCEPT ![a].at = "send", ![a].version = ticket]
    BY <1>2 DEF Mark
  <2>2. draft.there /\ draft.queued /\ ~draft.sending
    BY <1>2 DEF try_mark_sending
  <2>3. draft' \in Row /\ draft'.there /\ draft'.sending
    BY <1>0, <2>1, <2>2, MarkRow
  <2>4. /\ actor' \in [Actor -> Handler]
        /\ actor'[a].at = "send" /\ actor'[a].version = ticket
        /\ \A b \in Actor \ {a} : actor'[b] = actor[b]
    BY <1>0, <2>1 DEF DrTypeOK, Handler, Place
  <2>5. /\ ticket \notin sends
        /\ \A b \in Actor : actor[b].at = "send" => actor[b].version # ticket
    BY <2>2 DEF DrInv, QueuedIsUntaken, Waits
  <2>6. DrTypeOK'
    BY <1>0, <1>1, <2>3, <2>4 DEF DrTypeOK, Handler
  <2>7. SenderHasTicket'
    BY <1>0, <1>1, <2>4, <2>5 DEF DrInv, SenderHasTicket, DrTypeOK, Waits
  <2>8. NoRowIsQuiet' /\ QueuedIsUntaken'
    BY <2>3 DEF NoRowIsQuiet, QueuedIsUntaken
  <2>9. FlagIsHeld'
    BY <2>4 DEF FlagIsHeld
  <2>10. QueuedSentOnce'
    BY <1>1 DEF DrInv, QueuedSentOnce
  <2>. QED  BY <2>6, <2>7, <2>8, <2>9, <2>10 DEF DrInv
<1>3. CASE ~try_mark_sending(draft)
  <2>1. DraftEnds(a) /\ UNCHANGED draft
    BY <1>3 DEF Mark
  <2>2. /\ actor' \in [Actor -> Handler]
        /\ actor'[a].at # "send"
        /\ \A b \in Actor \ {a} : actor'[b] = actor[b]
    BY <1>0, <2>1, HandlerEnds
  <2>. QED  BY <1>0, <1>1, <2>1, <2>2, QuietStep DEF DrInv, DrTypeOK, NoRowIsQuiet
<1>. QED
  BY <1>2, <1>3

(* The process is started, for a queueing that had none. *)
LEMMA StartFollowUpStep ==
  ASSUME DrInv, NEW a \in Actor, start_follow_up_from_draft(a)
  PROVE  DrInv'
<1>0. DrTypeOK
  BY DEF DrInv
<1>1. /\ actor[a].at = "send"
      /\ running' = TRUE
      /\ sends' = sends \cup {actor[a].version}
      /\ sentTwice' = (sentTwice \/ actor[a].version \in sends)
      /\ Moves(a, "clear")
      /\ UNCHANGED <<draft, retry, ticket, leaked, draftCrashes>>
  BY DEF start_follow_up_from_draft, Waits
<1>2. /\ actor' \in [Actor -> Handler]
      /\ actor'[a].at = "clear"
      /\ \A b \in Actor \ {a} : actor'[b] = actor[b]
  BY <1>0, <1>1, HandlerMoves DEF Place
<1>3. /\ actor[a].version \in Nat /\ actor[a].version <= ticket
      /\ actor[a].version \notin sends
  BY <1>0, <1>1 DEF DrInv, SenderHasTicket, DrTypeOK, Waits
<1>4. ~sentTwice'
  BY <1>1, <1>3 DEF DrInv, QueuedSentOnce
<1>5. DrTypeOK'
  BY <1>0, <1>1, <1>2, <1>3, <1>4 DEF DrTypeOK, Handler
<1>6. SenderHasTicket'
  <2>1. \A n \in sends' : n <= ticket'
    BY <1>1, <1>3 DEF DrInv, SenderHasTicket
  <2>2. \A b \in Actor : actor'[b].at = "send" =>
            b # a /\ actor'[b] = actor[b] /\ actor[b].version # actor[a].version
    BY <1>1, <1>2 DEF DrInv, SenderHasTicket, Waits
  <2>. QED  BY <1>1, <2>1, <2>2 DEF DrInv, SenderHasTicket, Waits
<1>7. QueuedIsUntaken'
  BY <1>1, <1>2 DEF DrInv, QueuedIsUntaken, Waits
<1>8. NoRowIsQuiet'
  BY <1>1 DEF DrInv, NoRowIsQuiet
<1>9. FlagIsHeld'
  BY <1>2 DEF FlagIsHeld
<1>. QED
  BY <1>4, <1>5, <1>6, <1>7, <1>8, <1>9 DEF DrInv, QueuedSentOnce

LEMMA StartFailsStep ==
  ASSUME DrInv, NEW a \in Actor, StartFails(a)
  PROVE  DrInv'
<1>0. DrTypeOK
  BY DEF DrInv
<1>1. /\ leaked' = TRUE
      /\ DraftEnds(a)
      /\ UNCHANGED <<draft, retry, running, ticket, sends, sentTwice, draftCrashes>>
  BY DEF StartFails
<1>2. /\ actor' \in [Actor -> Handler]
      /\ actor'[a].at = "idle"
      /\ \A b \in Actor \ {a} : actor'[b] = actor[b]
  BY <1>0, <1>1, HandlerEnds
<1>3. DrTypeOK'
  BY <1>0, <1>1, <1>2 DEF DrTypeOK, Handler
<1>4. (SenderHasTicket /\ QueuedIsUntaken)'
  BY <1>1, <1>2 DEF DrInv, SenderHasTicket, QueuedIsUntaken, Waits
<1>5. (NoRowIsQuiet /\ FlagIsHeld /\ QueuedSentOnce)'
  BY <1>1 DEF DrInv, NoRowIsQuiet, FlagIsHeld, QueuedSentOnce
<1>. QED
  BY <1>3, <1>4, <1>5 DEF DrInv

(* The row is emptied: whoever held the flag, it is given back, and the draft
   is not queued any more. *)
LEMMA ClearSentStep ==
  ASSUME DrInv, NEW a \in Actor, ClearSent(a)
  PROVE  DrInv'
<1>0. DrTypeOK
  BY DEF DrInv
<1>1. /\ draft' = clear_after_send(draft)
      /\ DraftEnds(a)
      /\ UNCHANGED <<retry, running, ticket, sends, sentTwice, leaked, draftCrashes>>
  BY DEF ClearSent
<1>2. draft' \in Row /\ ~draft'.queued /\ ~draft'.sending
  BY <1>0, <1>1, ClearRow DEF DrInv, DrTypeOK, NoRowIsQuiet
<1>3. /\ actor' \in [Actor -> Handler]
      /\ actor'[a].at = "idle"
      /\ \A b \in Actor \ {a} : actor'[b] = actor[b]
  BY <1>0, <1>1, HandlerEnds
<1>4. DrTypeOK'
  BY <1>0, <1>1, <1>2, <1>3 DEF DrTypeOK, Handler
<1>5. SenderHasTicket'
  BY <1>1, <1>3 DEF DrInv, SenderHasTicket, Waits
<1>6. (NoRowIsQuiet /\ QueuedIsUntaken /\ FlagIsHeld)'
  BY <1>2 DEF NoRowIsQuiet, QueuedIsUntaken, FlagIsHeld
<1>7. QueuedSentOnce'
  BY <1>1 DEF DrInv, QueuedSentOnce
<1>. QED
  BY <1>4, <1>5, <1>6, <1>7 DEF DrInv

-----------------------------------------------------------------------------
(* The retry draft is a row of its own. *)
LEMMA RetryStep ==
  ASSUME DrInv, NEW a \in Tab,
         save_retry_follow_up_draft(a) \/ delete_retry_follow_up_draft(a)
  PROVE  DrInv'
<1>0. DrTypeOK
  BY DEF DrInv
<1>1. UNCHANGED <<draft, actor, running, ticket, sends, sentTwice, leaked, draftCrashes>>
  BY DEF save_retry_follow_up_draft, delete_retry_follow_up_draft
<1>2. retry' \in Row
  <2>1. CASE save_retry_follow_up_draft(a)
    <3>1. PICK text \in Text : \/ retry' = [retry EXCEPT !.prompt = text]
                               \/ retry' = [EmptyDraft EXCEPT !.prompt = text]
      BY <2>1 DEF save_retry_follow_up_draft
    <3>. QED  BY <1>0, <3>1, ConstantRows DEF DrTypeOK, Row, Prompt
  <2>2. CASE delete_retry_follow_up_draft(a)
    BY <2>2, ConstantRows DEF delete_retry_follow_up_draft
  <2>. QED  BY <2>1, <2>2
<1>3. DrTypeOK'
  BY <1>0, <1>1, <1>2 DEF DrTypeOK
<1>. QED
  BY <1>1, <1>3 DEF DrInv, NoRowIsQuiet, SenderHasTicket, QueuedIsUntaken, Waits,
      QueuedSentOnce, FlagIsHeld

LEMMA DraftCrashStep ==
  ASSUME DrInv, DraftCrash
  PROVE  DrInv'
<1>0. DrTypeOK
  BY DEF DrInv
<1>1. /\ draftCrashes' = draftCrashes + 1
      /\ actor' = [a \in Actor |-> NoHandler]
      /\ running' = FALSE
      /\ UNCHANGED <<draft, retry, ticket, sends, sentTwice>>
  BY DEF DraftCrash
<1>2. actor' \in [Actor -> Handler] /\ \A a \in Actor : actor'[a].at = "idle"
  BY <1>1, ConstantRows DEF Handler
<1>3. DrTypeOK'
  <2>1. leaked' \in BOOLEAN /\ running' \in BOOLEAN
    BY DEF DraftCrash
  <2>2. draftCrashes' \in Nat
    BY <1>0, <1>1 DEF DrTypeOK
  <2>3. UNCHANGED <<draft, retry, ticket, sends, sentTwice>>
    BY <1>1
  <2>. QED  BY <1>0, <1>2, <2>1, <2>2, <2>3 DEF DrTypeOK, Handler
<1>4. (SenderHasTicket /\ QueuedIsUntaken)'
  BY <1>1, <1>2 DEF DrInv, SenderHasTicket, QueuedIsUntaken, Waits
<1>5. FlagIsHeld'
  BY <1>1 DEF DrInv, FlagIsHeld, DraftCrash
<1>6. (NoRowIsQuiet /\ QueuedSentOnce)'
  BY <1>1 DEF DrInv, NoRowIsQuiet, QueuedSentOnce
<1>. QED
  BY <1>3, <1>4, <1>5, <1>6 DEF DrInv

-----------------------------------------------------------------------------
LEMMA DrInitInv == DrInit => DrInv
<1>. SUFFICES ASSUME DrInit PROVE DrInv
  OBVIOUS
<1>1. draft = NoDraft /\ ~draft.queued /\ ~draft.sending
  BY DEF DrInit, NoDraft
<1>2. DrTypeOK
  BY ConstantRows DEF DrInit, DrTypeOK
<1>3. SenderHasTicket
  BY ConstantRows DEF DrInit, SenderHasTicket, Waits
<1>4. NoRowIsQuiet /\ QueuedIsUntaken /\ FlagIsHeld
  BY <1>1 DEF NoRowIsQuiet, QueuedIsUntaken, FlagIsHeld
<1>5. QueuedSentOnce
  BY DEF DrInit, QueuedSentOnce
<1>. QED
  BY <1>2, <1>3, <1>4, <1>5 DEF DrInv

LEMMA DrStepInv == DrInv /\ [DrNext]_drVars => DrInv'
<1>. SUFFICES ASSUME DrInv, [DrNext]_drVars PROVE DrInv'
  OBVIOUS
<1>1. ASSUME NEW a \in Tab,
             \/ ensure_follow_up_draft_row(a) \/ InsertDraft(a)
             \/ save_follow_up_draft(a) \/ SaveDraft(a)
      PROVE  DrInv'
  BY <1>1, EditStep
<1>2. ASSUME NEW a \in Tab, \E queued \in BOOLEAN : set_follow_up_queue(a, queued)
      PROVE  DrInv'
  BY <1>2, QueueStep
<1>3. ASSUME NEW a \in Tab,
             ReadQueued(a) \/ has_running_processes_for_attempt(a) \/ follow_up_clears(a)
      PROVE  DrInv'
  BY <1>3, LookStep
<1>4. ASSUME NEW a \in Tab,
             save_retry_follow_up_draft(a) \/ delete_retry_follow_up_draft(a)
      PROVE  DrInv'
  BY <1>4, RetryStep
<1>5. CASE AgentEnds \/ try_consume_queued_followup \/ LoadDraft
  BY <1>5, MonitorStep
<1>6. ASSUME NEW a \in Actor,
             Mark(a) \/ start_follow_up_from_draft(a) \/ StartFails(a) \/ ClearSent(a)
      PROVE  DrInv'
  BY <1>6, MarkStep, StartFollowUpStep, StartFailsStep, ClearSentStep
<1>7. CASE DraftCrash
  BY <1>7, DraftCrashStep
<1>8. ASSUME UNCHANGED drVars PROVE DrInv'
  BY <1>8 DEF drVars, DrInv, DrTypeOK, NoRowIsQuiet, SenderHasTicket, QueuedIsUntaken,
      Waits, QueuedSentOnce, FlagIsHeld
<1>9. ASSUME NEW a \in Tab, QueueRefused(a) PROVE DrInv'
  BY <1>8, <1>9 DEF QueueRefused
<1>. QED
  BY <1>1, <1>2, <1>3, <1>4, <1>5, <1>6, <1>7, <1>8, <1>9 DEF DrNext

(* The variables keep their types, and a draft that is queued and not being
   sent has a queueing that no sender has taken. *)
THEOREM DraftInvariant == DrSpec => []DrInv
  BY DrInitInv, DrStepInv, PTL DEF DrSpec

(* However many tabs, and the exit monitor with them, have read the same queued
   draft, try_mark_sending lets one of them start a process for it. *)
THEOREM SentOnce == DrSpec => []QueuedSentOnce
<1>1. DrInv => QueuedSentOnce
  BY DEF DrInv
<1>. QED
  BY <1>1, DraftInvariant, PTL

(* The sending flag is left behind only by a sender that failed or was killed
   between taking it and clear_after_send. *)
THEOREM FlagStaysHeld == DrSpec => []FlagIsHeld
<1>1. DrInv => FlagIsHeld
  BY DEF DrInv
<1>. QED
  BY <1>1, DraftInvariant, PTL

-----------------------------------------------------------------------------
(* The diff stream.                                                        *)

Entry == [path : File \cup {None}, from : File \cup {None},
          contents : (Content \cup {None}) \X (Content \cup {None}), omitted : BOOLEAN]
DiffMsg == [op : {"add", "remove", "error", "finished"}, path : File \cup {None}, diff : Entry]

(* A message with a path adds the entry of that path or removes it; the    *)
(* others have none.                                                       *)
SoundMsg(m) == /\ m.path = None <=> m.op \in {"error", "finished"}
               /\ m.op = "remove" => m.diff = NoEntry

DsTypeOK ==
  /\ attempt \in [base : Tree, merged : BOOLEAN, stats : BOOLEAN]
  /\ tree \in Tree /\ ignores \subseteq File
  /\ stream \in {"idle", "sending", "live", "merged", "dropped"}
  /\ outbox \in Seq(DiffMsg) /\ diffChannel \in Seq(DiffMsg)
  /\ sentBytes \in Nat /\ fullSent \subseteq File
  /\ watcher \in {"off", "starting", "on", "ended"} /\ watchIgnores \subseteq File
  /\ fsEvents \subseteq SUBSET File /\ batches \in Seq(SUBSET File)
  /\ client \in {"open", "left"} /\ shown \in [File -> Entry]
  /\ changes \in Nat /\ unseen \subseteq File

(* Every message on its way, in the order the client gets them.            *)
OnTheWay == diffChannel \o outbox

SoundMsgs == \A i \in 1 .. Len(OnTheWay) : SoundMsg(OnTheWay[i])

(* Nothing is left of an earlier socket when one is opened.                *)
StartsClean ==
  /\ stream \in {"idle", "dropped"} =>
       outbox = << >> /\ diffChannel = << >> /\ fsEvents = {} /\ batches = << >>
  /\ stream = "idle" => /\ shown = NothingShown /\ unseen = {}
                        /\ sentBytes = 0 /\ fullSent = {}
  /\ watcher # "off" => stream = "live"

(* A stream of statistics never sends contents.                            *)
StatsOmit == attempt.stats /\ stream \in {"sending", "live"} => fullSent = {}

(* What DiffInStep asks of the entry e of f when sent bytes are sent and   *)
(* the paths in full had their contents sent.                              *)
FitsIn(f, sent) == /\ Large \notin {attempt.base[f], tree[f]}
                   /\ attempt.stats \/ sent + 2 <= MaxBytes

GoodIn(f, e, sent, full) ==
  /\ Staged[f] = attempt.base[f] => e = NoEntry
  /\ Staged[f] \notin {attempt.base[f], None} /\ (FitsIn(f, sent) \/ f \notin full) => e # NoEntry
  /\ e # NoEntry /\ FitsIn(f, sent) => e.contents[2] = Staged[f]

Good(f, e) == GoodIn(f, e, sentBytes, fullSent)

(* The entry the client will show for f once it has every message.         *)
EndsGood(f) ==
  /\ (\A i \in 1 .. Len(OnTheWay) : OnTheWay[i].path # f) => Good(f, shown[f])
  /\ \A i \in 1 .. Len(OnTheWay) :
       /\ OnTheWay[i].path = f
       /\ \A j \in 1 .. Len(OnTheWay) : j > i => OnTheWay[j].path # f
       => Good(f, OnTheWay[i].diff)

Awaited(f) == \/ \E e \in fsEvents : f \in e
              \/ \E i \in 1 .. Len(batches) : f \in batches[i]

WillBeGood ==
  stream \in {"sending", "live"} /\ watcher # "ended" =>
    \A f \in File \ unseen : Awaited(f) \/ EndsGood(f)

DiffInv == DsTypeOK /\ SoundMsgs /\ StartsClean /\ StatsOmit /\ WillBeGood

-----------------------------------------------------------------------------
(* What git reports, and what the budget leaves of it.                     *)

LEMMA ImageIsFinite ==
  ASSUME NEW S, IsFiniteSet(S), NEW f, f = [x \in S |-> f[x]]
  PROVE  IsFiniteSet({f[x] : x \in S})
<1> DEFINE T == {f[x] : x \in S}
<1>1. f \in [S -> T]
  OBVIOUS
<1>2. \A t \in T : \E x \in S : f[x] = t
  OBVIOUS
<1>3. f \in Surjection(S, T)
  <2> HIDE DEF T
  <2> QED
    BY <1>1, <1>2 DEF Surjection
<1> QED
  BY <1>3, FS_Surjection

LEMMA RenamesMatch ==
  ASSUME NEW old, NEW new, NEW changed, changed \subseteq File
  PROVE  \A r \in Renames(old, new, changed) :
           /\ r \in changed \X changed
           /\ new[r[1]] = None /\ old[r[2]] = None /\ old[r[1]] = new[r[2]]
<1> DEFINE same == {r \in changed \X changed :
                      /\ new[r[1]] = None /\ old[r[2]] = None /\ old[r[1]] = new[r[2]]}
           matchings == {m \in SUBSET same :
                           \A r, s \in m : r = s \/ (r[1] # s[1] /\ r[2] # s[2])}
<1>1. IsFiniteSet(same)
  <2>1. IsFiniteSet(changed)
    BY DiffStreamAssumption, FS_Subset
  <2>2. IsFiniteSet(changed \X changed)
    BY <2>1, FS_Product
  <2> QED
    BY <2>2, FS_Subset
<1>2. {} \in matchings
  OBVIOUS
<1>3. \A m \in matchings : m \subseteq same
  OBVIOUS
<1>4. Renames(old, new, changed)
        = CHOOSE m \in matchings : \A n \in matchings : Cardinality(n) <= Cardinality(m)
  BY DEF Renames
<1>5. Renames(old, new, changed) \in matchings
  <2> HIDE DEF matchings, same
  <2>1. \A m \in matchings : Cardinality(m) \in 0 .. Cardinality(same)
    BY <1>1, <1>3, FS_Subset, FS_CardinalityType
  <2>2. Cardinality(same) \in Nat
    BY <1>1, FS_CardinalityType
  <2> DEFINE sizes == {Cardinality(m) : m \in matchings}
  <2>3. sizes \subseteq 0 .. Cardinality(same) /\ sizes # {}
    BY <1>2, <2>1
  <2>4. PICK n \in sizes : \A k \in sizes : n >= k
    <3> HIDE DEF sizes
    <3> QED
      BY <2>2, <2>3, GreatestIsThere
  <2>5. PICK m \in matchings : n = Cardinality(m)
    OBVIOUS
  <2>6. \A k \in matchings : Cardinality(k) <= Cardinality(m)
    <3> SUFFICES ASSUME NEW k \in matchings PROVE Cardinality(k) <= Cardinality(m)
      OBVIOUS
    <3>1. Cardinality(k) \in sizes /\ Cardinality(k) \in Nat /\ Cardinality(m) \in Nat
      BY <2>1, <2>2
    <3> QED
      BY <2>4, <2>5, <3>1
  <2> QED
    BY <1>4, <2>6
<1> QED
  BY <1>5

LEMMA FileDiffIs ==
  ASSUME NEW old \in Tree, NEW new \in Tree, NEW f \in File, NEW from \in File \cup {None}
  PROVE  LET d == FileDiff(f, from, old, new)
             side == IF from = None THEN None ELSE old[from]
         IN  /\ d \in Entry /\ d.path = f
             /\ Large \notin {side, new[f]} => ~d.omitted /\ d.contents[2] = new[f]
<1> DEFINE side == IF from = None THEN None ELSE old[from]
           sides == <<side, new[f]>>
           large == Large \in {side, new[f]}
           d == FileDiff(f, from, old, new)
<1>1. side \in Content \cup {None} /\ new[f] \in Content \cup {None}
  BY DEF Tree
<1>2. d = [path |-> f, from |-> from, omitted |-> large,
           contents |-> IF large THEN <<None, None>> ELSE sides]
  BY DEF FileDiff
<1>3. /\ sides \in (Content \cup {None}) \X (Content \cup {None})
      /\ <<None, None>> \in (Content \cup {None}) \X (Content \cup {None})
      /\ sides[2] = new[f]
  BY <1>1
<1> HIDE DEF side, sides, d
<1>4. /\ d.path = f /\ d.omitted = large
      /\ d.contents = IF large THEN <<None, None>> ELSE sides
      /\ d \in Entry
  BY <1>2, <1>3 DEF Entry
<1> QED
  BY <1>3, <1>4 DEF d, side

LEMMA DiffsAre ==
  ASSUME NEW old \in Tree, NEW new \in Tree, NEW paths, paths \subseteq File
  PROVE  LET D == get_diffs(old, new, paths)
         IN  /\ IsFiniteSet(D) /\ D \subseteq Entry
             /\ \A d \in D : /\ d.path \in paths /\ old[d.path] # new[d.path]
                             /\ Large \notin {old[d.path], new[d.path]} =>
                                  ~d.omitted /\ d.contents[2] = new[d.path]
             /\ \A f \in paths : new[f] \notin {old[f], None} => \E d \in D : d.path = f
<1> DEFINE changed == {f \in paths : old[f] # new[f]}
           renames == Renames(old, new, changed)
           sources == {r[1] : r \in renames}
           targets == {r[2] : r \in renames}
           moved == {FileDiff(r[2], r[1], old, new) : r \in renames}
           Plain(f) == FileDiff(f, IF old[f] = None THEN None ELSE f, old, new)
           rest == changed \ (sources \cup targets)
           plain == {Plain(f) : f \in rest}
<1>1. get_diffs(old, new, paths) = moved \cup plain
  BY DEF get_diffs
<1>2. changed \subseteq File /\ None \notin File /\ None \notin Content
  BY DiffStreamAssumption
<1>3. \A r \in renames : /\ r \in changed \X changed
                         /\ new[r[1]] = None /\ old[r[2]] = None /\ old[r[1]] = new[r[2]]
  <2> HIDE DEF changed
  <2> QED
    BY <1>2, RenamesMatch
<1>4. IsFiniteSet(moved \cup plain)
  <2>1. IsFiniteSet(changed)
    BY <1>2, DiffStreamAssumption, FS_Subset
  <2>2. IsFiniteSet(changed \X changed)
    BY <2>1, FS_Product
  <2>3. IsFiniteSet(renames) /\ IsFiniteSet(rest)
    <3> HIDE DEF renames
    <3> QED
      BY <1>3, <2>1, <2>2, FS_Subset
  <2>4. IsFiniteSet(moved)
    <3> HIDE DEF renames
    <3> DEFINE g == [r \in renames |-> FileDiff(r[2], r[1], old, new)]
    <3>0. g = [r \in renames |-> g[r]]
      OBVIOUS
    <3> HIDE DEF g
    <3>1. IsFiniteSet({g[r] : r \in renames})
      BY <2>3, <3>0, ImageIsFinite
    <3> USE DEF g
    <3>2. moved = {g[r] : r \in renames}
      OBVIOUS
    <3> QED
      BY <3>1, <3>2
  <2>5. IsFiniteSet(plain)
    <3> HIDE DEF rest
    <3> DEFINE g == [f \in rest |-> Plain(f)]
    <3>1. IsFiniteSet({g[f] : f \in rest})
      BY <2>3, ImageIsFinite
    <3>2. plain = {g[f] : f \in rest}
      OBVIOUS
    <3> QED
      BY <3>1, <3>2
  <2> QED
    BY <2>4, <2>5, FS_Union
<1>5. ASSUME NEW d \in moved
      PROVE  /\ d \in Entry /\ d.path \in paths /\ old[d.path] # new[d.path]
             /\ Large \notin {old[d.path], new[d.path]} =>
                  ~d.omitted /\ d.contents[2] = new[d.path]
  <2>1. PICK r \in renames : d = FileDiff(r[2], r[1], old, new)
    OBVIOUS
  <2>2. /\ r[1] \in changed /\ r[2] \in changed /\ r[1] \in File /\ r[2] \in File
        /\ old[r[1]] = new[r[2]] /\ r[1] # None
    BY <1>2, <1>3
  <2> HIDE DEF changed, renames
  <2>3. /\ d \in Entry /\ d.path = r[2]
        /\ Large \notin {old[r[1]], new[r[2]]} => ~d.omitted /\ d.contents[2] = new[r[2]]
    BY <2>1, <2>2, FileDiffIs
  <2> QED
    BY <2>2, <2>3 DEF changed
<1>6. ASSUME NEW d \in plain
      PROVE  /\ d \in Entry /\ d.path \in paths /\ old[d.path] # new[d.path]
             /\ Large \notin {old[d.path], new[d.path]} =>
                  ~d.omitted /\ d.contents[2] = new[d.path]
  <2>1. PICK f \in changed : d = Plain(f)
    OBVIOUS
  <2> DEFINE from == IF old[f] = None THEN None ELSE f
  <2>2. f \in File /\ from \in File \cup {None} /\ Large # None
    BY <1>2, <2>1, DiffStreamAssumption
  <2>3. /\ d \in Entry /\ d.path = f
        /\ Large \notin {IF from = None THEN None ELSE old[from], new[f]} =>
             ~d.omitted /\ d.contents[2] = new[f]
    <3> HIDE DEF from, changed
    <3> QED
      BY <2>1, <2>2, FileDiffIs DEF from
  <2> QED
    BY <2>1, <2>2, <2>3
<1>7. ASSUME NEW f \in paths, new[f] \notin {old[f], None}
      PROVE  \E d \in moved \cup plain : d.path = f
  <2>1. f \in changed /\ f \notin sources
    <3> HIDE DEF renames
    <3> QED
      BY <1>3, <1>7
  <2>2. CASE f \in targets
    <3>1. PICK r \in renames : r[2] = f
      BY <2>2
    <3>2. FileDiff(r[2], r[1], old, new).path = f
      BY <3>1 DEF FileDiff
    <3> QED
      BY <3>2
  <2>3. CASE f \notin targets
    <3>1. f \in rest /\ Plain(f).path = f
      BY <2>1, <2>3 DEF FileDiff
    <3> QED
      BY <3>1
  <2> QED
    BY <2>2, <2>3
<1> HIDE DEF moved, plain
<1> QED
  BY <1>1, <1>4, <1>5, <1>6, <1>7

LEMMA PolicyIs ==
  ASSUME DsTypeOK, NEW d \in Entry, NEW sent \in Nat
  PROVE  LET c == apply_stream_omit_policy(d, sent)
         IN  /\ c.sent \in Nat /\ c.sent >= sent
             /\ c.diff \in Entry /\ c.diff.path = d.path /\ c.diff.contents = d.contents
             /\ attempt.stats => c.diff.omitted
             /\ ~d.omitted /\ ~attempt.stats /\ c.sent + 2 <= MaxBytes => ~c.diff.omitted
<1>1. Bytes(d) \in 0 .. 2
  <2> DEFINE sides == {i \in 1 .. 2 : d.contents[i] # None}
  <2>0. \A n \in Nat : IsFiniteSet(1 .. n) /\ Cardinality(1 .. n) = n
    BY FS_Interval
  <2>1. IsFiniteSet(1 .. 2) /\ Cardinality(1 .. 2) = 2
    BY <2>0
  <2>2. sides \subseteq 1 .. 2
    OBVIOUS
  <2> HIDE DEF sides
  <2>3. Cardinality(sides) \in Nat /\ Cardinality(sides) <= 2
    BY <2>1, <2>2, FS_Subset, FS_CardinalityType
  <2> QED
    BY <2>3 DEF Bytes, sides
<1>2. /\ [d EXCEPT !.omitted = TRUE] \in Entry
      /\ [d EXCEPT !.omitted = TRUE].path = d.path
      /\ [d EXCEPT !.omitted = TRUE].contents = d.contents
      /\ [d EXCEPT !.omitted = TRUE].omitted
  BY DEF Entry
<1>3. MaxBytes \in Nat
  BY DiffStreamAssumption
<1> HIDE DEF Entry
<1> QED
  BY <1>1, <1>2, <1>3 DEF apply_stream_omit_policy

(* Whatever order the diffs are charged in.                                *)
LEMMA ChargedAre ==
  ASSUME DsTypeOK, NEW D, IsFiniteSet(D), D \subseteq Entry, NEW sent \in Nat
  PROVE  LET c == Charged(D, sent)
         IN  /\ c.sent \in Nat /\ c.sent >= sent
             /\ IsFiniteSet(c.diffs) /\ c.diffs \subseteq Entry
             /\ \A d \in D : \E e \in c.diffs : e.path = d.path
             /\ \A e \in c.diffs : \E d \in D :
                  /\ e.path = d.path /\ e.contents = d.contents
                  /\ attempt.stats => e.omitted
                  /\ ~d.omitted /\ ~attempt.stats /\ c.sent + 2 <= MaxBytes => ~e.omitted
<1> DEFINE order == SetToSeq(D)
           n == Len(order)
           total[i \in 0 .. n] ==
             IF i = 0 THEN sent ELSE apply_stream_omit_policy(order[i], total[i - 1]).sent
           T == [i \in 1 .. n |-> [v \in Nat |-> apply_stream_omit_policy(order[i], v).sent]]
<1>1. order \in Seq(D) /\ {order[i] : i \in 1 .. n} = D /\ n \in Nat
  <2>1. SetToSeq(D) \in Seq(D) /\ {SetToSeq(D)[i] : i \in 1 .. Len(SetToSeq(D))} = D
    BY SetToSeqHasAll
  <2> QED
    BY <2>1
<1>2. \A i \in 1 .. n : order[i] \in Entry /\ i \in 0 .. n /\ i - 1 \in 0 .. n
  BY <1>1
<1> HIDE DEF order, n
<1>3. T \in [1 .. n -> [Nat -> Nat]]
  BY <1>2, PolicyIs
<1>4. PICK g \in [0 .. n -> Nat] : Steps(g, n, sent, T)
  <2> HIDE DEF T, n
  <2> QED
    BY <1>1, <1>3, StepsExist
<1>5. g = [i \in 0 .. n |-> IF i = 0 THEN sent
                            ELSE apply_stream_omit_policy(order[i], g[i - 1]).sent]
  <2>1. \A i \in 1 .. n : g[i - 1] \in Nat
    BY <1>1
  <2>2. \A i \in 1 .. n : T[i][g[i - 1]] = apply_stream_omit_policy(order[i], g[i - 1]).sent
    BY <2>1
  <2>3. /\ g[0] = sent
        /\ \A i \in 1 .. n : g[i] = apply_stream_omit_policy(order[i], g[i - 1]).sent
    <3> HIDE DEF T
    <3> QED
      BY <1>4, <2>2 DEF Steps
  <2>4. \A i \in 0 .. n : g[i] = IF i = 0 THEN sent
                                  ELSE apply_stream_omit_policy(order[i], g[i - 1]).sent
    <3>1. \A i \in 0 .. n : i = 0 \/ i \in 1 .. n
      BY <1>1
    <3> QED
      BY <2>3, <3>1
  <2> QED
    BY <2>4
<1>6. total = [i \in 0 .. n |-> IF i = 0 THEN sent
                            ELSE apply_stream_omit_policy(order[i], total[i - 1]).sent]
  BY <1>5
<1> HIDE DEF total, T
<1>7. Charged(D, sent) =
        [diffs |-> {apply_stream_omit_policy(order[i], total[i - 1]).diff : i \in 1 .. n},
         sent |-> total[n]]
  BY DEF Charged, order, total, n
<1>8. /\ total[0] = sent
      /\ \A i \in 1 .. n : total[i] = apply_stream_omit_policy(order[i], total[i - 1]).sent
  <2>1. 0 \in 0 .. n /\ \A i \in 1 .. n : i # 0
    BY <1>1
  <2> QED
    BY <1>2, <1>6, <2>1
<1> DEFINE up == {i \in 0 .. n : total[i] \in Nat /\ total[i] >= sent}
<1>9. 0 .. n \subseteq up
  <2>1. 0 \in up
    BY <1>1, <1>8
  <2>2. ASSUME NEW i \in 1 .. n, i - 1 \in up PROVE i \in up
    <3>1. total[i - 1] \in Nat /\ total[i - 1] >= sent /\ order[i] \in Entry /\ i \in 0 .. n
      BY <1>1, <1>2, <2>2
    <3>2. total[i] \in Nat /\ total[i] >= total[i - 1]
      BY <1>8, <3>1, PolicyIs
    <3> QED
      BY <3>1, <3>2
  <2> HIDE DEF up
  <2> QED
    BY <1>1, <2>1, <2>2, UpTo
<1>10. \A i \in 0 .. n : total[i] \in Nat /\ total[i] >= sent
  BY <1>9
<1>11. ASSUME NEW k \in 1 .. n PROVE total[n] >= total[k]
  <2> DEFINE over == {i \in 0 .. n : i >= k => total[i] >= total[k]}
  <2>1. 0 \in over
    BY <1>1
  <2>2. ASSUME NEW i \in 1 .. n, i - 1 \in over PROVE i \in over
    <3>1. total[i - 1] \in Nat /\ total[k] \in Nat /\ order[i] \in Entry /\ i \in 0 .. n
      BY <1>1, <1>2, <1>10
    <3>2. total[i] \in Nat /\ total[i] >= total[i - 1]
      BY <1>8, <3>1, PolicyIs
    <3> QED
      BY <2>2, <3>1, <3>2
  <2>3. 0 .. n \subseteq over
    <3> HIDE DEF over
    <3> QED
      BY <1>1, <2>1, <2>2, UpTo
  <2> QED
    BY <1>1, <2>3
<1> DEFINE c(i) == apply_stream_omit_policy(order[i], total[i - 1])
<1>12. ASSUME NEW i \in 1 .. n
       PROVE  /\ c(i).diff \in Entry /\ c(i).diff.path = order[i].path
              /\ c(i).diff.contents = order[i].contents
              /\ attempt.stats => c(i).diff.omitted
              /\ ~order[i].omitted /\ ~attempt.stats /\ total[n] + 2 <= MaxBytes =>
                   ~c(i).diff.omitted
  <2>1. /\ total[i - 1] \in Nat /\ order[i] \in Entry /\ total[n] >= total[i]
        /\ total[n] \in Nat /\ total[i] \in Nat /\ MaxBytes \in Nat
    BY <1>1, <1>2, <1>10, <1>11, DiffStreamAssumption
  <2>2. total[i] = c(i).sent
    BY <1>8
  <2>3. /\ c(i).diff \in Entry /\ c(i).diff.path = order[i].path
        /\ c(i).diff.contents = order[i].contents
        /\ attempt.stats => c(i).diff.omitted
        /\ ~order[i].omitted /\ ~attempt.stats /\ c(i).sent + 2 <= MaxBytes =>
             ~c(i).diff.omitted
    <3> HIDE DEF Entry
    <3> QED
      BY <2>1, PolicyIs
  <2> HIDE DEF c
  <2> QED
    BY <2>1, <2>2, <2>3
<1> DEFINE diffs == {c(i).diff : i \in 1 .. n}
<1>13. IsFiniteSet(diffs)
  <2> DEFINE h == [i \in 1 .. n |-> c(i).diff]
  <2>1. IsFiniteSet(1 .. n)
    BY <1>1, FS_Interval
  <2>2. IsFiniteSet({h[i] : i \in 1 .. n})
    <3>1. h = [i \in 1 .. n |-> h[i]]
      OBVIOUS
    <3> HIDE DEF h
    <3> QED
      BY <2>1, <3>1, ImageIsFinite
  <2>3. diffs = {h[i] : i \in 1 .. n}
    OBVIOUS
  <2> QED
    BY <2>2, <2>3
<1>14. Charged(D, sent).diffs = diffs /\ Charged(D, sent).sent = total[n]
  BY <1>7
<1>15. \A d \in D : \E e \in diffs : e.path = d.path
  <2> SUFFICES ASSUME NEW d \in D PROVE \E e \in diffs : e.path = d.path
    OBVIOUS
  <2>1. PICK i \in 1 .. n : order[i] = d
    BY <1>1
  <2> QED
    BY <1>12, <2>1
<1>16. \A e \in diffs : /\ e \in Entry
                        /\ \E d \in D :
                             /\ e.path = d.path /\ e.contents = d.contents
                             /\ attempt.stats => e.omitted
                             /\ ~d.omitted /\ ~attempt.stats /\ total[n] + 2 <= MaxBytes =>
                                  ~e.omitted
  <2> SUFFICES ASSUME NEW i \in 1 .. n
               PROVE  /\ c(i).diff \in Entry
                      /\ \E d \in D :
                           /\ c(i).diff.path = d.path /\ c(i).diff.contents = d.contents
                           /\ attempt.stats => c(i).diff.omitted
                           /\ ~d.omitted /\ ~attempt.stats /\ total[n] + 2 <= MaxBytes =>
                                ~c(i).diff.omitted
    OBVIOUS
  <2>1. order[i] \in D
    BY <1>1
  <2> HIDE DEF c
  <2> QED
    BY <1>12, <2>1
<1>17. total[n] \in Nat /\ total[n] >= sent
  BY <1>1, <1>10
<1> HIDE DEF diffs, c
<1> QED
  BY <1>13, <1>14, <1>15, <1>16, <1>17

(* What the stream knows of the paths it asked git for: c are the charged  *)
(* diffs.                                                                  *)
Reports(c, paths) ==
  /\ c.sent \in Nat /\ IsFiniteSet(c.diffs) /\ c.diffs \subseteq Entry
  /\ \A e \in c.diffs :
       /\ e.path \in paths /\ Staged[e.path] # attempt.base[e.path]
       /\ attempt.stats => e.omitted
       /\ FitsIn(e.path, c.sent) =>
            e.contents[2] = Staged[e.path] /\ (attempt.stats \/ ~e.omitted)
  /\ \A f \in paths : Staged[f] \notin {attempt.base[f], None} => \E e \in c.diffs : e.path = f

LEMMA StagedIsTree == DsTypeOK => Staged \in Tree
  BY DEF DsTypeOK, Staged, Tree

LEMMA ChargedReport ==
  ASSUME DsTypeOK, NEW paths, paths \subseteq File, NEW sent \in Nat
  PROVE  LET c == Charged(get_diffs(attempt.base, Staged, paths), sent)
         IN  Reports(c, paths) /\ c.sent >= sent
<1> DEFINE D == get_diffs(attempt.base, Staged, paths)
           c == Charged(D, sent)
<1>1. attempt.base \in Tree /\ Staged \in Tree
  BY StagedIsTree DEF DsTypeOK
<1>2. /\ IsFiniteSet(D) /\ D \subseteq Entry
      /\ \A d \in D : /\ d.path \in paths /\ attempt.base[d.path] # Staged[d.path]
                      /\ Large \notin {attempt.base[d.path], Staged[d.path]} =>
                           ~d.omitted /\ d.contents[2] = Staged[d.path]
      /\ \A f \in paths : Staged[f] \notin {attempt.base[f], None} => \E d \in D : d.path = f
  BY <1>1, DiffsAre
<1> HIDE DEF D
<1>3. /\ c.sent \in Nat /\ c.sent >= sent
      /\ IsFiniteSet(c.diffs) /\ c.diffs \subseteq Entry
      /\ \A d \in D : \E e \in c.diffs : e.path = d.path
      /\ \A e \in c.diffs : \E d \in D :
           /\ e.path = d.path /\ e.contents = d.contents
           /\ attempt.stats => e.omitted
           /\ ~d.omitted /\ ~attempt.stats /\ c.sent + 2 <= MaxBytes => ~e.omitted
  BY <1>2, ChargedAre, Zenon
<1> HIDE DEF c
<1>4. ASSUME NEW f \in File, FitsIn(f, c.sent)
      PROVE  /\ Large \notin {attempt.base[f], Staged[f]}
             /\ attempt.stats \/ c.sent + 2 <= MaxBytes
  BY <1>4, DiffStreamAssumption DEF FitsIn, Staged
<1>5. ASSUME NEW e \in c.diffs
      PROVE  /\ e.path \in paths /\ Staged[e.path] # attempt.base[e.path]
             /\ attempt.stats => e.omitted
             /\ FitsIn(e.path, c.sent) =>
                  e.contents[2] = Staged[e.path] /\ (attempt.stats \/ ~e.omitted)
  <2>1. PICK d \in D :
           /\ e.path = d.path /\ e.contents = d.contents
           /\ attempt.stats => e.omitted
           /\ ~d.omitted /\ ~attempt.stats /\ c.sent + 2 <= MaxBytes => ~e.omitted
    BY <1>3
  <2>2. e.path \in File /\ d.path \in paths
    BY <1>2, <2>1
  <2> QED
    BY <1>2, <1>4, <2>1, <2>2
<1>6. ASSUME NEW f \in paths, Staged[f] \notin {attempt.base[f], None}
      PROVE  \E e \in c.diffs : e.path = f
  BY <1>2, <1>3, <1>6
<1>7. Reports(c, paths) /\ c.sent >= sent
  BY <1>3, <1>5, <1>6 DEF Reports
<1> QED
  BY <1>7 DEF c, D

-----------------------------------------------------------------------------
(* Messages *)

LEMMA MsgIs == /\ \A d : add_diff(d).path = d.path /\ add_diff(d).diff = d
               /\ \A f : remove_diff(f).path = f /\ remove_diff(f).diff = NoEntry
  BY DEF add_diff, remove_diff

LEMMA AddAllIs ==
  ASSUME NEW diffs, IsFiniteSet(diffs), diffs \subseteq Entry, \A d \in diffs : d.path \in File
  PROVE  LET q == AddAll(diffs)
         IN  /\ q \in Seq(DiffMsg)
             /\ \A i \in 1 .. Len(q) : SoundMsg(q[i]) /\ \E d \in diffs : q[i] = add_diff(d)
             /\ \A d \in diffs : \E i \in 1 .. Len(q) : q[i] = add_diff(d)
<1> DEFINE msgs == {add_diff(d) : d \in diffs}
           q == SetToSeq(msgs)
<1>1. IsFiniteSet(msgs)
  <2> DEFINE g == [d \in diffs |-> add_diff(d)]
  <2>1. g = [d \in diffs |-> g[d]]
    OBVIOUS
  <2>2. IsFiniteSet({g[d] : d \in diffs})
    <3> HIDE DEF g
    <3> QED
      BY <2>1, ImageIsFinite
  <2>3. msgs = {g[d] : d \in diffs}
    OBVIOUS
  <2> QED
    BY <2>2, <2>3
<1>2. \A m \in msgs : m \in DiffMsg /\ SoundMsg(m)
  <2> SUFFICES ASSUME NEW d \in diffs PROVE add_diff(d) \in DiffMsg /\ SoundMsg(add_diff(d))
    OBVIOUS
  <2>1. d \in Entry /\ d.path \in File /\ d.path # None
    BY DiffStreamAssumption
  <2> HIDE DEF Entry
  <2> QED
    BY <2>1 DEF add_diff, DiffMsg, SoundMsg
<1>3. \A m \in msgs : \E d \in diffs : m = add_diff(d)
  OBVIOUS
<1>4. \A d \in diffs : add_diff(d) \in msgs
  OBVIOUS
<1> HIDE DEF msgs
<1>5. q \in Seq(msgs) /\ {q[i] : i \in 1 .. Len(q)} = msgs
  BY <1>1, SetToSeqHasAll
<1>6. \A i \in 1 .. Len(q) : q[i] \in msgs
  BY <1>5
<1>7. q \in Seq(DiffMsg)
  BY <1>2, <1>5, <1>6
<1>8. q = AddAll(diffs)
  BY DEF AddAll, msgs
<1>9. \A m \in msgs : \E i \in 1 .. Len(q) : q[i] = m
  BY <1>5
<1> HIDE DEF q
<1> QED
  BY <1>2, <1>3, <1>4, <1>6, <1>7, <1>8, <1>9, Zenon

LEMMA RemoveAllIs ==
  ASSUME NEW gone, gone \subseteq File
  PROVE  LET q == RemoveAll(gone)
         IN  /\ q \in Seq(DiffMsg)
             /\ \A i \in 1 .. Len(q) : SoundMsg(q[i]) /\ \E f \in gone : q[i] = remove_diff(f)
             /\ \A f \in gone : \E i \in 1 .. Len(q) : q[i] = remove_diff(f)
<1> DEFINE msgs == {remove_diff(f) : f \in gone}
           q == SetToSeq(msgs)
<1>1. IsFiniteSet(msgs)
  <2> DEFINE g == [f \in gone |-> remove_diff(f)]
  <2>0. IsFiniteSet(gone)
    BY DiffStreamAssumption, FS_Subset
  <2>1. g = [f \in gone |-> g[f]]
    OBVIOUS
  <2>2. IsFiniteSet({g[f] : f \in gone})
    <3> HIDE DEF g
    <3> QED
      BY <2>0, <2>1, ImageIsFinite
  <2>3. msgs = {g[f] : f \in gone}
    OBVIOUS
  <2> QED
    BY <2>2, <2>3
<1>2. \A m \in msgs : m \in DiffMsg /\ SoundMsg(m)
  <2> SUFFICES ASSUME NEW f \in gone PROVE remove_diff(f) \in DiffMsg /\ SoundMsg(remove_diff(f))
    OBVIOUS
  <2>1. f \in File /\ f # None /\ NoEntry \in Entry
    BY DiffStreamAssumption DEF NoEntry, Entry
  <2> HIDE DEF Entry
  <2> QED
    BY <2>1 DEF remove_diff, DiffMsg, SoundMsg
<1>3. \A m \in msgs : \E f \in gone : m = remove_diff(f)
  OBVIOUS
<1>4. \A f \in gone : remove_diff(f) \in msgs
  OBVIOUS
<1> HIDE DEF msgs
<1>5. q \in Seq(msgs) /\ {q[i] : i \in 1 .. Len(q)} = msgs
  BY <1>1, SetToSeqHasAll
<1>6. \A i \in 1 .. Len(q) : q[i] \in msgs
  BY <1>5
<1>7. q \in Seq(DiffMsg)
  BY <1>2, <1>5, <1>6
<1>8. q = RemoveAll(gone)
  BY DEF RemoveAll, msgs
<1>9. \A m \in msgs : \E i \in 1 .. Len(q) : q[i] = m
  BY <1>5
<1> HIDE DEF q
<1> QED
  BY <1>2, <1>3, <1>4, <1>6, <1>7, <1>8, <1>9, Zenon

(* The messages of m after those of q.                                     *)
LEMMA AfterIs ==
  ASSUME NEW q \in Seq(DiffMsg), NEW m \in Seq(DiffMsg)
  PROVE  /\ q \o m \in Seq(DiffMsg) /\ Len(q \o m) = Len(q) + Len(m)
         /\ Len(q) \in Nat /\ Len(m) \in Nat
         /\ \A i \in 1 .. Len(q) : (q \o m)[i] = q[i]
         /\ \A i \in 1 .. Len(m) : (q \o m)[Len(q) + i] = m[i]
  OBVIOUS

-----------------------------------------------------------------------------
(* Which entries are good.                                                 *)

LEMMA GoodLater ==
  ASSUME NEW f, NEW e, NEW s \in Nat, NEW t \in Nat, s <= t, NEW full, NEW more,
         full \subseteq more, GoodIn(f, e, s, full)
  PROVE  GoodIn(f, e, t, more)
<1>1. FitsIn(f, t) => FitsIn(f, s)
  BY DiffStreamAssumption DEF FitsIn
<1> QED
  BY <1>1 DEF GoodIn

LEMMA ReportedIsGood ==
  ASSUME NEW paths, paths \subseteq File, NEW c, Reports(c, paths), NEW f \in paths, NEW more
  PROVE  /\ \A e \in c.diffs : e.path = f => GoodIn(f, e, c.sent, more)
         /\ (\A e \in c.diffs : e.path # f) => GoodIn(f, NoEntry, c.sent, more)
         /\ \A e \in c.diffs : e.path = f /\ e.omitted /\ f \in more /\ ~attempt.stats =>
                                \A x : GoodIn(f, x, c.sent, more)
<1>1. f # None /\ NoEntry.path = None
  BY DiffStreamAssumption DEF NoEntry
<1>2. ASSUME NEW e \in c.diffs, e.path = f
      PROVE  /\ Staged[f] # attempt.base[f] /\ e # NoEntry
             /\ FitsIn(f, c.sent) => e.contents[2] = Staged[f] /\ (attempt.stats \/ ~e.omitted)
  BY <1>1, <1>2 DEF Reports
<1>3. (\A e \in c.diffs : e.path # f) => Staged[f] \in {attempt.base[f], None}
  BY DEF Reports
<1> QED
  BY <1>2, <1>3 DEF GoodIn

LEMMA EndsAfter ==
  ASSUME NEW f, NEW q \in Seq(DiffMsg), NEW m \in Seq(DiffMsg), OnTheWay' = q \o m,
         \A k \in 1 .. Len(m) : m[k].path = f => Good(f, m[k].diff)',
         (\A k \in 1 .. Len(m) : m[k].path # f) =>
           /\ (\A i \in 1 .. Len(q) : q[i].path # f) => Good(f, shown[f])'
           /\ \A i \in 1 .. Len(q) :
                q[i].path = f /\ (\A j \in 1 .. Len(q) : j > i => q[j].path # f) =>
                  Good(f, q[i].diff)'
  PROVE  EndsGood(f)'
<1> DEFINE Q == q \o m
<1>1. /\ Len(Q) = Len(q) + Len(m) /\ Len(q) \in Nat /\ Len(m) \in Nat
      /\ \A i \in 1 .. Len(q) : Q[i] = q[i]
      /\ \A i \in 1 .. Len(m) : Q[Len(q) + i] = m[i]
  BY AfterIs
<1> HIDE DEF Q
<1>2. ASSUME \A i \in 1 .. Len(Q) : Q[i].path # f
      PROVE  Good(f, shown[f])'
  <2>1. \A i \in 1 .. Len(q) : q[i].path # f
    BY <1>1, <1>2
  <2>2. \A k \in 1 .. Len(m) : m[k].path # f
    <3> SUFFICES ASSUME NEW k \in 1 .. Len(m) PROVE m[k].path # f
      OBVIOUS
    <3>1. Len(q) + k \in 1 .. Len(Q) /\ Q[Len(q) + k] = m[k]
      BY <1>1
    <3> QED
      BY <1>2, <3>1
  <2> QED
    BY <2>1, <2>2
<1>3. ASSUME NEW i \in 1 .. Len(Q), Q[i].path = f,
             \A j \in 1 .. Len(Q) : j > i => Q[j].path # f
      PROVE  Good(f, Q[i].diff)'
  <2>1. CASE i > Len(q)
    <3>1. i - Len(q) \in 1 .. Len(m) /\ Len(q) + (i - Len(q)) = i
      BY <1>1, <2>1
    <3>2. Q[i] = m[i - Len(q)]
      BY <1>1, <3>1
    <3> QED
      BY <1>3, <3>1, <3>2
  <2>2. CASE i <= Len(q)
    <3>1. i \in 1 .. Len(q) /\ Q[i] = q[i]
      BY <1>1, <2>2
    <3>2. \A k \in 1 .. Len(m) : m[k].path # f
      <4> SUFFICES ASSUME NEW k \in 1 .. Len(m) PROVE m[k].path # f
        OBVIOUS
      <4>1. Len(q) + k \in 1 .. Len(Q) /\ Q[Len(q) + k] = m[k] /\ Len(q) + k > i
        BY <1>1, <2>2
      <4> QED
        BY <1>3, <4>1
    <3>3. \A j \in 1 .. Len(q) : j > i => q[j].path # f
      BY <1>1, <1>3
    <3> QED
      BY <1>3, <3>1, <3>2, <3>3
  <2> QED
    BY <1>1, <2>1, <2>2
<1>4. OnTheWay' = Q
  BY DEF Q
<1> QED
  BY <1>2, <1>3, <1>4 DEF EndsGood

(* A step that leaves the tree and the budget alone leaves good what was.  *)
LEMMA GoodStays ==
  ASSUME UNCHANGED <<attempt, tree, ignores, sentBytes, fullSent>>
  PROVE  \A f, e : Good(f, e)' <=> Good(f, e)
  BY DEF Good, GoodIn, FitsIn, Staged

LEMMA EndsGoodStays ==
  ASSUME UNCHANGED <<attempt, tree, ignores, sentBytes, fullSent, shown>>, OnTheWay' = OnTheWay
  PROVE  \A f : EndsGood(f)' <=> EndsGood(f)
<1>1. \A f, e : Good(f, e)' <=> Good(f, e)
  BY GoodStays
<1> HIDE DEF Good, OnTheWay
<1> QED
  BY <1>1 DEF EndsGood

-----------------------------------------------------------------------------
(* The steps that report diffs.                                            *)

LEMMA PathsAreFiles ==
  ASSUME NEW paths, paths \subseteq File, NEW c, Reports(c, paths)
  PROVE  FullPaths(c.diffs) \subseteq File /\ (attempt.stats => FullPaths(c.diffs) = {})
  BY DEF FullPaths, Reports

LEMMA CreateGood ==
  ASSUME DiffInv, diff_stream_create
  PROVE  DiffInv'
<1> DEFINE c == Charged(get_diffs(attempt.base, Staged, File), 0)
<1>1. Reports(c, File)
  <2>1. DsTypeOK /\ File \subseteq File /\ 0 \in Nat
    BY DEF DiffInv
  <2> QED
    BY <2>1, ChargedReport
<1>2. /\ outbox' = AddAll(c.diffs) /\ sentBytes' = c.sent /\ fullSent' = FullPaths(c.diffs)
      /\ stream = "idle" /\ stream' = "sending"
      /\ UNCHANGED <<attempt, tree, ignores, diffChannel, watcher, watchIgnores, fsEvents, batches,
                     client, shown, changes, unseen>>
  BY DEF diff_stream_create
<1>3. PICK m : m = outbox'
  OBVIOUS
<1> HIDE DEF c
<1>4. /\ m \in Seq(DiffMsg)
      /\ \A i \in 1 .. Len(m) : SoundMsg(m[i]) /\ \E d \in c.diffs : m[i] = add_diff(d)
      /\ \A d \in c.diffs : \E i \in 1 .. Len(m) : m[i] = add_diff(d)
  <2>1. IsFiniteSet(c.diffs) /\ c.diffs \subseteq Entry /\ \A d \in c.diffs : d.path \in File
    BY <1>1 DEF Reports
  <2> QED
    BY <1>2, <1>3, <2>1, AddAllIs
<1>5. /\ diffChannel = << >> /\ shown = NothingShown /\ watcher = "off"
  BY <1>2 DEF DiffInv, StartsClean
<1>6. DsTypeOK'
  <2>1. FullPaths(c.diffs) \subseteq File /\ c.sent \in Nat
    BY <1>1, PathsAreFiles DEF Reports
  <2> QED
    BY <1>2, <1>3, <1>4, <2>1 DEF DiffInv, DsTypeOK
<1>7. OnTheWay' = << >> \o m /\ OnTheWay' = m
  BY <1>2, <1>3, <1>4, <1>5 DEF OnTheWay
<1>8. SoundMsgs'
  BY <1>4, <1>7 DEF SoundMsgs
<1>9. StartsClean'
  BY <1>2, <1>5 DEF StartsClean
<1>10. StatsOmit'
  BY <1>1, <1>2, PathsAreFiles DEF StatsOmit
<1>11. ASSUME NEW f \in File PROVE EndsGood(f)'
  <2>1. \A e : Good(f, e)' <=> GoodIn(f, e, c.sent, FullPaths(c.diffs))
    BY <1>2 DEF Good, GoodIn, FitsIn, Staged
  <2>2. \A k \in 1 .. Len(m) : m[k].path = f => Good(f, m[k].diff)'
    <3> SUFFICES ASSUME NEW k \in 1 .. Len(m), m[k].path = f PROVE Good(f, m[k].diff)'
      OBVIOUS
    <3>1. PICK d \in c.diffs : m[k] = add_diff(d)
      BY <1>4
    <3>2. d.path = f /\ m[k].diff = d
      BY <3>1 DEF add_diff
    <3>3. GoodIn(f, d, c.sent, FullPaths(c.diffs))
      BY <1>1, <3>2, ReportedIsGood
    <3> QED
      BY <2>1, <3>2, <3>3
  <2>3. ASSUME \A k \in 1 .. Len(m) : m[k].path # f PROVE Good(f, shown[f])'
    <3>1. \A e \in c.diffs : e.path # f
      BY <1>4, <2>3, MsgIs
    <3>2. GoodIn(f, NoEntry, c.sent, FullPaths(c.diffs))
      BY <1>1, <3>1, ReportedIsGood
    <3>3. shown'[f] = NoEntry
      BY <1>2, <1>5 DEF NothingShown
    <3>4. PICK e : e = shown'[f]
      OBVIOUS
    <3>5. Good(f, e)'
      BY <2>1, <3>2, <3>3, <3>4
    <3> QED
      BY <3>4, <3>5 DEF Good
  <2>4. << >> \in Seq(DiffMsg) /\ \A i \in 1 .. Len(<< >>) : FALSE
    OBVIOUS
  <2> QED
    BY <1>4, <1>7, <2>2, <2>3, <2>4, EndsAfter
<1> QED
  BY <1>6, <1>8, <1>9, <1>10, <1>11 DEF DiffInv, WillBeGood

LEMMA EventsGood ==
  ASSUME DiffInv, handle_events
  PROVE  DiffInv'
<1> DEFINE paths == Head(batches)
           c == Charged(get_diffs(attempt.base, Staged, paths), sentBytes)
           gone == paths \ {d.path : d \in c.diffs}
<1>0. /\ DsTypeOK /\ batches # << >> /\ batches \in Seq(SUBSET File) /\ sentBytes \in Nat
      /\ fullSent \subseteq File
  BY DEF DiffInv, DsTypeOK, handle_events
<1>1. /\ paths \subseteq File
      /\ \A f : (\E i \in 1 .. Len(batches) : f \in batches[i]) =>
               f \in paths \/ \E i \in 1 .. Len(Tail(batches)) : f \in Tail(batches)[i]
      /\ Tail(batches) \in Seq(SUBSET File)
  <2>1. paths \in SUBSET File /\ Tail(batches) \in Seq(SUBSET File)
    BY <1>0
  <2>2. ASSUME NEW f, NEW i \in 1 .. Len(batches), f \in batches[i], f \notin paths
        PROVE  \E j \in 1 .. Len(Tail(batches)) : f \in Tail(batches)[j]
    <3>1. i # 1
      BY <1>0, <2>2
    <3>2. i - 1 \in 1 .. Len(Tail(batches)) /\ Tail(batches)[i - 1] = batches[i]
      BY <1>0, <3>1
    <3> QED
      BY <2>2, <3>2
  <2> QED
    BY <2>1, <2>2
<1>2. Reports(c, paths) /\ c.sent >= sentBytes
  BY <1>0, <1>1, ChargedReport
<1>3. /\ outbox' = AddAll(Kept(c.diffs)) \o RemoveAll(gone)
      /\ sentBytes' = c.sent /\ fullSent' = fullSent \cup FullPaths(c.diffs)
      /\ batches' = Tail(batches) /\ outbox = << >> /\ watcher = "on"
      /\ UNCHANGED <<attempt, tree, ignores, stream, diffChannel, watcher, watchIgnores, fsEvents,
                     client, shown, changes, unseen>>
  BY DEF handle_events, process_file_changes
<1> HIDE DEF c
<1>4. stream = "live"
  BY <1>3 DEF DiffInv, StartsClean
<1>5. PICK a, r, m : a = AddAll(Kept(c.diffs)) /\ r = RemoveAll(gone) /\ m = a \o r
  OBVIOUS
<1>6. /\ a \in Seq(DiffMsg)
      /\ \A i \in 1 .. Len(a) : SoundMsg(a[i]) /\ \E d \in Kept(c.diffs) : a[i] = add_diff(d)
      /\ \A d \in Kept(c.diffs) : \E i \in 1 .. Len(a) : a[i] = add_diff(d)
  <2>1. /\ IsFiniteSet(c.diffs) /\ Kept(c.diffs) \subseteq c.diffs
        /\ Kept(c.diffs) \subseteq Entry /\ \A d \in Kept(c.diffs) : d.path \in File
    BY <1>1, <1>2 DEF Reports, Kept
  <2>2. IsFiniteSet(Kept(c.diffs))
    BY <2>1, FS_Subset
  <2> QED
    BY <1>5, <2>1, <2>2, AddAllIs
<1>7. /\ r \in Seq(DiffMsg)
      /\ \A i \in 1 .. Len(r) : SoundMsg(r[i]) /\ \E f \in gone : r[i] = remove_diff(f)
      /\ \A f \in gone : \E i \in 1 .. Len(r) : r[i] = remove_diff(f)
  <2>1. gone \subseteq File
    BY <1>1
  <2>2. LET q == RemoveAll(gone)
        IN  /\ q \in Seq(DiffMsg)
            /\ \A i \in 1 .. Len(q) : SoundMsg(q[i]) /\ \E f \in gone : q[i] = remove_diff(f)
            /\ \A f \in gone : \E i \in 1 .. Len(q) : q[i] = remove_diff(f)
    BY <2>1, RemoveAllIs, Zenon
  <2> QED
    BY <1>5, <2>2, Zenon
<1>8. /\ m \in Seq(DiffMsg)
      /\ \A x \in 1 .. Len(m) : \/ \E i \in 1 .. Len(a) : m[x] = a[i]
                                \/ \E i \in 1 .. Len(r) : m[x] = r[i]
      /\ \A i \in 1 .. Len(a) : \E x \in 1 .. Len(m) : m[x] = a[i]
      /\ \A i \in 1 .. Len(r) : \E x \in 1 .. Len(m) : m[x] = r[i]
  <2>1. /\ m \in Seq(DiffMsg) /\ Len(m) = Len(a) + Len(r) /\ Len(a) \in Nat /\ Len(r) \in Nat
        /\ \A i \in 1 .. Len(a) : m[i] = a[i]
        /\ \A i \in 1 .. Len(r) : m[Len(a) + i] = r[i]
    BY <1>5, <1>6, <1>7, AfterIs
  <2>2. \A x \in 1 .. Len(m) : \/ x \in 1 .. Len(a)
                               \/ x - Len(a) \in 1 .. Len(r) /\ Len(a) + (x - Len(a)) = x
    BY <2>1
  <2>3. /\ \A i \in 1 .. Len(a) : i \in 1 .. Len(m)
        /\ \A i \in 1 .. Len(r) : Len(a) + i \in 1 .. Len(m)
    BY <2>1
  <2>4. ASSUME NEW x \in 1 .. Len(m)
        PROVE  (\E i \in 1 .. Len(a) : m[x] = a[i]) \/ (\E i \in 1 .. Len(r) : m[x] = r[i])
    BY <2>1, <2>2
  <2> QED
    BY <2>1, <2>3, <2>4
<1>9. DsTypeOK'
  <2>1. FullPaths(c.diffs) \subseteq File /\ c.sent \in Nat
    BY <1>1, <1>2, PathsAreFiles DEF Reports
  <2> QED
    BY <1>0, <1>1, <1>3, <1>5, <1>8, <2>1 DEF DsTypeOK
<1>10. OnTheWay' = diffChannel \o m /\ OnTheWay = diffChannel /\ diffChannel \in Seq(DiffMsg)
  BY <1>0, <1>3, <1>5 DEF OnTheWay, DsTypeOK
<1>11. SoundMsgs'
  <2>1. \A i \in 1 .. Len(m) : SoundMsg(m[i])
    BY <1>6, <1>7, <1>8
  <2>2. \A i \in 1 .. Len(diffChannel) : SoundMsg(diffChannel[i])
    BY <1>10 DEF DiffInv, SoundMsgs
  <2>3. PICK q : q = diffChannel
    OBVIOUS
  <2>4. \A i \in 1 .. Len(q \o m) : SoundMsg((q \o m)[i])
    <3>1. /\ Len(q \o m) = Len(q) + Len(m) /\ Len(q) \in Nat /\ Len(m) \in Nat
          /\ \A i \in 1 .. Len(q) : (q \o m)[i] = q[i]
          /\ \A i \in 1 .. Len(m) : (q \o m)[Len(q) + i] = m[i]
      BY <1>8, <1>10, <2>3, AfterIs
    <3>2. \A x \in 1 .. Len(q \o m) : \/ x \in 1 .. Len(q)
                                      \/ x - Len(q) \in 1 .. Len(m) /\ Len(q) + (x - Len(q)) = x
      BY <3>1
    <3> QED
      BY <2>1, <2>2, <2>3, <3>1, <3>2
  <2> QED
    BY <1>10, <2>3, <2>4 DEF SoundMsgs
<1>12. StartsClean'
  BY <1>3, <1>4 DEF StartsClean
<1>13. StatsOmit'
  BY <1>1, <1>2, <1>3, PathsAreFiles DEF StatsOmit, DiffInv
<1>14. ASSUME NEW f \in File \ unseen, ~Awaited(f)' PROVE EndsGood(f)'
  <2>1. \A e : Good(f, e)' <=> GoodIn(f, e, c.sent, fullSent')
    BY <1>3 DEF Good, GoodIn, FitsIn, Staged
  <2>2. PICK more, q : more = fullSent' /\ fullSent \subseteq more /\ q = diffChannel
    BY <1>3
  <2>3. c.sent \in Nat
    BY <1>2 DEF Reports
  <2>4. CASE f \in paths
    <3>1. \A k \in 1 .. Len(m) : m[k].path = f => GoodIn(f, m[k].diff, c.sent, more)
      <4> SUFFICES ASSUME NEW k \in 1 .. Len(m), m[k].path = f
                   PROVE  GoodIn(f, m[k].diff, c.sent, more)
        OBVIOUS
      <4>1. CASE \E i \in 1 .. Len(a) : m[k] = a[i]
        <5>1. PICK d \in c.diffs : m[k] = add_diff(d)
          BY <1>6, <4>1 DEF Kept
        <5>2. d.path = f /\ m[k].diff = d
          BY <5>1 DEF add_diff
        <5> QED
          BY <1>1, <1>2, <2>4, <5>2, ReportedIsGood
      <4>2. CASE \E i \in 1 .. Len(r) : m[k] = r[i]
        <5>1. PICK g \in gone : m[k] = remove_diff(g)
          BY <1>7, <4>2
        <5>2. g = f /\ m[k].diff = NoEntry
          BY <5>1 DEF remove_diff
        <5>3. \A e \in c.diffs : e.path # f
          BY <5>2
        <5> QED
          BY <1>1, <1>2, <2>4, <5>2, <5>3, ReportedIsGood
      <4> QED
        BY <1>8, <4>1, <4>2
    <3>2. ASSUME \A k \in 1 .. Len(m) : m[k].path # f
          PROVE  \A x : GoodIn(f, x, c.sent, more)
      <4>1. f \notin gone
        <5> SUFFICES ASSUME f \in gone PROVE FALSE
          OBVIOUS
        <5> HIDE DEF gone
        <5>1. PICK i \in 1 .. Len(r) : r[i] = remove_diff(f)
          BY <1>7
        <5>2. PICK k \in 1 .. Len(m) : m[k] = r[i]
          BY <1>8
        <5>3. m[k].path = f
          BY <5>1, <5>2, MsgIs
        <5> QED
          BY <3>2, <5>3
      <4>2. PICK e \in c.diffs : e.path = f
        BY <2>4, <4>1
      <4>3. e \notin Kept(c.diffs)
        <5> SUFFICES ASSUME e \in Kept(c.diffs) PROVE FALSE
          OBVIOUS
        <5>1. PICK i \in 1 .. Len(a) : a[i] = add_diff(e)
          BY <1>6
        <5>2. PICK k \in 1 .. Len(m) : m[k] = a[i]
          BY <1>8
        <5>3. m[k].path = f
          BY <4>2, <5>1, <5>2, MsgIs
        <5> QED
          BY <3>2, <5>3
      <4>4. e.omitted /\ f \in fullSent
        BY <4>2, <4>3 DEF Kept
      <4>5. ~attempt.stats
        BY <1>4, <4>4 DEF DiffInv, StatsOmit
      <4> QED
        BY <1>1, <1>2, <2>2, <2>4, <4>2, <4>4, <4>5, ReportedIsGood
    <3>3. \A e : Good(f, e)' <=> GoodIn(f, e, c.sent, more)
      BY <2>1, <2>2
    <3>4. \A k \in 1 .. Len(m) : m[k].path = f => Good(f, m[k].diff)'
      BY <3>1, <3>3
    <3>5. ASSUME \A k \in 1 .. Len(m) : m[k].path # f
          PROVE  /\ Good(f, shown[f])'
                 /\ \A i \in 1 .. Len(q) : Good(f, q[i].diff)'
      <4>1. \A x : Good(f, x)'
        BY <3>2, <3>3, <3>5
      <4>2. PICK x : x = shown'[f]
        OBVIOUS
      <4>3. Good(f, x)'
        BY <4>1
      <4> QED
        BY <4>1, <4>2, <4>3 DEF Good
    <3> QED
      BY <1>8, <1>10, <2>2, <3>4, <3>5, EndsAfter
  <2>5. CASE f \notin paths
    <3>1. ~Awaited(f)
      BY <1>1, <1>3, <1>14, <2>5 DEF Awaited
    <3>2. EndsGood(f)
      BY <1>3, <1>4, <3>1 DEF DiffInv, WillBeGood
    <3>3. \A k \in 1 .. Len(m) : m[k].path # f
      <4> SUFFICES ASSUME NEW k \in 1 .. Len(m) PROVE m[k].path # f
        OBVIOUS
      <4>1. CASE \E i \in 1 .. Len(a) : m[k] = a[i]
        <5>1. PICK d \in c.diffs : m[k] = add_diff(d)
          BY <1>6, <4>1 DEF Kept
        <5>2. d.path \in paths
          BY <1>2 DEF Reports
        <5> QED
          BY <2>5, <5>1, <5>2 DEF add_diff
      <4>2. CASE \E i \in 1 .. Len(r) : m[k] = r[i]
        <5>1. PICK g \in gone : m[k] = remove_diff(g)
          BY <1>7, <4>2
        <5> QED
          BY <2>5, <5>1 DEF remove_diff
      <4> QED
        BY <1>8, <4>1, <4>2
    <3>4. \A e : Good(f, e) => Good(f, e)'
      <4>1. \A e : Good(f, e)' <=> GoodIn(f, e, c.sent, more)
        BY <2>1, <2>2
      <4>2. \A e : GoodIn(f, e, sentBytes, fullSent) => GoodIn(f, e, c.sent, more)
        BY <1>0, <1>2, <2>2, <2>3, GoodLater
      <4> QED
        BY <4>1, <4>2 DEF Good
    <3>5. /\ (\A i \in 1 .. Len(q) : q[i].path # f) => Good(f, shown[f])
          /\ \A i \in 1 .. Len(q) :
               q[i].path = f /\ (\A j \in 1 .. Len(q) : j > i => q[j].path # f) =>
                 Good(f, q[i].diff)
      BY <1>10, <2>2, <3>2 DEF EndsGood
    <3>6. (\A i \in 1 .. Len(q) : q[i].path # f) => Good(f, shown[f])'
      <4>1. PICK x : x = shown[f] /\ x = shown'[f]
        BY <1>3
      <4>2. Good(f, shown[f])' <=> Good(f, x)'
        BY <4>1 DEF Good
      <4>3. Good(f, shown[f]) <=> Good(f, x)
        BY <4>1 DEF Good
      <4> QED
        BY <3>4, <3>5, <4>2, <4>3
    <3> QED
      BY <1>8, <1>10, <2>2, <3>3, <3>4, <3>5, <3>6, EndsAfter
  <2> QED
    BY <2>4, <2>5
<1> QED
  BY <1>3, <1>9, <1>11, <1>12, <1>13, <1>14 DEF DiffInv, WillBeGood

-----------------------------------------------------------------------------
(* The other steps.                                                        *)

(* The next message reaches the client.                                    *)
LEMMA ReceiveGood ==
  ASSUME DiffInv, handle_task_attempt_diff_ws
  PROVE  DiffInv'
<1> DEFINE msg == Head(diffChannel)
<1>1. /\ diffChannel # << >> /\ diffChannel' = Tail(diffChannel)
      /\ shown' = CASE msg.op = "add" -> [shown EXCEPT ![msg.path] = msg.diff]
                    [] msg.op = "remove" -> [shown EXCEPT ![msg.path] = NoEntry]
                    [] OTHER -> shown
      /\ client' \in {"left", client}
      /\ stream \in {"live", "merged"}
      /\ UNCHANGED <<attempt, tree, ignores, stream, outbox, sentBytes, fullSent, watcher,
                     watchIgnores, fsEvents, batches, changes, unseen>>
  BY DEF handle_task_attempt_diff_ws
<1>2. /\ diffChannel \in Seq(DiffMsg) /\ outbox \in Seq(DiffMsg) /\ shown \in [File -> Entry]
      /\ client \in {"open", "left"}
  BY DEF DiffInv, DsTypeOK
<1>3. /\ OnTheWay \in Seq(DiffMsg) /\ OnTheWay # << >> /\ OnTheWay' = Tail(OnTheWay)
      /\ msg = OnTheWay[1]
  BY <1>1, <1>2 DEF OnTheWay
<1> HIDE DEF OnTheWay
<1>4. /\ Len(OnTheWay') = Len(OnTheWay) - 1 /\ Len(OnTheWay) \in Nat \ {0}
      /\ Len(OnTheWay') \in Nat
      /\ \A i \in 1 .. Len(OnTheWay') : OnTheWay'[i] = OnTheWay[i + 1]
  BY <1>3
<1>5. /\ msg \in DiffMsg /\ SoundMsg(msg)
  <2>1. 1 \in 1 .. Len(OnTheWay)
    BY <1>4
  <2> QED
    BY <1>3, <2>1 DEF DiffInv, SoundMsgs
<1> HIDE DEF msg
<1>6. /\ shown' \in [File -> Entry]
      /\ \A f \in File : shown'[f] = IF msg.path = f THEN msg.diff ELSE shown[f]
  <2>0. /\ msg.op \in {"add", "remove", "error", "finished"} /\ msg.path \in File \cup {None}
        /\ msg.diff \in Entry /\ None \notin File
    BY <1>5, DiffStreamAssumption DEF DiffMsg
  <2> HIDE DEF Entry
  <2>1. CASE msg.op \in {"add", "remove"}
    <3>1. msg.path \in File
      BY <1>5, <2>0, <2>1 DEF SoundMsg
    <3>2. shown' = [shown EXCEPT ![msg.path] = msg.diff]
      BY <1>1, <1>5, <2>1 DEF SoundMsg
    <3> QED
      BY <1>2, <2>0, <3>1, <3>2
  <2>2. CASE msg.op \in {"error", "finished"}
    <3>1. msg.path = None
      BY <1>5, <2>2 DEF SoundMsg
    <3>2. shown' = shown
      BY <1>1, <2>2
    <3> QED
      BY <1>2, <2>0, <3>1, <3>2
  <2> QED
    BY <2>0, <2>1, <2>2
<1>7. DsTypeOK'
  <2>1. diffChannel' \in Seq(DiffMsg) /\ client' \in {"open", "left"}
    BY <1>1, <1>2
  <2> QED
    BY <1>1, <1>6, <2>1 DEF DsTypeOK, DiffInv
<1>8. SoundMsgs'
  <2> SUFFICES ASSUME NEW i \in 1 .. Len(OnTheWay') PROVE SoundMsg(OnTheWay'[i])
    BY DEF SoundMsgs
  <2>1. i + 1 \in 1 .. Len(OnTheWay)
    BY <1>4
  <2> QED
    BY <1>4, <2>1 DEF DiffInv, SoundMsgs
<1>9. StartsClean' /\ StatsOmit'
  BY <1>1 DEF StartsClean, StatsOmit, DiffInv
<1>10. ASSUME NEW f \in File, EndsGood(f) PROVE EndsGood(f)'
  <2>1. \A e : Good(f, e)' <=> Good(f, e)
    BY <1>1, GoodStays
  <2>2. PICK q, r, x, y : q = OnTheWay /\ r = OnTheWay' /\ x = shown[f] /\ y = shown'[f]
    OBVIOUS
  <2>3. /\ (\A i \in 1 .. Len(q) : q[i].path # f) => Good(f, x)
        /\ \A i \in 1 .. Len(q) :
             q[i].path = f /\ (\A j \in 1 .. Len(q) : j > i => q[j].path # f) =>
               Good(f, q[i].diff)
    BY <1>10, <2>2 DEF EndsGood
  <2>4. /\ Len(r) = Len(q) - 1 /\ Len(q) \in Nat \ {0} /\ Len(r) \in Nat
        /\ \A i \in 1 .. Len(r) : r[i] = q[i + 1]
        /\ y = IF q[1].path = f THEN q[1].diff ELSE x
    BY <1>3, <1>4, <1>6, <2>2
  <2>5. ASSUME \A i \in 1 .. Len(r) : r[i].path # f PROVE Good(f, y)
    <3>1. \A j \in 1 .. Len(q) : j > 1 => q[j].path # f
      <4> SUFFICES ASSUME NEW j \in 1 .. Len(q), j > 1 PROVE q[j].path # f
        OBVIOUS
      <4>1. j - 1 \in 1 .. Len(r) /\ (j - 1) + 1 = j
        BY <2>4
      <4> QED
        BY <2>4, <2>5, <4>1
    <3>2. 1 \in 1 .. Len(q) /\ \A j \in 1 .. Len(q) : j = 1 \/ j > 1
      BY <2>4
    <3> HIDE DEF Good
    <3> QED
      BY <2>3, <2>4, <3>1, <3>2
  <2>6. ASSUME NEW i \in 1 .. Len(r), r[i].path = f,
               \A j \in 1 .. Len(r) : j > i => r[j].path # f
        PROVE  Good(f, r[i].diff)
    <3>1. i + 1 \in 1 .. Len(q) /\ r[i] = q[i + 1]
      BY <2>4
    <3>2. \A j \in 1 .. Len(q) : j > i + 1 => q[j].path # f
      <4> SUFFICES ASSUME NEW j \in 1 .. Len(q), j > i + 1 PROVE q[j].path # f
        OBVIOUS
      <4>1. j - 1 \in 1 .. Len(r) /\ (j - 1) + 1 = j /\ j - 1 > i
        BY <2>4
      <4> QED
        BY <2>4, <2>6, <4>1
    <3> QED
      BY <2>3, <2>6, <3>1, <3>2
  <2>7. /\ (\A i \in 1 .. Len(r) : r[i].path # f) => Good(f, y)'
        /\ \A i \in 1 .. Len(r) :
             r[i].path = f /\ (\A j \in 1 .. Len(r) : j > i => r[j].path # f) =>
               Good(f, r[i].diff)'
    BY <2>1, <2>5, <2>6
  <2> QED
    BY <2>2, <2>7 DEF EndsGood, Good
<1> QED
  BY <1>1, <1>7, <1>8, <1>9, <1>10 DEF DiffInv, WillBeGood, Awaited

(* A change of the files in paths.                                         *)
LEMMA ChangeGood ==
  ASSUME DiffInv, NEW paths, paths \subseteq File, tree' \in Tree, ignores' \subseteq File,
         \A f \in File \ paths : tree'[f] = tree[f] /\ (f \in ignores' <=> f \in ignores),
         fsEvents' = fsEvents \/ fsEvents' = fsEvents \cup {paths},
         watcher # "on" => fsEvents' = fsEvents,
         unseen' = unseen \/ unseen' = unseen \cup paths,
         stream \in {"sending", "live"} =>
           paths \in fsEvents' \/ unseen' = unseen \cup paths,
         stream \notin {"sending", "live"} => unseen' = unseen,
         changes' = changes + 1,
         UNCHANGED <<attempt, stream, outbox, diffChannel, sentBytes, fullSent, watcher,
                     watchIgnores, batches, client, shown>>
  PROVE  DiffInv'
<1>1. DsTypeOK'
  BY DEF DiffInv, DsTypeOK
<1>2. OnTheWay' = OnTheWay
  BY DEF OnTheWay
<1>3. SoundMsgs' /\ StatsOmit'
  BY <1>2 DEF DiffInv, SoundMsgs, StatsOmit
<1>4. StartsClean'
  BY DEF DiffInv, StartsClean
<1>5. ASSUME NEW f \in File \ unseen', stream \in {"sending", "live"}, watcher # "ended"
      PROVE  Awaited(f)' \/ EndsGood(f)'
  <2>1. CASE f \in paths
    BY <1>5, <2>1 DEF Awaited
  <2>2. CASE f \notin paths
    <3>1. Awaited(f) => Awaited(f)'
      BY DEF Awaited
    <3>2. \A e : Good(f, e)' <=> Good(f, e)
      BY <2>2 DEF Good, GoodIn, FitsIn, Staged
    <3>3. EndsGood(f) => EndsGood(f)'
      <4>1. PICK q, x : q = OnTheWay /\ x = shown[f] /\ q = OnTheWay' /\ x = shown'[f]
        BY <1>2
      <4>2. EndsGood(f) =>
              /\ (\A i \in 1 .. Len(q) : q[i].path # f) => Good(f, x)
              /\ \A i \in 1 .. Len(q) :
                   q[i].path = f /\ (\A j \in 1 .. Len(q) : j > i => q[j].path # f) =>
                     Good(f, q[i].diff)
        BY <4>1 DEF EndsGood
      <4>3. EndsGood(f) =>
              /\ (\A i \in 1 .. Len(q) : q[i].path # f) => Good(f, x)'
              /\ \A i \in 1 .. Len(q) :
                   q[i].path = f /\ (\A j \in 1 .. Len(q) : j > i => q[j].path # f) =>
                     Good(f, q[i].diff)'
        BY <3>2, <4>2
      <4> QED
        BY <4>1, <4>3 DEF EndsGood, Good
    <3>4. f \notin unseen
      BY <1>5
    <3> QED
      BY <1>5, <3>1, <3>3, <3>4 DEF DiffInv, WillBeGood
  <2> QED
    BY <2>1, <2>2
<1> QED
  BY <1>1, <1>3, <1>4, <1>5 DEF DiffInv, WillBeGood

LEMMA WorktreeGood ==
  ASSUME DiffInv, NEW f \in File,
         \/ \E c \in Content \cup {None} : WriteFile(f, c)
         \/ \E g \in File : Move(f, g)
         \/ EditIgnore(f)
  PROVE  DiffInv'
<1>0. tree \in Tree /\ ignores \subseteq File
  BY DEF DiffInv, DsTypeOK
<1>1. ASSUME NEW paths, paths \subseteq File, Changed(paths), tree' \in Tree, UNCHANGED ignores,
             \A g \in File \ paths : tree'[g] = tree[g]
      PROVE  DiffInv'
  <2>1. /\ changes' = changes + 1
        /\ IF watcher = "on" THEN fsEvents' = fsEvents \cup {paths} /\ UNCHANGED unseen
           ELSE /\ unseen' = IF stream \in {"sending", "live"} THEN unseen \cup paths ELSE unseen
                /\ UNCHANGED fsEvents
        /\ UNCHANGED <<attempt, stream, outbox, diffChannel, sentBytes, fullSent, watcher,
                       watchIgnores, batches, client, shown>>
    BY <1>1 DEF Changed
  <2>2. stream \notin {"sending", "live"} => watcher # "on"
    BY DEF DiffInv, StartsClean
  <2>3. /\ fsEvents' = fsEvents \/ fsEvents' = fsEvents \cup {paths}
        /\ watcher # "on" => fsEvents' = fsEvents
        /\ unseen' = unseen \/ unseen' = unseen \cup paths
        /\ stream \in {"sending", "live"} =>
             paths \in fsEvents' \/ unseen' = unseen \cup paths
        /\ stream \notin {"sending", "live"} => unseen' = unseen
    BY <2>1, <2>2
  <2> QED
    BY <1>0, <1>1, <2>1, <2>3, ChangeGood
<1>2. ASSUME NEW c \in Content \cup {None}, WriteFile(f, c) PROVE DiffInv'
  <2>1. tree' = [tree EXCEPT ![f] = c] /\ UNCHANGED ignores /\ Changed({f})
    BY <1>2 DEF WriteFile
  <2>2. tree' \in Tree /\ \A g \in File \ {f} : tree'[g] = tree[g]
    BY <1>0, <2>1 DEF Tree
  <2> QED
    BY <1>1, <2>1, <2>2
<1>3. ASSUME NEW g \in File, Move(f, g) PROVE DiffInv'
  <2>1. tree' = [tree EXCEPT ![f] = None, ![g] = tree[f]] /\ UNCHANGED ignores /\ Changed({f, g})
    BY <1>3 DEF Move
  <2>2. tree' \in Tree /\ \A h \in File \ {f, g} : tree'[h] = tree[h]
    BY <1>0, <2>1 DEF Tree
  <2>3. {f, g} \subseteq File
    OBVIOUS
  <2> QED
    BY <1>1, <2>1, <2>2, <2>3
<1>4. CASE EditIgnore(f)
  <2>1. /\ changes' = changes + 1 /\ ignores' = (ignores \cup {f}) \ (ignores \cap {f})
        /\ unseen' = IF stream \in {"sending", "live"} THEN unseen \cup {f} ELSE unseen
        /\ UNCHANGED <<attempt, tree, stream, outbox, diffChannel, sentBytes, fullSent, watcher,
                       watchIgnores, fsEvents, batches, client, shown>>
    BY <1>4 DEF EditIgnore
  <2>2. /\ ignores' \subseteq File /\ {f} \subseteq File /\ tree' \in Tree
        /\ \A g \in File \ {f} : tree'[g] = tree[g] /\ (g \in ignores' <=> g \in ignores)
    BY <1>0, <2>1
  <2>3. /\ unseen' = unseen \/ unseen' = unseen \cup {f}
        /\ stream \in {"sending", "live"} => unseen' = unseen \cup {f}
        /\ stream \notin {"sending", "live"} => unseen' = unseen
    BY <2>1
  <2> QED
    BY <2>1, <2>2, <2>3, ChangeGood
<1> QED
  BY <1>2, <1>3, <1>4

LEMMA MergedGood ==
  ASSUME DiffInv, create_merged_diff_stream
  PROVE  DiffInv'
<1> DEFINE D == convert_diff_to_file_diffs
           c == Charged(D, 0)
           none == [f \in File |-> None]
<1>1. /\ diffChannel' = AddAll(c.diffs) \o <<Control("finished")>>
      /\ stream' = "merged" /\ stream = "idle"
      /\ UNCHANGED <<attempt, tree, ignores, outbox, sentBytes, fullSent, watcher, watchIgnores,
                     fsEvents, batches, client, shown, changes, unseen>>
  BY DEF create_merged_diff_stream
<1>2. outbox = << >> /\ watcher = "off"
  BY <1>1 DEF DiffInv, StartsClean
<1>3. IsFiniteSet(D) /\ D \subseteq Entry /\ \A d \in D : d.path \in File
  <2>1. none \in Tree /\ attempt.base \in Tree /\ File \subseteq File
    BY DEF DiffInv, DsTypeOK, Tree
  <2>2. D = get_diffs(none, attempt.base, File)
    BY DEF convert_diff_to_file_diffs
  <2> HIDE DEF D, none
  <2> QED
    BY <2>1, <2>2, DiffsAre
<1> HIDE DEF D
<1>4. /\ IsFiniteSet(c.diffs) /\ c.diffs \subseteq Entry
      /\ \A e \in c.diffs : \E d \in D : e.path = d.path
  <2>1. DsTypeOK /\ 0 \in Nat
    BY DEF DiffInv
  <2> QED
    BY <1>3, <2>1, ChargedAre
<1> HIDE DEF c
<1>5. PICK a, m : a = AddAll(c.diffs) /\ m = <<Control("finished")>>
  OBVIOUS
<1>6. a \in Seq(DiffMsg) /\ \A i \in 1 .. Len(a) : SoundMsg(a[i])
  <2>1. \A e \in c.diffs : e.path \in File
    BY <1>3, <1>4
  <2> QED
    BY <1>4, <1>5, <2>1, AddAllIs
<1>7. m \in Seq(DiffMsg) /\ Len(m) = 1 /\ SoundMsg(m[1])
  <2>1. NoEntry \in Entry
    BY DEF NoEntry, Entry
  <2>2. Control("finished") \in DiffMsg /\ SoundMsg(Control("finished"))
    <3> HIDE DEF Entry
    <3> QED
      BY <2>1 DEF Control, DiffMsg, SoundMsg
  <2> QED
    BY <1>5, <2>2
<1>8. /\ a \o m \in Seq(DiffMsg) /\ Len(a \o m) = Len(a) + 1 /\ Len(a) \in Nat
      /\ \A i \in 1 .. Len(a) : (a \o m)[i] = a[i]
      /\ (a \o m)[Len(a) + 1] = m[1]
  BY <1>6, <1>7, AfterIs
<1>9. OnTheWay' = a \o m
  BY <1>1, <1>2, <1>5, <1>8 DEF OnTheWay
<1>10. SoundMsgs'
  <2>1. \A i \in 1 .. Len(a \o m) : i \in 1 .. Len(a) \/ i = Len(a) + 1
    BY <1>8
  <2> QED
    BY <1>6, <1>7, <1>8, <1>9, <2>1 DEF SoundMsgs
<1>11. DsTypeOK'
  BY <1>1, <1>5, <1>8 DEF DiffInv, DsTypeOK
<1> QED
  BY <1>1, <1>2, <1>10, <1>11 DEF DiffInv, StartsClean, StatsOmit, WillBeGood

LEMMA SendGood ==
  ASSUME DiffInv, send_messages
  PROVE  DiffInv'
<1>1. /\ outbox # << >> /\ diffChannel' = Append(diffChannel, Head(outbox))
      /\ outbox' = Tail(outbox) /\ stream \in {"sending", "live"}
      /\ UNCHANGED <<attempt, tree, ignores, stream, sentBytes, fullSent, watcher, watchIgnores,
                     fsEvents, batches, client, shown, changes, unseen>>
  BY DEF send_messages
<1>2. diffChannel \in Seq(DiffMsg) /\ outbox \in Seq(DiffMsg)
  BY DEF DiffInv, DsTypeOK
<1>3. diffChannel' \in Seq(DiffMsg) /\ outbox' \in Seq(DiffMsg)
  BY <1>1, <1>2
<1>4. OnTheWay' = OnTheWay
  BY <1>1, <1>2 DEF OnTheWay
<1>5. DsTypeOK'
  BY <1>1, <1>3 DEF DiffInv, DsTypeOK
<1>6. \A f : EndsGood(f)' <=> EndsGood(f)
  BY <1>1, <1>4, EndsGoodStays
<1> QED
  BY <1>1, <1>4, <1>5, <1>6
     DEF DiffInv, SoundMsgs, StartsClean, StatsOmit, WillBeGood, Awaited

LEMMA DebounceGood ==
  ASSUME DiffInv, Debounce
  PROVE  DiffInv'
<1> DEFINE forwarded == {e \in fsEvents : debounced_should_forward(e)}
           new == extract_changed_paths(forwarded)
<1>1. /\ watcher = "on" /\ fsEvents' = {}
      /\ batches' = IF forwarded = {} THEN batches ELSE Append(batches, new)
      /\ unseen' = (unseen \cup UNION fsEvents) \ UNION forwarded
      /\ UNCHANGED <<attempt, tree, ignores, stream, outbox, diffChannel, sentBytes, fullSent,
                     watcher, watchIgnores, client, shown, changes>>
  BY DEF Debounce
<1>2. /\ DsTypeOK /\ batches \in Seq(SUBSET File) /\ fsEvents \subseteq SUBSET File
      /\ unseen \subseteq File /\ stream = "live"
  BY <1>1 DEF DiffInv, DsTypeOK, StartsClean
<1>3. forwarded \subseteq fsEvents /\ new = UNION forwarded /\ new \in SUBSET File
  BY <1>2 DEF extract_changed_paths
<1> HIDE DEF forwarded, new
<1>4. /\ batches' \in Seq(SUBSET File)
      /\ \A i \in 1 .. Len(batches) : i \in 1 .. Len(batches') /\ batches'[i] = batches[i]
      /\ forwarded # {} => \E i \in 1 .. Len(batches') : batches'[i] = new
  <2>1. CASE forwarded = {}
    BY <1>1, <1>2, <2>1
  <2>2. CASE forwarded # {}
    <3>1. /\ batches' = Append(batches, new) /\ Len(batches') = Len(batches) + 1
          /\ Len(batches) \in Nat /\ batches'[Len(batches) + 1] = new
      BY <1>1, <1>2, <1>3, <2>2
    <3> QED
      BY <1>2, <1>3, <3>1
  <2> QED
    BY <2>1, <2>2
<1>5. DsTypeOK'
  <2>1. unseen' \subseteq File /\ fsEvents' \subseteq SUBSET File
    BY <1>1, <1>2
  <2> QED
    BY <1>1, <1>2, <1>4, <2>1 DEF DsTypeOK
<1>6. OnTheWay' = OnTheWay
  BY <1>1 DEF OnTheWay
<1>7. \A f : EndsGood(f)' <=> EndsGood(f)
  BY <1>1, <1>6, EndsGoodStays
<1>8. ASSUME NEW f \in File \ unseen' PROVE Awaited(f)' \/ EndsGood(f)'
  <2>1. CASE f \in UNION forwarded
    BY <1>3, <1>4, <2>1 DEF Awaited
  <2>2. CASE f \notin UNION forwarded
    <3>1. f \notin unseen /\ \A e \in fsEvents : f \notin e
      BY <1>1, <1>8, <2>2
    <3>2. Awaited(f) \/ EndsGood(f)
      BY <1>1, <1>2, <3>1 DEF DiffInv, WillBeGood
    <3>3. Awaited(f) => Awaited(f)'
      BY <1>4, <3>1 DEF Awaited
    <3> QED
      BY <1>7, <3>2, <3>3
  <2> QED
    BY <2>1, <2>2
<1> QED
  BY <1>1, <1>2, <1>5, <1>6, <1>8
     DEF DiffInv, SoundMsgs, StartsClean, StatsOmit, WillBeGood

LEMMA FailGood ==
  ASSUME DiffInv, WatcherFails
  PROVE  DiffInv'
<1>1. /\ watcher \in {"starting", "on"} /\ outbox = << >> /\ watcher' = "ended"
      /\ outbox' = <<Control("error")>>
      /\ UNCHANGED <<attempt, tree, ignores, stream, diffChannel, sentBytes, fullSent, watchIgnores,
                     fsEvents, batches, client, shown, changes, unseen>>
  BY DEF WatcherFails
<1>2. stream = "live" /\ diffChannel \in Seq(DiffMsg)
  BY <1>1 DEF DiffInv, StartsClean, DsTypeOK
<1>3. PICK q, m : q = diffChannel /\ m = <<Control("error")>>
  OBVIOUS
<1>4. m \in Seq(DiffMsg) /\ Len(m) = 1 /\ SoundMsg(m[1])
  <2>1. NoEntry \in Entry
    BY DEF NoEntry, Entry
  <2>2. Control("error") \in DiffMsg /\ SoundMsg(Control("error"))
    <3> HIDE DEF Entry
    <3> QED
      BY <2>1 DEF Control, DiffMsg, SoundMsg
  <2> QED
    BY <1>3, <2>2
<1>5. /\ OnTheWay' = q \o m /\ OnTheWay = q
  BY <1>1, <1>2, <1>3 DEF OnTheWay
<1>6. SoundMsgs'
  <2>1. /\ Len(q \o m) = Len(q) + 1 /\ Len(q) \in Nat
        /\ \A i \in 1 .. Len(q) : (q \o m)[i] = q[i]
        /\ (q \o m)[Len(q) + 1] = m[1]
    BY <1>2, <1>3, <1>4, AfterIs
  <2>2. \A i \in 1 .. Len(q \o m) : i \in 1 .. Len(q) \/ i = Len(q) + 1
    BY <2>1
  <2>3. \A i \in 1 .. Len(q) : SoundMsg(q[i])
    BY <1>5 DEF DiffInv, SoundMsgs
  <2> QED
    BY <1>4, <1>5, <2>1, <2>2, <2>3 DEF SoundMsgs
<1>7. DsTypeOK'
  BY <1>1, <1>3, <1>4 DEF DiffInv, DsTypeOK
<1> QED
  BY <1>1, <1>2, <1>6, <1>7 DEF DiffInv, StartsClean, StatsOmit, WillBeGood

LEMMA SocketGood ==
  ASSUME DiffInv,
         \/ CreateFails \/ ReturnStream \/ async_watcher \/ Leave \/ Drop \/ Reconnect
         \/ UNCHANGED dsVars
  PROVE  DiffInv'
<1>0. DsTypeOK /\ SoundMsgs /\ StartsClean /\ StatsOmit /\ WillBeGood
  BY DEF DiffInv
<1>1. CASE CreateFails \/ ReturnStream \/ async_watcher \/ Leave \/ UNCHANGED dsVars
  <2>1. /\ UNCHANGED <<attempt, tree, ignores, outbox, diffChannel, sentBytes, fullSent, fsEvents,
                       batches, shown, changes, unseen>>
        /\ \/ stream = "idle" /\ stream' = "dropped" /\ UNCHANGED <<watcher, watchIgnores, client>>
           \/ /\ stream = "sending" /\ stream' = "live" /\ watcher' = "starting"
              /\ UNCHANGED <<watchIgnores, client>>
           \/ /\ watcher = "starting" /\ watcher' = "on" /\ watchIgnores' = ignores
              /\ UNCHANGED <<stream, client>>
           \/ client' \in {client, "left"} /\ UNCHANGED <<stream, watcher, watchIgnores>>
    BY <1>1 DEF CreateFails, ReturnStream, async_watcher, build_gitignore_set, Leave, dsVars
  <2>2. OnTheWay' = OnTheWay
    BY <2>1 DEF OnTheWay
  <2>3. \A f : EndsGood(f)' <=> EndsGood(f)
    BY <2>1, <2>2, EndsGoodStays
  <2>4. DsTypeOK'
    BY <1>0, <2>1 DEF DsTypeOK
  <2>5. SoundMsgs' /\ StartsClean' /\ StatsOmit'
    BY <1>0, <2>1, <2>2 DEF SoundMsgs, StartsClean, StatsOmit
  <2>6. WillBeGood'
    BY <1>0, <2>1, <2>3 DEF WillBeGood, Awaited, StartsClean
  <2> QED
    BY <2>4, <2>5, <2>6 DEF DiffInv
<1>2. CASE Drop \/ Reconnect
  <2>1. /\ outbox' = << >> /\ diffChannel' = << >> /\ fsEvents' = {} /\ batches' = << >>
        /\ \/ /\ stream' = "dropped" /\ watcher' = "off" /\ watchIgnores' = {}
              /\ UNCHANGED <<sentBytes, fullSent, client, shown, unseen>>
           \/ /\ stream' = "idle" /\ client' = "open" /\ shown' = NothingShown /\ sentBytes' = 0
              /\ fullSent' = {} /\ unseen' = {} /\ watcher' = "off"
              /\ UNCHANGED watchIgnores
        /\ UNCHANGED <<attempt, tree, ignores, changes>>
    BY <1>0, <1>2 DEF Drop, Reconnect, StartsClean
  <2>2. OnTheWay' = << >>
    BY <2>1 DEF OnTheWay
  <2>3. NothingShown \in [File -> Entry]
    BY DEF NothingShown, NoEntry, Entry
  <2>4. DsTypeOK'
    BY <1>0, <2>1, <2>3 DEF DsTypeOK
  <2> QED
    BY <2>1, <2>2, <2>4 DEF DiffInv, SoundMsgs, StartsClean, StatsOmit, WillBeGood
<1> QED
  BY <1>1, <1>2

(* The inductive invariant of the diff stream: a file whose last change    *)
(* reached the watcher is in a batch still to come, or the last message on *)
(* its way leaves it a good entry; and nothing of a socket outlives it.    *)
THEOREM DiffInvariant == DsSpec => []DiffInv
<1>1. DsInit => DiffInv
  <2> SUFFICES ASSUME DsInit PROVE DiffInv
    OBVIOUS
  <2>1. NothingShown \in [File -> Entry]
    BY DEF NothingShown, NoEntry, Entry
  <2>2. DsTypeOK
    BY <2>1 DEF DsInit, DsTypeOK, Tree
  <2>3. OnTheWay = << >>
    BY DEF DsInit, OnTheWay
  <2> QED
    BY <2>2, <2>3 DEF DsInit, DiffInv, SoundMsgs, StartsClean, StatsOmit, WillBeGood
<1>2. DiffInv /\ [DsNext]_dsVars => DiffInv'
  <2> SUFFICES ASSUME DiffInv, [DsNext]_dsVars PROVE DiffInv'
    OBVIOUS
  <2>1. CASE create_merged_diff_stream \/ diff_stream_create \/ handle_events
    BY <2>1, MergedGood, CreateGood, EventsGood
  <2>2. CASE \/ CreateFails \/ ReturnStream \/ async_watcher \/ Leave \/ Drop \/ Reconnect
             \/ UNCHANGED dsVars
    BY <2>2, SocketGood
  <2>3. CASE send_messages \/ WatcherFails \/ Debounce \/ handle_task_attempt_diff_ws
    BY <2>3, SendGood, FailGood, DebounceGood, ReceiveGood
  <2>4. ASSUME NEW f \in File,
               \/ \E c \in Content \cup {None} : WriteFile(f, c)
               \/ \E g \in File : Move(f, g)
               \/ EditIgnore(f)
        PROVE  DiffInv'
    BY <2>4, WorktreeGood
  <2> QED
    BY <2>1, <2>2, <2>3, <2>4 DEF DsNext, ServerStep
<1> QED
  BY <1>1, <1>2, PTL DEF DsSpec

(* Once the stream is at rest the client shows every file whose last       *)
(* change reached the watcher as process_file_changes promises, for any    *)
(* files, contents, budget, channel and number of changes.                 *)
THEOREM DiffStaysInStep == DsSpec => []DiffInStep
<1>1. DiffInv => DiffInStep
  <2> SUFFICES ASSUME DiffInv, AtRest, NEW f \in File \ unseen
               PROVE  /\ Staged[f] = attempt.base[f] => shown[f] = NoEntry
                      /\ Staged[f] \notin {attempt.base[f], None} /\ (Fits(f) \/ f \notin fullSent)
                           => shown[f] # NoEntry
                      /\ shown[f] # NoEntry /\ Fits(f) => shown[f].contents[2] = Staged[f]
    BY DEF DiffInStep
  <2>1. OnTheWay = << >> /\ ~Awaited(f)
    BY DEF AtRest, OnTheWay, Awaited
  <2>2. EndsGood(f)
    BY <2>1 DEF AtRest, DiffInv, WillBeGood
  <2>3. Good(f, shown[f])
    BY <2>1, <2>2 DEF EndsGood
  <2> QED
    BY <2>3 DEF Good, GoodIn, FitsIn, Fits
<1> QED
  BY <1>1, DiffInvariant, PTL
=============================================================================
