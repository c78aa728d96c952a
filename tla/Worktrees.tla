----------------------------- MODULE Worktrees ------------------------------
(***************************************************************************)
(* The directories processes work in: WorktreeManager (creation, repair    *)
(* and removal under a lock per path), the container service that calls it *)
(* for task attempts and for execution runs, and what removes worktrees:   *)
(* the periodic sweep of expired attempts, the deletion and the archiving  *)
(* of a task, and the scan for orphans when the server starts.             *)
(*                                                                         *)
(* One project with one task; Attempt are the attempts of that task, Run   *)
(* the execution runs.  Each owner has one worktree path, named after its  *)
(* id.  Handlers and background jobs are actors that interleave at their   *)
(* awaits.  What the user asks for use_worktree is stored under the text   *)
(* of the id and looked up by its bytes, so every attempt has a worktree   *)
(* (see TaskBoard).                                                        *)
(***************************************************************************)
EXTENDS Naturals, FiniteSets

CONSTANTS Attempt, Run,
          MaxStart,     \* bound: processes started
          MaxCrash,     \* bound: crashes of the server
          MaxLoss       \* bound: directories the user removes by hand

ASSUME WorktreeAssumption == Attempt \cap Run = {} /\ MaxCrash \in Nat

VARIABLES
  row,        \* owner -> its row: there, container_ref set, worktree_deleted,
              \*   last activity more than 72 hours ago
  dir,        \* owners whose directory exists
  meta,       \* owners registered in .git/worktrees
  lock,       \* owner -> the actor holding WORKTREE_CREATION_LOCKS of its path
  handler,    \* owner -> where the request that starts a process is
  job,        \* the background jobs: what is left to do, and where they are
  proc,       \* owner -> its process: none, its row only, or running
  server,     \* down, scanning for orphans, or up
  count,      \* counters: processes started, crashes, losses
  stuck       \* ghost: owners whose directory could not be removed

wtVars == <<row, dir, meta, lock, handler, job, proc, server, count, stuck>>

Owner == Attempt \cup Run
Job == {"sweep", "delete", "archive", "scan"}
NoRow == [there |-> FALSE, ref |-> FALSE, deleted |-> FALSE, old |-> FALSE]
NoOwner == "none"
IdleJob == [at |-> "idle", on |-> NoOwner, todo |-> {}, all |-> {}]
Handling(for, at) == [for |-> for, at |-> at]
Free == "free"

WtInit ==
  /\ row = [o \in Owner |-> NoRow]
  /\ dir = {} /\ meta = {}
  /\ lock = [o \in Owner |-> Free]
  /\ handler = [o \in Owner |-> Handling("create", "new")]
  /\ job = [j \in Job |-> IdleJob]
  /\ proc = [o \in Owner |-> "none"]
  /\ server = "up"
  /\ count = [start |-> 0, crash |-> 0, loss |-> 0]
  /\ stuck = {}

-----------------------------------------------------------------------------
(* Removing a worktree: comprehensive_worktree_cleanup, in two steps.      *)

(* git worktree remove --force takes the directory of a registered         *)
(* worktree away, or fails; the metadata directory is removed in any case. *)
Unregister(o) ==
  /\ meta' = meta \ {o}
  /\ \/ o \in meta /\ dir' = dir \ {o}
     \/ UNCHANGED dir

(* remove_dir_all; then worktree prune drops the entries of all worktrees  *)
(* whose directory is missing.                                             *)
RemoveDir(o) == dir' = dir \ {o} /\ meta' = meta \cap dir' /\ UNCHANGED stuck

RemoveDirFails(o) ==
  o \in dir /\ stuck' = stuck \cup {o} /\ UNCHANGED <<dir, meta>>

(* Without a repository that rev-parse can tell (the worktree is no longer *)
(* registered) only the directory is removed.                              *)
simple_worktree_cleanup(o) == dir' = dir \ {o} /\ UNCHANGED <<meta, stuck>>

At(o, step) == handler[o].at = step
Goto(o, step) == handler' = [handler EXCEPT ![o].at = step]
Unlock(o) == lock' = [lock EXCEPT ![o] = Free]
Ends(o) == handler' = [handler EXCEPT ![o] = Handling("follow", "idle")]
Fails(o) == Ends(o) /\ Unlock(o)
Succeeds(o) ==
  Goto(o, IF handler[o].for = "create" THEN "ref" ELSE "start") /\ Unlock(o)

-----------------------------------------------------------------------------
(* Requests that start a process.  create and create_for_run make the row, *)
(* the branch and the worktree, write container_ref last, and then start.  *)

create(o) ==
  /\ server = "up" /\ At(o, "new")
  /\ count.start < MaxStart
  /\ count' = [count EXCEPT !.start = @ + 1]
  /\ row' = [row EXCEPT ![o] = [NoRow EXCEPT !.there = TRUE]]
  /\ Goto(o, "wait")
  /\ UNCHANGED <<dir, meta, lock, job, proc, server, stuck>>

(* ensure_container_exists of a follow-up or another request of an attempt.*)
ensure_container_exists(a) ==
  /\ server = "up" /\ At(a, "idle")
  /\ row[a].there /\ row[a].ref /\ proc[a] = "none"
  /\ count.start < MaxStart
  /\ count' = [count EXCEPT !.start = @ + 1]
  /\ handler' = [handler EXCEPT ![a] = Handling("follow", "wait")]
  /\ UNCHANGED <<row, dir, meta, lock, job, proc, server, stuck>>

(* The follow-up of a run starts its process without looking at the        *)
(* worktree.                                                               *)
RunFollowUp(r) ==
  /\ server = "up" /\ At(r, "idle")
  /\ row[r].there /\ row[r].ref /\ proc[r] = "none"
  /\ count.start < MaxStart
  /\ count' = [count EXCEPT !.start = @ + 1]
  /\ handler' = [handler EXCEPT ![r] = Handling("follow", "start")]
  /\ UNCHANGED <<row, dir, meta, lock, job, proc, server, stuck>>

(* ensure_worktree_exists waits for the lock of the path.                  *)
ensure_worktree_exists(o) ==
  /\ At(o, "wait") /\ lock[o] = Free
  /\ lock' = [lock EXCEPT ![o] = "handler"]
  /\ Goto(o, "check")
  /\ UNCHANGED <<row, dir, meta, job, proc, server, count, stuck>>

is_worktree_properly_set_up(o) ==
  /\ At(o, "check")
  /\ \/ o \in dir /\ o \in meta /\ Succeeds(o)
     \/ ~(o \in dir /\ o \in meta) /\ Goto(o, "clean") /\ UNCHANGED lock
  /\ UNCHANGED <<row, dir, meta, job, proc, server, count, stuck>>

(* recreate_worktree_internal: what is left of the worktree is removed and *)
(* it is added again; an error of the removal ends the request.            *)
recreate_worktree_internal(o) ==
  /\ \/ /\ At(o, "clean") /\ Unregister(o) /\ Goto(o, "rmdir")
        /\ UNCHANGED <<lock, stuck>>
     \/ /\ At(o, "rmdir") /\ RemoveDir(o) /\ Goto(o, "add") /\ UNCHANGED lock
     \/ /\ At(o, "rmdir") /\ RemoveDirFails(o) /\ Fails(o)
  /\ UNCHANGED <<row, job, proc, server, count>>

(* create_worktree_with_retry: git worktree add fails on a directory that  *)
(* exists, or for other reasons; the metadata is removed and it is tried   *)
(* once more.                                                              *)
create_worktree_with_retry(o) ==
  /\ \/ /\ At(o, "add") \/ At(o, "retry")
        /\ o \notin dir
        /\ dir' = dir \cup {o} /\ meta' = meta \cup {o}
        /\ Goto(o, "verify") /\ UNCHANGED lock
     \/ /\ At(o, "add")
        /\ meta' = meta \ {o} /\ Goto(o, "retry")
        /\ UNCHANGED <<dir, lock>>
     \/ /\ At(o, "retry") /\ Fails(o) /\ UNCHANGED <<dir, meta>>
     \/ /\ At(o, "verify")                              \* does the path exist?
        /\ IF o \in dir THEN Succeeds(o) ELSE Fails(o)
        /\ UNCHANGED <<dir, meta>>
  /\ UNCHANGED <<row, job, proc, server, count, stuck>>

(* copy_project_files and the images change nothing here; container_ref is *)
(* written, and the row is read again: it may be gone by now.              *)
update_container_ref(o) ==
  /\ At(o, "ref")
  /\ IF row[o].there
     THEN /\ row' = [row EXCEPT ![o].ref = TRUE, ![o].old = FALSE]
          /\ Goto(o, "start")
     ELSE /\ Ends(o) /\ UNCHANGED row
  /\ UNCHANGED <<dir, meta, lock, job, proc, server, count, stuck>>

(* start_execution and start_execution_for_run: the process row (its       *)
(* foreign key needs the owner's row), then the spawn in the directory.    *)
start_execution(o) ==
  /\ \/ /\ At(o, "start") /\ row[o].there
        /\ proc' = [proc EXCEPT ![o] = "row"]
        /\ Goto(o, "spawn")
     \/ /\ At(o, "start") /\ ~row[o].there
        /\ Ends(o) /\ UNCHANGED proc
     \/ /\ At(o, "spawn")
        /\ proc' = [proc EXCEPT ![o] = IF o \in dir THEN "running" ELSE "none"]
        /\ Ends(o)
  /\ UNCHANGED <<row, dir, meta, lock, job, server, count, stuck>>

(* The process ends; its completed_at is the last activity of the attempt. *)
ProcessEnds(o) ==
  /\ server = "up" /\ proc[o] = "running"
  /\ proc' = [proc EXCEPT ![o] = "none"]
  /\ row' = [row EXCEPT ![o].old = FALSE]
  /\ UNCHANGED <<dir, meta, lock, handler, job, server, count, stuck>>

(* 72 hours pass.                                                          *)
TimePasses(a) ==
  /\ row[a].there /\ ~row[a].old
  /\ row' = [row EXCEPT ![a].old = TRUE]
  /\ UNCHANGED <<dir, meta, lock, handler, job, proc, server, count, stuck>>

UserRemoves(o) ==
  /\ o \in dir /\ count.loss < MaxLoss
  /\ dir' = dir \ {o}
  /\ count' = [count EXCEPT !.loss = @ + 1]
  /\ UNCHANGED <<row, meta, lock, handler, job, proc, server, stuck>>

-----------------------------------------------------------------------------
(* Background jobs remove the worktrees of a list read before.             *)

Todo(j, at, todo) == job' = [job EXCEPT ![j] = [IdleJob EXCEPT !.at = at, !.todo = todo, !.all = todo]]

(* check_externally_deleted_worktrees: the missing ones, then their marks. *)
check_externally_deleted_worktrees ==
  /\ server = "up" /\ job["sweep"].at = "idle"
  /\ Todo("sweep", "mark missing",
          {a \in Attempt : row[a].there /\ ~row[a].deleted /\ row[a].ref /\ a \notin dir})
  /\ UNCHANGED <<row, dir, meta, lock, handler, proc, server, count, stuck>>

mark_worktree_deleted(a) ==
  row' = [row EXCEPT ![a].deleted = row[a].there, ![a].old = FALSE]

MarkMissing(a) ==
  /\ job["sweep"].at = "mark missing" /\ a \in job["sweep"].todo
  /\ mark_worktree_deleted(a)
  /\ job' = [job EXCEPT !["sweep"].todo = @ \ {a}]
  /\ UNCHANGED <<dir, meta, lock, handler, proc, server, count, stuck>>

(* The processes of runs have no task_attempt_id: while one is unfinished, *)
(* the subquery of find_expired_for_cleanup holds a NULL, and NOT IN is    *)
(* true of no attempt.                                                     *)
find_expired_for_cleanup ==
  IF \E r \in Run : proc[r] # "none" THEN {}
  ELSE {a \in Attempt : /\ row[a].there /\ ~row[a].deleted /\ row[a].ref /\ row[a].old
                        /\ proc[a] = "none"}

cleanup_expired_attempts ==
  /\ job["sweep"].at = "mark missing" /\ job["sweep"].todo = {}
  /\ Todo("sweep", "next", find_expired_for_cleanup)
  /\ UNCHANGED <<row, dir, meta, lock, handler, proc, server, count, stuck>>

(* delete_task: no process may be running; the attempts are listed; then   *)
(* one transaction deletes the rows, and the worktrees go in background.   *)
delete_task ==
  /\ server = "up"
  /\ \/ /\ job["delete"].at = "idle"
        /\ \E a \in Attempt : row[a].there
        /\ \A a \in Attempt : proc[a] = "none"
        /\ Todo("delete", "commit", {a \in Attempt : row[a].there /\ row[a].ref})
        /\ UNCHANGED <<row, proc>>
     \/ /\ job["delete"].at = "commit"
        /\ \E a \in Attempt : row[a].there
        /\ row' = [o \in Owner |-> IF o \in Attempt THEN NoRow ELSE row[o]]
        /\ job' = [job EXCEPT !["delete"].at = "next"]
        /\ UNCHANGED proc
     \/ /\ job["delete"].at = "commit"
        /\ \A a \in Attempt : ~row[a].there              \* RowNotFound
        /\ job' = [job EXCEPT !["delete"] = IdleJob]
        /\ UNCHANGED <<row, proc>>
  /\ UNCHANGED <<dir, meta, lock, handler, server, count, stuck>>

(* delete_project: the rows go, the worktrees stay for the next scan.      *)
delete_project ==
  /\ server = "up" /\ \E o \in Owner : row[o].there
  /\ row' = [o \in Owner |-> NoRow]
  /\ UNCHANGED <<dir, meta, lock, handler, job, proc, server, count, stuck>>

(* handle_task_archive, spawned by update_task: running or not.            *)
handle_task_archive ==
  /\ server = "up" /\ job["archive"].at = "idle"
  /\ \E a \in Attempt : row[a].there /\ row[a].ref
  /\ job' = [job EXCEPT !["archive"] =
       [IdleJob EXCEPT !.at = "next",
                       !.todo = {a \in Attempt : row[a].there /\ row[a].ref},
                       !.all = {a \in Attempt : row[a].there}]]
  /\ UNCHANGED <<row, dir, meta, lock, handler, proc, server, count, stuck>>

(* Mutant: a background job does not take the lock of the path. *)
CleanupUnlocked(j, o) ==
  /\ job[j].at = "next" /\ o \in job[j].todo
  /\ job' = [job EXCEPT ![j].at = "clean", ![j].on = o]
  /\ UNCHANGED <<row, dir, meta, lock, handler, proc, server, count, stuck>>

(* cleanup_worktree for the next of the list, under the lock of its path.  *)
cleanup_worktree(j, o) ==
  /\ job[j].at = "next" /\ o \in job[j].todo
  /\ lock[o] = Free
  /\ lock' = [lock EXCEPT ![o] = j]
  /\ job' = [job EXCEPT ![j].at = "clean", ![j].on = o]
  /\ UNCHANGED <<row, dir, meta, handler, proc, server, count, stuck>>

(* A sweep marks the attempt after its own removal, and not after a failed *)
(* one; the others go on with their list.                                  *)
comprehensive_worktree_cleanup(j, o) ==
  /\ \/ /\ job[j].at = "clean" /\ job[j].on = o
        /\ Unregister(o)
        /\ job' = [job EXCEPT ![j].at = "rmdir"]
        /\ UNCHANGED <<lock, stuck>>
     \/ /\ job[j].at = "rmdir" /\ job[j].on = o /\ RemoveDir(o) /\ Unlock(o)
        /\ job' = [job EXCEPT ![j].at = IF j = "sweep" THEN "mark" ELSE "next",
                              ![j].todo = @ \ {o}]
     \/ /\ job[j].at = "rmdir" /\ job[j].on = o /\ RemoveDirFails(o) /\ Unlock(o)
        /\ job' = [job EXCEPT ![j].at = "next", ![j].todo = @ \ {o}]
  /\ UNCHANGED <<row, handler, proc, server, count>>

cleanup_expired_attempt(a) ==
  /\ job["sweep"].at = "mark" /\ job["sweep"].on = a
  /\ mark_worktree_deleted(a)
  /\ job' = [job EXCEPT !["sweep"].at = "next"]
  /\ UNCHANGED <<dir, meta, lock, handler, proc, server, count, stuck>>

(* The list is done.  An archived task's attempts are all marked, those    *)
(* whose removal failed too: cleanup_worktrees_direct never returns Err.   *)
cleanup_worktrees_direct(j) ==
  /\ job[j].at = "next" /\ job[j].todo = {}
  /\ row' = IF j # "archive" THEN row
            ELSE [o \in Owner |-> IF o \in job[j].all /\ row[o].there
                                  THEN [row[o] EXCEPT !.deleted = TRUE, !.old = FALSE]
                                  ELSE row[o]]
  /\ job' = [job EXCEPT ![j] = IdleJob]
  /\ UNCHANGED <<dir, meta, lock, handler, proc, server, count, stuck>>

-----------------------------------------------------------------------------
(* The server stops and starts again: locks, handlers and jobs are lost,   *)
(* cleanup_orphan_executions ends the processes, and the scan is awaited   *)
(* before requests are served.                                             *)
Crash ==
  /\ server = "up" /\ count.crash < MaxCrash
  /\ count' = [count EXCEPT !.crash = @ + 1]
  /\ server' = "down"
  /\ lock' = [o \in Owner |-> Free]
  /\ handler' = [o \in Owner |-> IF At(o, "new") THEN handler[o] ELSE Handling("follow", "idle")]
  /\ job' = [j \in Job |-> IdleJob]
  /\ proc' = [o \in Owner |-> "none"]
  /\ UNCHANGED <<row, dir, meta, stuck>>

spawn_worktree_cleanup ==
  /\ server = "down"
  /\ server' = "scan"
  /\ Todo("scan", "next", dir)
  /\ UNCHANGED <<row, dir, meta, lock, handler, proc, count, stuck>>

(* Mutant: only task attempts are asked whether they refer to the path. *)
AttemptRefExists(o) == o \in Attempt /\ row[o].there /\ row[o].ref

container_ref_exists(o) == row[o].there /\ row[o].ref

(* Mutant: a worktree git does not know is left alone. *)
ScanRegisteredOnly(o) ==
  /\ server = "scan" /\ o \in job["scan"].todo
  /\ job' = [job EXCEPT !["scan"].todo = @ \ {o}]
  /\ \/ container_ref_exists(o) /\ UNCHANGED <<dir, meta, stuck>>
     \/ ~container_ref_exists(o) /\ o \in meta /\ RemoveDir(o)
     \/ ~container_ref_exists(o) /\ o \notin meta /\ UNCHANGED <<dir, meta, stuck>>
  /\ UNCHANGED <<row, lock, handler, proc, server, count>>

(* A directory no row refers to is cleaned up; the repository is found     *)
(* from the worktree itself, when it is still registered.                  *)
cleanup_orphaned_worktrees(o) ==
  /\ server = "scan" /\ o \in job["scan"].todo
  /\ job' = [job EXCEPT !["scan"].todo = @ \ {o}]
  /\ \/ container_ref_exists(o) /\ UNCHANGED <<dir, meta, stuck>>
     \/ ~container_ref_exists(o) /\ o \in meta /\ RemoveDir(o)
     \/ ~container_ref_exists(o) /\ o \notin meta /\ simple_worktree_cleanup(o)
     \/ ~container_ref_exists(o) /\ RemoveDirFails(o)
  /\ UNCHANGED <<row, lock, handler, proc, server, count>>

Serve ==
  /\ server = "scan" /\ job["scan"].todo = {}
  /\ server' = "up" /\ job' = [job EXCEPT !["scan"] = IdleJob]
  /\ UNCHANGED <<row, dir, meta, lock, handler, proc, count, stuck>>

-----------------------------------------------------------------------------
Handle(o) ==
  \/ ensure_worktree_exists(o) \/ is_worktree_properly_set_up(o)
  \/ recreate_worktree_internal(o) \/ create_worktree_with_retry(o)
  \/ update_container_ref(o) \/ start_execution(o)

Work(j) ==
  \/ \E o \in Owner : cleanup_worktree(j, o) \/ comprehensive_worktree_cleanup(j, o)
  \/ cleanup_worktrees_direct(j)

WtNext ==
  \/ \E o \in Owner : create(o) \/ Handle(o) \/ ProcessEnds(o) \/ UserRemoves(o)
  \/ \E a \in Attempt : ensure_container_exists(a) \/ TimePasses(a)
  \/ \E r \in Run : RunFollowUp(r)
  \/ check_externally_deleted_worktrees \/ cleanup_expired_attempts
  \/ \E a \in Attempt : MarkMissing(a) \/ cleanup_expired_attempt(a)
  \/ delete_task \/ delete_project \/ handle_task_archive
  \/ \E j \in Job \ {"scan"} : Work(j)
  \/ Crash \/ spawn_worktree_cleanup \/ Serve
  \/ \E o \in Owner : cleanup_orphaned_worktrees(o)

WtSpec == WtInit /\ [][WtNext]_wtVars

-----------------------------------------------------------------------------
(* When the worktree of a request is reported ready, its directory is      *)
(* there and registered: no removal of the same path gets in between       *)
(* (the lock per path of WorktreeManager).                                 *)
EnsureGivesWorktree ==
  [][\A o \in Owner : handler[o].at \in {"check", "verify"} /\ handler'[o].at \in {"ref", "start"}
       => o \in dir' \cap meta']_wtVars

(* Whatever was interrupted or deleted before, once the server is up again *)
(* every directory is referred to by a row (or could not be removed).      *)
OrphansGone ==
  [][server = "scan" /\ server' = "up" =>
       \A o \in dir' \ stuck : row[o].there /\ row[o].ref]_wtVars

(* A restart takes no directory away that an attempt or a run refers to.   *)
WorkSurvivesRestart ==
  [][server # "up" =>
       \A o \in dir \ dir' : ~(row[o].there /\ row[o].ref) \/ count'.loss > count.loss]_wtVars

(* delete_task takes no row away while a process of the task is running.   *)
DeleteSparesRunning ==
  [][job["delete"].at = "commit" /\ job'["delete"].at = "next" =>
       \A a \in Attempt : proc[a] # "running"]_wtVars
=============================================================================
