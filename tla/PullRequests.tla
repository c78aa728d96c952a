---------------------------- MODULE PullRequests ----------------------------
(***************************************************************************)
(* How a task attempt's branch becomes Done: pull requests opened through  *)
(* GitHub or found there, direct merges, the rows of the merges table, and *)
(* PrMonitorService, which polls GitHub for the rows that are open.        *)
(*                                                                         *)
(* One task with one attempt.  Requests and the monitor are actors that    *)
(* interleave at their awaits; the server may crash between any two of     *)
(* their statements.  GitHub keeps the pull requests of the branch, at     *)
(* most one of them open, and answers, fails, or acts and loses the        *)
(* answer.                                                                 *)
(***************************************************************************)
EXTENDS Naturals, Sequences, FiniteSets

CONSTANTS Request,      \* HTTP requests
          MaxRetry,     \* retries of a GitHub call (3)
          MaxPr,        \* bound: pull requests of the branch
          MaxRow,       \* bound: rows of merges
          MaxPrCrash    \* bound: crashes of the server

ASSUME PullRequestAssumption == MaxRetry \in Nat /\ MaxPrCrash \in Nat

VARIABLES
  github,     \* the pull requests of the branch, in the order of creation
  closedOnce, \* ghost: pull requests that were closed without being merged
  merges,     \* the rows of merges, in the order of created_at
  taskDone,   \* the status of the task is Done
  request,    \* request -> where its handler is
  monitor,    \* where check_all_open_prs is
  crashes,
  doneFor,    \* ghost: rows for which the task was set to Done
  cut         \* ghost: rows a crash left between their status and the task's

prVars == <<github, closedOnce, merges, taskDone, request, monitor, crashes, doneFor, cut>>

Direct == [type |-> "direct", pr |-> 0, status |-> "merged"]
PrRow(n, s) == [type |-> "pr", pr |-> n, status |-> s]
Fresh == [at |-> "fresh", pr |-> 0, row |-> 0, tries |-> 0, status |-> "none"]
Answered == [Fresh EXCEPT !.at = "answered"]
IdleMonitor == [at |-> "idle", todo |-> << >>, status |-> "none"]

PrInit ==
  /\ github = << >> /\ closedOnce = {} /\ merges = << >> /\ taskDone = FALSE
  /\ request = [q \in Request |-> Fresh]
  /\ monitor = IdleMonitor
  /\ crashes = 0 /\ doneFor = {} /\ cut = {}

PrAt(q, at) == request[q].at = at
PrGoto(q, at) == request' = [request EXCEPT ![q].at = at]
Answer(q) == request' = [request EXCEPT ![q] = Answered]

(* A pull request at GitHub: open or closed, and whether it was merged.    *)
OpenPr == [open |-> TRUE, merged |-> FALSE]

map_pull_request(pr) ==
  IF pr.open THEN "open" ELSE IF pr.merged THEN "merged" ELSE "closed"

NoneOpen == \A n \in DOMAIN github : ~github[n].open
Openable == Len(github) < MaxPr /\ NoneOpen

-----------------------------------------------------------------------------
(* The merges table.                                                       *)

create_pr(n) == merges' = Append(merges, PrRow(n, "open"))

create_direct == merges' = Append(merges, Direct)

update_status(i, s) == merges' = [merges EXCEPT ![i].status = s]

get_open_prs == {i \in DOMAIN merges : merges[i].type = "pr" /\ merges[i].status = "open"}

(* The rows newest first.                                                  *)
find_by_task_attempt_id == [i \in DOMAIN merges |-> merges[Len(merges) + 1 - i]]

(* The last of them.                                                       *)
find_latest_by_task_attempt_id ==
  find_by_task_attempt_id[Len(find_by_task_attempt_id)]

-----------------------------------------------------------------------------
(* create_github_pr: the branch is pushed (GitService), then the pull      *)
(* request is made, with retries after every error that is not about the   *)
(* token, the permissions or the repository.                               *)

create_github_pr(q) ==
  /\ PrAt(q, "fresh")
  /\ PrGoto(q, "call") \/ Answer(q)     \* no token, or the push fails
  /\ UNCHANGED <<github, closedOnce, merges, taskDone, monitor, crashes, doneFor, cut>>

create_pr_internal(q) ==
  /\ PrAt(q, "call") /\ Openable
  /\ github' = Append(github, OpenPr)
  /\ \/ request' = [request EXCEPT ![q].at = "created", ![q].pr = Len(github) + 1]
     \/ IF request[q].tries < MaxRetry    \* made, but the answer is lost
        THEN request' = [request EXCEPT ![q].tries = @ + 1] ELSE Answer(q)
  /\ UNCHANGED <<closedOnce, merges, taskDone, monitor, crashes, doneFor, cut>>

(* An error: the branch has an open pull request, a branch is missing, or  *)
(* GitHub is out of reach.                                                 *)
CreatePrFails(q) ==
  /\ PrAt(q, "call")
  /\ IF request[q].tries < MaxRetry
     THEN request' = [request EXCEPT ![q].tries = @ + 1] \/ Answer(q)
     ELSE Answer(q)
  /\ UNCHANGED <<github, closedOnce, merges, taskDone, monitor, crashes, doneFor, cut>>

(* An error of the insertion is only logged.                               *)
RecordPr(q) ==
  /\ PrAt(q, "created")
  /\ (Len(merges) < MaxRow /\ create_pr(request[q].pr)) \/ UNCHANGED merges
  /\ Answer(q)
  /\ UNCHANGED <<github, closedOnce, taskDone, monitor, crashes, doneFor, cut>>

-----------------------------------------------------------------------------
(* attach_existing_pr: nothing when the row it takes for the latest is a   *)
(* pull request; else the first pull request GitHub lists for the branch   *)
(* (the newest) is recorded.                                               *)

attach_existing_pr(q) ==
  /\ PrAt(q, "fresh")
  /\ IF merges # << >> /\ find_latest_by_task_attempt_id.type = "pr"
     THEN Answer(q) ELSE PrGoto(q, "list")
  /\ UNCHANGED <<github, closedOnce, merges, taskDone, monitor, crashes, doneFor, cut>>

list_all_prs_for_branch(q) ==
  /\ PrAt(q, "list")
  /\ \/ github # << >> /\ request' = [request EXCEPT ![q].at = "attach",
                              ![q].pr = Len(github), ![q].status = map_pull_request(github[Len(github)])]
     \/ Answer(q)     \* none, or all retries fail
  /\ UNCHANGED <<github, closedOnce, merges, taskDone, monitor, crashes, doneFor, cut>>

AttachRow(q) ==
  /\ PrAt(q, "attach")
  /\ \/ /\ Len(merges) < MaxRow /\ create_pr(request[q].pr)
        /\ IF request[q].status = "open" THEN Answer(q)
           ELSE request' = [request EXCEPT ![q].at = "settle", ![q].row = Len(merges) + 1]
     \/ UNCHANGED merges /\ Answer(q)     \* the insertion fails
  /\ UNCHANGED <<github, closedOnce, taskDone, monitor, crashes, doneFor, cut>>

AttachStatus(q) ==
  /\ PrAt(q, "settle")
  /\ update_status(request[q].row, request[q].status)
  /\ IF request[q].status = "merged" THEN PrGoto(q, "done") ELSE Answer(q)
  /\ UNCHANGED <<github, closedOnce, taskDone, monitor, crashes, doneFor, cut>>

(* merge_task_attempt after merge_changes (GitService): the row, then the  *)
(* status of the task, as at the end of attach_existing_pr.                *)
merge_row(q) ==
  /\ PrAt(q, "fresh") /\ Len(merges) < MaxRow
  /\ create_direct
  /\ request' = [request EXCEPT ![q].at = "done", ![q].row = Len(merges) + 1]
  /\ UNCHANGED <<github, closedOnce, taskDone, monitor, crashes, doneFor, cut>>

SetDone(q) ==
  /\ PrAt(q, "done")
  /\ taskDone' = TRUE /\ doneFor' = doneFor \cup {request[q].row}
  /\ Answer(q)
  /\ UNCHANGED <<github, closedOnce, merges, monitor, crashes, cut>>

(* The next request on the same connection.                                *)
NextRequest(q) ==
  /\ PrAt(q, "answered")
  /\ request' = [request EXCEPT ![q] = Fresh]
  /\ UNCHANGED <<github, closedOnce, merges, taskDone, monitor, crashes, doneFor, cut>>

-----------------------------------------------------------------------------
(* PrMonitorService: every minute the open rows, the newest first; for     *)
(* each its status at GitHub, the row, the task.                           *)

Descending(S) == [k \in 1..Cardinality(S) |->
  CHOOSE i \in S : Cardinality({j \in S : j > i}) = k - 1]

check_all_open_prs ==
  /\ monitor.at = "idle" /\ get_open_prs # {}
  /\ monitor' = [monitor EXCEPT !.at = "query", !.todo = Descending(get_open_prs)]
  /\ UNCHANGED <<github, closedOnce, merges, taskDone, request, crashes, doneFor, cut>>

NextPr == IF Len(monitor.todo) = 1 THEN IdleMonitor
          ELSE [at |-> "query", todo |-> Tail(monitor.todo), status |-> "none"]

(* update_pr_status asks GitHub.                                           *)
update_pr_status ==
  /\ monitor.at = "query"
  /\ LET s == map_pull_request(github[merges[Head(monitor.todo)].pr])
     IN monitor' = IF s = "open" THEN NextPr
                   ELSE [monitor EXCEPT !.at = "row", !.status = s]
  /\ UNCHANGED <<github, closedOnce, merges, taskDone, request, crashes, doneFor, cut>>

(* No token, or every retry failed: the error is logged, the row stays     *)
(* open for the next round.                                                *)
StatusFails ==
  /\ monitor.at = "query" /\ monitor' = NextPr
  /\ UNCHANGED <<github, closedOnce, merges, taskDone, request, crashes, doneFor, cut>>

(* Mutant: the check stops once the row is up to date. *)
RowOnly ==
  /\ monitor.at = "row"
  /\ update_status(Head(monitor.todo), monitor.status)
  /\ monitor' = NextPr
  /\ UNCHANGED <<github, closedOnce, taskDone, request, crashes, doneFor, cut>>

MonitorRow ==
  /\ monitor.at = "row"
  /\ update_status(Head(monitor.todo), monitor.status)
  /\ monitor' = IF monitor.status = "merged" THEN [monitor EXCEPT !.at = "task"] ELSE NextPr
  /\ UNCHANGED <<github, closedOnce, taskDone, request, crashes, doneFor, cut>>

MonitorTask ==
  /\ monitor.at = "task"
  /\ taskDone' = TRUE /\ doneFor' = doneFor \cup {Head(monitor.todo)}
  /\ monitor' = NextPr
  /\ UNCHANGED <<github, closedOnce, merges, request, crashes, cut>>

-----------------------------------------------------------------------------
(* The user at GitHub, the user on the board, and a crash.                 *)

PrMerged == \E n \in DOMAIN github :
  /\ github[n].open /\ github' = [github EXCEPT ![n] = [open |-> FALSE, merged |-> TRUE]]
  /\ UNCHANGED <<closedOnce, merges, taskDone, request, monitor, crashes, doneFor, cut>>

PrClosed == \E n \in DOMAIN github :
  /\ github[n].open /\ github' = [github EXCEPT ![n].open = FALSE]
  /\ closedOnce' = closedOnce \cup {n}
  /\ UNCHANGED <<merges, taskDone, request, monitor, crashes, doneFor, cut>>

PrReopened == \E n \in DOMAIN github :
  /\ ~github[n].open /\ ~github[n].merged /\ NoneOpen
  /\ github' = [github EXCEPT ![n].open = TRUE]
  /\ UNCHANGED <<closedOnce, merges, taskDone, request, monitor, crashes, doneFor, cut>>

TaskReopened ==
  /\ taskDone /\ taskDone' = FALSE
  /\ UNCHANGED <<github, closedOnce, merges, request, monitor, crashes, doneFor, cut>>

(* A restart keeps the tables and the task of the monitor starts again.    *)
PrCrash ==
  /\ crashes < MaxPrCrash /\ crashes' = crashes + 1
  /\ cut' = cut \cup {request[q].row : q \in {p \in Request : PrAt(p, "done")}}
              \cup (IF monitor.at = "task" THEN {Head(monitor.todo)} ELSE {})
  /\ request' = [q \in Request |-> Fresh] /\ monitor' = IdleMonitor
  /\ UNCHANGED <<github, closedOnce, merges, taskDone, doneFor>>

PrHandle(q) == \/ create_pr_internal(q) \/ CreatePrFails(q) \/ RecordPr(q)
             \/ list_all_prs_for_branch(q) \/ AttachRow(q) \/ AttachStatus(q) \/ SetDone(q)

MonitorStep ==
  check_all_open_prs \/ update_pr_status \/ StatusFails \/ MonitorRow \/ MonitorTask

PrNext ==
  \/ \E q \in Request : \/ create_github_pr(q) \/ attach_existing_pr(q) \/ merge_row(q)
                        \/ PrHandle(q) \/ NextRequest(q)
  \/ MonitorStep
  \/ PrMerged \/ PrClosed \/ PrReopened \/ TaskReopened \/ PrCrash

(* The monitor's loop and the handlers are scheduled by the runtime; a     *)
(* GitHub that is asked again and again about a pull request answers some  *)
(* time.                                                                   *)
PrFairness ==
  /\ WF_prVars(MonitorStep)
  /\ \A i \in 1..MaxRow : SF_prVars(update_pr_status /\ Head(monitor.todo) = i)
  /\ \A q \in Request : WF_prVars(PrHandle(q))

PrSpec == PrInit /\ [][PrNext]_prVars
PrFairSpec == PrSpec /\ PrFairness

-----------------------------------------------------------------------------
(* A pull request that is merged at GitHub, was never closed before and    *)
(* has an open row ends with the task set to Done for that row: polls may  *)
(* fail, other rows may be in the list, a crash may come at any point; the *)
(* only way out is a crash right between Merge::update_status and          *)
(* Task::update_status, after which no poll looks at the row again.        *)
MergedPrSetsDone ==
  \A i \in 1..MaxRow :
    (/\ i \in DOMAIN merges /\ merges[i].type = "pr" /\ merges[i].status = "open"
     /\ github[merges[i].pr].merged /\ merges[i].pr \notin closedOnce)
    ~> (i \in doneFor \cup cut)

=============================================================================
