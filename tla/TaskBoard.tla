------------------------------ MODULE TaskBoard ------------------------------
(***************************************************************************)
(* The tasks of a project and who sees them: the REST handlers that write  *)
(* task rows, the SQLite hooks that turn a write into a JSON patch         *)
(* (EventService), the web socket of the kanban board that starts from a   *)
(* snapshot and then follows the patches, and the MCP server's tools,      *)
(* which use the REST list.                                                *)
(*                                                                         *)
(* A hook fires inside the write, before its commit; it starts a task that *)
(* reads the row again through the pool and pushes a patch later.  A row   *)
(* is a status and whether a process of an attempt is running: the title,  *)
(* the times and the parent link are not told apart.                       *)
(***************************************************************************)
EXTENDS Naturals, Sequences

CONSTANTS Task,
          Capacity,     \* patches a slow socket may be behind (10000)
          MaxWrite      \* bound: writes to the task tables

ASSUME TaskBoardAssumption ==
  /\ Capacity \in Nat \ {0}
  /\ MaxWrite \in Nat
  /\ "none" \notin Task

VARIABLES
  tasks,        \* task -> its committed row
  writer,       \* the write that has fired its hook and is not committed
  registered,   \* tasks with a row in forge_agents
  registering,  \* create_forge_agent between its two statements
  edits,        \* task -> the row a PUT request read before its handler ran
  hooks,        \* write -> the task its update hook started
  writes,       \* number of writes so far
  socket,       \* how far the board's web socket is
  cache,        \* agent_task_ids of that socket
  snapshot,     \* the rows read for the first message
  channel,      \* patches the socket's receiver has not taken
  board,        \* task -> what the client shows
  made,         \* ids given to tasks so far: a new task has a new id
  raced,        \* ghost: tasks whose changes met one of the known races
  plain         \* ghost: agent tasks given another status before registration

tbVars == <<tasks, writer, registered, registering, edits, hooks, writes, socket, cache,
            snapshot, channel, board, made, raced, plain>>

Status == {"Todo", "InProgress", "InReview", "Done", "Cancelled", "Agent", "Archived"}
Row == [status : Status, live : BOOLEAN]
NoTask == [status |-> "none", live |-> FALSE]
NewRow(s) == [status |-> s, live |-> FALSE]
NoWrite == [task |-> "none", row |-> NoTask]
AllGone == [t \in Task |-> NoTask]

(* What the handlers of this module and the processes write; the other     *)
(* statuses behave like one of these.                                      *)
UserStatus == {"Todo", "InProgress"}

TbInit ==
  /\ tasks = AllGone /\ writer = NoWrite
  /\ registered = {} /\ registering = {}
  /\ edits = AllGone
  /\ hooks = << >> /\ writes = 0
  /\ socket = "closed" /\ cache = {} /\ snapshot = AllGone /\ channel = << >>
  /\ board = AllGone
  /\ made = {} /\ raced = {} /\ plain = {}

InFlight(t) == \E n \in DOMAIN hooks : hooks[n].task = t

-----------------------------------------------------------------------------
(* Statuses as text.  The column holds the lower-case name; strum's        *)
(* FromStr accepts the kebab-case name only.                               *)

SpelledAs == [s \in Status |->
  CASE s = "InProgress" -> "in-progress" [] s = "InReview" -> "in-review"
    [] s = "Todo" -> "todo" [] s = "Done" -> "done" [] s = "Cancelled" -> "cancelled"
    [] s = "Agent" -> "agent" [] s = "Archived" -> "archived"]

FromStr(text) == {s \in Status : SpelledAs[s] = text}

-----------------------------------------------------------------------------
(* The receiver of the socket holds Capacity patches; a push beyond that   *)
(* drops the oldest, and the stream filters the Lagged error out.          *)
Push(patch) ==
  IF socket \notin {"subscribed", "open"} THEN UNCHANGED channel
  ELSE channel' = IF Len(channel) < Capacity THEN Append(channel, patch)
                  ELSE Append(Tail(channel), patch)

(* A patch pushed while the snapshot is read but nobody listens is lost,   *)
(* and so is one that a full channel drops.                                *)
LostBy(t) ==
  IF socket = "snapshot" THEN {t}
  ELSE IF socket \in {"subscribed", "open"} /\ Len(channel) = Capacity
       THEN {Head(channel).task} ELSE {}

Patch(op, t, r) == [op |-> op, task |-> t, row |-> r]

(* A statement that changes row t: SQLite has one writer, the update hook  *)
(* starts a task, the row is visible to the pool after the commit.         *)
Write(op, t, r) ==
  /\ writer = NoWrite /\ writes < MaxWrite
  /\ writes' = writes + 1
  /\ writer' = [task |-> t, row |-> r]
  /\ hooks' = [n \in DOMAIN hooks \cup {writes + 1} |->
                 IF n = writes + 1
                 THEN [op |-> op, task |-> t, stage |-> "started", row |-> NoTask]
                 ELSE hooks[n]]
  /\ raced' = raced \cup {u \in {t} : InFlight(u)}

Commit ==
  /\ writer # NoWrite
  /\ tasks' = [tasks EXCEPT ![writer.task] = writer.row]
  /\ registered' = IF writer.row = NoTask THEN registered \ {writer.task} ELSE registered
  /\ writer' = NoWrite
  /\ UNCHANGED <<registering, edits, hooks, writes, socket, cache, snapshot, channel,
                 board, made, raced, plain>>

(* POST /tasks and POST /tasks/create-and-start with a worktree.           *)
create_task(t) ==
  /\ t \notin made /\ made' = made \cup {t}
  /\ Write("add", t, NewRow("Todo"))
  /\ UNCHANGED <<tasks, registered, registering, edits, socket, cache, snapshot, channel,
                 board, plain>>

(* create-and-start without a worktree: the task is written as an agent's, *)
(* then the row of forge_agents is refused, since it names the ids as text *)
(* where the foreign keys hold bytes; the handler returns the error.       *)
create_task_and_start(t) ==
  /\ t \notin made /\ made' = made \cup {t}
  /\ Write("add", t, NewRow("Agent"))
  /\ UNCHANGED <<tasks, registered, registering, edits, socket, cache, snapshot, channel,
                 board, plain>>

(* POST /forge/agents: the task, then its row in forge_agents.             *)
create_forge_agent(t) ==
  /\ t \notin made /\ made' = made \cup {t}
  /\ Write("add", t, NewRow("Agent"))
  /\ registering' = registering \cup {t}
  /\ UNCHANGED <<tasks, registered, edits, socket, cache, snapshot, channel, board, plain>>

(* The second statement fails when the project has an agent of that type.  *)
RegisterAgent(t) ==
  /\ t \in registering /\ writer.task # t
  /\ registering' = registering \ {t}
  /\ registered' = IF registered = {} /\ tasks[t] # NoTask THEN {t} ELSE registered
  /\ UNCHANGED <<tasks, writer, edits, hooks, writes, socket, cache, snapshot, channel,
                 board, made, raced, plain>>

(* PUT /tasks/{id}: the middleware reads the row, the handler writes every *)
(* column, the ones the request leaves out from what was read.             *)
load_task_middleware(t) ==
  /\ tasks[t] # NoTask /\ edits = AllGone    \* bound: one request at a time
  /\ writes < MaxWrite
  /\ edits' = [edits EXCEPT ![t] = tasks[t]]
  /\ UNCHANGED <<tasks, writer, registered, registering, hooks, writes, socket, cache,
                 snapshot, channel, board, made, raced, plain>>

update_task(t, want) ==
  /\ edits[t] # NoTask
  /\ edits' = [edits EXCEPT ![t] = NoTask]
  /\ LET status == IF want = "keep" THEN edits[t].status ELSE want
     IN IF tasks[t] = NoTask THEN UNCHANGED <<writer, writes, hooks, raced, plain>>
        ELSE /\ Write("replace", t, [tasks[t] EXCEPT !.status = status])
             /\ plain' = plain \cup {u \in {t} : /\ tasks[u].status = "Agent"
                                                 /\ status # "Agent"
                                                 /\ u \notin registered}
  /\ UNCHANGED <<tasks, registered, registering, socket, cache, snapshot, channel, made, board>>

(* The MCP tool update_task: a PUT whose status is parsed by FromStr.      *)
mcp_update_task(t, text) == \E s \in FromStr(text) : update_task(t, s)

(* Mutant: a change of a process pushes no patch of its task. *)
ProcessPatchOnly(t) ==
  /\ tasks[t] # NoTask /\ writer = NoWrite /\ writes < MaxWrite
  /\ writes' = writes + 1
  /\ writer' = [task |-> t, row |-> [tasks[t] EXCEPT !.live = ~@]]
  /\ UNCHANGED <<hooks, raced, tasks, registered, registering, edits, socket, cache, snapshot,
                 channel, board, made, plain>>

(* A process of an attempt of t starts or ends: the hook of                *)
(* execution_processes pushes the row of the task as well.                 *)
push_task_update_for_attempt(t) ==
  /\ tasks[t] # NoTask
  /\ Write("replace", t, [tasks[t] EXCEPT !.live = ~@])
  /\ UNCHANGED <<tasks, registered, registering, edits, socket, cache, snapshot, channel,
                 board, made, plain>>

(* DELETE /tasks/{id}, refused while a process runs: the preupdate hook    *)
(* pushes the removal at once, the commit follows.                         *)
delete_task_row(t) ==
  /\ tasks[t] # NoTask /\ ~tasks[t].live
  /\ writer = NoWrite /\ writes < MaxWrite
  /\ writes' = writes + 1
  /\ writer' = [task |-> t, row |-> NoTask]
  /\ Push(Patch("remove", t, NoTask))
  /\ raced' = raced \cup {u \in {t} : InFlight(u)} \cup LostBy(t)
  /\ UNCHANGED <<tasks, registered, registering, edits, hooks, socket, cache, snapshot,
                 board, made, plain>>

-----------------------------------------------------------------------------
(* The queries behind a patch and behind the snapshot: the row with        *)
(* whether a process of one of its attempts is running.                    *)
find_by_id_with_attempt_status(t) == tasks[t]

find_by_project_id_with_attempt_status == tasks

(* The task an update hook starts: it reads the row by its rowid and with  *)
(* the attempt's status, then pushes.  A row that is not there (not yet    *)
(* committed, or deleted) gives an entry of the old format.                *)

HookReads(n) ==
  /\ n \in DOMAIN hooks /\ hooks[n].stage = "started"
  /\ LET t == hooks[n].task
         r == find_by_id_with_attempt_status(t)
     IN /\ hooks' = [hooks EXCEPT ![n].stage = "read", ![n].row = r,
                                  ![n].op = IF r = NoTask THEN "entry" ELSE @]
        /\ raced' = raced \cup {u \in {t} : writer.task = u}
  /\ UNCHANGED <<tasks, writer, registered, registering, edits, writes, socket, cache,
                 snapshot, channel, board, made, plain>>

HookPushes(n) ==
  /\ n \in DOMAIN hooks /\ hooks[n].stage = "read"
  /\ Push(Patch(hooks[n].op, hooks[n].task, hooks[n].row))
  /\ hooks' = [k \in DOMAIN hooks \ {n} |-> hooks[k]]
  /\ raced' = raced \cup LostBy(hooks[n].task)
  /\ UNCHANGED <<tasks, writer, registered, registering, edits, writes, socket, cache,
                 snapshot, board, made, plain>>

-----------------------------------------------------------------------------
(* The web socket: handle_kanban_tasks_ws over stream_tasks_raw.           *)

stream_tasks_ws ==
  /\ socket = "closed"
  /\ socket' = "cached" /\ cache' = registered
  /\ UNCHANGED <<tasks, writer, registered, registering, edits, hooks, writes, snapshot,
                 channel, board, made, raced, plain>>

ReadSnapshot ==
  /\ socket = "cached"
  /\ socket' = "snapshot" /\ snapshot' = find_by_project_id_with_attempt_status
  /\ raced' = {t \in raced : InFlight(t) \/ writer.task = t} \cup
              {t \in Task : writer.task = t /\ writer.row = NoTask}
  /\ UNCHANGED <<tasks, writer, registered, registering, edits, hooks, writes, cache,
                 channel, board, made, plain>>

get_receiver ==
  /\ socket = "snapshot"
  /\ socket' = "subscribed" /\ channel' = << >>
  /\ UNCHANGED <<tasks, writer, registered, registering, edits, hooks, writes, cache,
                 snapshot, board, made, raced, plain>>

(* Mutant: the status of the row is not looked at. *)
NotInAgents(t, r) == t \in cache \cup registered

(* The cache, then the table; the status is the backup.                    *)
is_agent_task(t, r) == t \in cache \cup registered \/ r.status = "Agent"

Learnt(t) == IF t \in registered THEN {t} ELSE {}

SendSnapshot ==
  /\ socket = "subscribed"
  /\ socket' = "open"
  /\ board' = [t \in Task |-> IF is_agent_task(t, snapshot[t]) THEN NoTask ELSE snapshot[t]]
  /\ cache' = cache \cup {t \in registered : snapshot[t] # NoTask}
  /\ snapshot' = AllGone
  /\ UNCHANGED <<tasks, writer, registered, registering, edits, hooks, writes, channel,
                 made, raced, plain>>

(* The client applies a patch: replace and remove need the member to be    *)
(* there.                                                                  *)
Applied(p) ==
  IF p.op = "replace" /\ board[p.task] = NoTask THEN board
  ELSE [board EXCEPT ![p.task] = p.row]

(* What the stream lets through: the patches of /tasks/ with a row of this *)
(* project, and every removal.  An entry without ids is dropped.           *)
stream_tasks_raw(p) == p.op = "remove" \/ (p.op \in {"add", "replace"} /\ p.row # NoTask)

SendPatch ==
  /\ socket = "open" /\ channel # << >>
  /\ LET p == Head(channel)
     IN IF ~stream_tasks_raw(p) THEN UNCHANGED <<board, cache>>
        ELSE IF p.op = "remove"
        THEN board' = Applied(p) /\ UNCHANGED cache
        ELSE /\ board' = IF is_agent_task(p.task, p.row) THEN board ELSE Applied(p)
             /\ cache' = cache \cup Learnt(p.task)
  /\ channel' = Tail(channel)
  /\ UNCHANGED <<tasks, writer, registered, registering, edits, hooks, writes, socket,
                 snapshot, made, raced, plain>>

(* Every 30 seconds.                                                       *)
RefreshCache ==
  /\ socket # "closed"
  /\ cache' = registered
  /\ UNCHANGED <<tasks, writer, registered, registering, edits, hooks, writes, socket,
                 snapshot, channel, board, made, raced, plain>>

CloseSocket ==
  /\ socket = "open"
  /\ socket' = "closed" /\ cache' = {} /\ channel' = << >> /\ board' = AllGone
  /\ UNCHANGED <<tasks, writer, registered, registering, edits, hooks, writes, snapshot,
                 made, raced, plain>>

TbNext ==
  \/ Commit
  \/ \E t \in Task : \/ create_task(t) \/ create_task_and_start(t) \/ create_forge_agent(t)
                     \/ RegisterAgent(t) \/ load_task_middleware(t)
                     \/ \E want \in UserStatus \cup {"keep"} : update_task(t, want)
                     \/ \E s \in UserStatus : mcp_update_task(t, SpelledAs[s])
                     \/ push_task_update_for_attempt(t) \/ delete_task_row(t)
  \/ \E n \in 1..MaxWrite : HookReads(n) \/ HookPushes(n)
  \/ stream_tasks_ws \/ ReadSnapshot \/ get_receiver \/ SendSnapshot \/ SendPatch
  \/ RefreshCache \/ CloseSocket

TbSpec == TbInit /\ [][TbNext]_tbVars

-----------------------------------------------------------------------------
(* A task created as an agent's is never on the kanban board, whether its  *)
(* row in forge_agents is not written yet, was refused, or came after the  *)
(* socket filled its cache, and whatever status it gets once registered:   *)
(* the cache, the query and the status check of handle_kanban_tasks_ws     *)
(* cover one another.  (Left out: a task that gets another status before   *)
(* it is registered.)                                                      *)
KanbanHidesAgents ==
  \A t \in Task : board[t] # NoTask =>
    /\ board[t].status # "Agent"
    /\ (t \in registered => t \in plain)

(* When all hooks have run and the socket has sent everything, the board   *)
(* shows the rows of the tables, unless a task met one of these races: two *)
(* of its writes had hooks under way at once, a hook read the row before   *)
(* the commit it was for, a patch was pushed between the snapshot and the  *)
(* subscription, or the receiver lagged.  No other order of events leaves  *)
(* a stale or missing card (events.rs, streams.rs, handle_kanban_tasks_ws).*)
BoardInStep ==
  socket = "open" /\ channel = << >> /\ hooks = << >> /\ writer = NoWrite =>
    \A t \in Task \ raced : tasks[t].status # "Agent" /\ t \notin registered \cup plain
                              => board[t] = tasks[t]

=============================================================================
