------------------------------ MODULE LogStream ------------------------------
(***************************************************************************)
(* The output of one execution process on its way to the database and to   *)
(* the browser (utils/msg_store.rs, services/container.rs, the log routes). *)
(*                                                                         *)
(* The agent writes lines to a pipe; the forwarder pushes them into the    *)
(* process's MsgStore, the normaliser reads them there and pushes patches  *)
(* and the agent's session id back, the persister copies lines and session *)
(* id to the database, and a viewer follows over a WebSocket.  A push is   *)
(* two steps (send to the live receivers, then insert into the history),   *)
(* and a subscription is two steps in the opposite order (read the         *)
(* history, then subscribe), so every pair of them can interleave.  When   *)
(* the process ends the store is taken out of the map and told Finished,   *)
(* whoever is still pushing into it.                                       *)
(***************************************************************************)
EXTENDS Naturals, Sequences

CONSTANTS
    ScriptLine,     \* the lines a script may write
    AgentLine,      \* the lines a coding agent may write
    HistoryMax,     \* HISTORY_BYTES, in messages
    LagLimit        \* the capacity of the broadcast channel, in messages

ASSUME LogStreamBounds ==
    /\ ScriptLine \in Nat \ {0}
    /\ AgentLine \in Nat \ {0}
    /\ HistoryMax \in Nat \ {0}
    /\ LagLimit \in Nat \ {0}

VARIABLES
    script,         \* the process is a script: nothing normalises its output
    agentRuns,      \* the agent has not exited
    written,        \* lines the agent writes before it exits
    forwarded,      \* lines the forwarder has taken from the pipe
    inMap,          \* the store is in msg_stores
    history,        \* the store's history
    pushing,        \* for each pusher, what it has sent and not yet inserted
    reader,         \* for each reader, its phase and what waits for it
    spawned,        \* how far start_execution is with the tasks it spawns
    finished,       \* Finished was sent
    logs, session,  \* the rows of execution_process_logs, executor_sessions
    viewer,         \* what the browser asked for, shows and was told
    lagged,         \* some reader fell behind the channel
    owed            \* the lines sent while the persister was subscribed and
                    \* before Finished

logVars == <<script, agentRuns, written, forwarded, inMap, history, pushing, reader,
             spawned, finished, logs, session, viewer, lagged, owed>>

-----------------------------------------------------------------------------
(* LogMsg: a line stands for Stdout or Stderr. *)
Line(n) == [kind |-> "line", n |-> n]
JsonPatch(n) == [kind |-> "patch", n |-> n]
SessionId == [kind |-> "session", n |-> 0]
Finished == [kind |-> "finished", n |-> 0]
NoMsg == [kind |-> "none", n |-> 0]

Pusher == {"forwarder", "normaliser", "closer"}
Reader == {"normaliser", "persister", "viewer"}

(* A reader first holds the store, then a copy of its history (past), then *)
(* a receiver too (queue); it ends when it leaves its loop.                *)
NewReader == [phase |-> "none", past |-> <<>>, queue |-> <<>>]

LogInit ==
    /\ script \in BOOLEAN
    /\ agentRuns = TRUE
    /\ written = IF script THEN ScriptLine ELSE AgentLine
    /\ forwarded = 0
    /\ inMap = TRUE
    /\ history = <<>>
    /\ pushing = [p \in Pusher |-> NoMsg]
    /\ reader = [r \in Reader |-> NewReader]
    /\ spawned = "monitor"
    /\ finished = FALSE
    /\ logs = <<>>
    /\ session = FALSE
    /\ viewer = [kind |-> "none", shown |-> <<>>, told |-> FALSE]
    /\ lagged = FALSE
    /\ owed = {}

-----------------------------------------------------------------------------
(* MsgStore *)

(* The live half of push: every receiver's queue grows; one that is full   *)
(* loses its oldest message, which the receiver sees as Lagged and skips.  *)
Send(readers, m) ==
    LET Live == {r \in Reader : readers[r].phase = "live"}
        Full == {r \in Live : Len(readers[r].queue) >= LagLimit}
    IN  /\ reader' = [r \in Reader |->
                        IF r \notin Live THEN readers[r]
                        ELSE [readers[r] EXCEPT !.queue =
                                Append(IF r \in Full THEN Tail(@) ELSE @, m)]]
        /\ lagged' = (lagged \/ Full # {})

(* The stored half of push: the oldest messages make room. *)
Insert(p) ==
    /\ pushing[p] # NoMsg
    /\ history' = Append(IF Len(history) >= HistoryMax THEN Tail(history) ELSE history,
                         pushing[p])
    /\ pushing' = [pushing EXCEPT ![p] = NoMsg]
    /\ UNCHANGED <<script, agentRuns, written, forwarded, inMap, reader, spawned, finished,
                   logs, session, viewer, lagged, owed>>

(* Mutant: the channel is subscribed to before the history is read. *)
ReceiverFirst(r) ==
    \/ /\ reader[r].phase = "store"
       /\ reader' = [reader EXCEPT ![r].phase = "live"]
    \/ /\ reader[r].phase = "live"
       /\ reader[r].past = <<>>
       /\ reader' = [reader EXCEPT ![r].past = history]

(* history_plus_stream: the history is read first ... *)
get_history(r) ==
    /\ reader[r].phase = "store"
    /\ reader' = [reader EXCEPT ![r] = [phase |-> "history", past |-> history, queue |-> <<>>]]

(* ... and the channel is subscribed to second. *)
Subscribe(r) ==
    /\ reader[r].phase = "history"
    /\ reader' = [reader EXCEPT ![r].phase = "live"]

history_plus_stream(r) ==
    /\ get_history(r) \/ Subscribe(r)
    /\ UNCHANGED <<script, agentRuns, written, forwarded, inMap, history, pushing,
                   spawned, finished, logs, session, viewer, lagged, owed>>

(* The next message of a stream: the history, then the channel. *)
Taking(r) ==
    /\ reader[r].phase = "live"
    /\ reader[r].past # <<>> \/ reader[r].queue # <<>>
Taken(r) == Head(IF reader[r].past # <<>> THEN reader[r].past ELSE reader[r].queue)
Rest(r) == IF reader[r].past # <<>> THEN [reader EXCEPT ![r].past = Tail(@)]
                                    ELSE [reader EXCEPT ![r].queue = Tail(@)]
Left(r) == [reader EXCEPT ![r] = [NewReader EXCEPT !.phase = "ended"]]

(* The channel is closed, and with it every stream, once nobody holds the  *)
(* store: the map, the one who tells Finished, the forwarder, the tasks.   *)
Holds(r) == reader[r].phase \in {"store", "history", "live"}
Closed ==
    /\ ~inMap
    /\ finished
    /\ \A p \in Pusher : pushing[p] = NoMsg
    /\ ~agentRuns /\ forwarded = written
    /\ ~Holds("normaliser") /\ ~Holds("persister")
    /\ spawned = "done"

-----------------------------------------------------------------------------
(* The agent and the forwarder *)

(* The agent ends, or stop_execution kills it: lines it has written may    *)
(* still be in the pipe.  (Until then it writes when the forwarder takes.) *)
AgentExits ==
    /\ agentRuns
    /\ agentRuns' = FALSE
    /\ written' \in forwarded .. written
    /\ UNCHANGED <<script, forwarded, inMap, history, pushing, reader, spawned, finished,
                   logs, session, viewer, lagged, owed>>

(* What arrives within one window becomes one message: the lines that may  *)
(* be the last of the window that begins now.  A message is known by its   *)
(* last line (what it holds may be cut in the middle).                     *)
debounce_logs == {n \in 1 .. written : forwarded < n}

(* The forwarder pushes what the pipe holds, in order, window by window. *)
spawn_forwarder ==
    /\ pushing["forwarder"] = NoMsg
    /\ \E n \in debounce_logs :
         /\ forwarded' = n
         /\ Send(reader, Line(n))
         /\ owed' = IF reader["persister"].phase = "live" /\ ~finished
                    THEN owed \cup {n} ELSE owed
         /\ pushing' = [pushing EXCEPT !["forwarder"] = Line(n)]
    /\ UNCHANGED <<script, agentRuns, written, inMap, history, spawned, finished, logs,
                   session, viewer>>

(* Mutant: the store is dropped without a last message. *)
DropsStore ==
    /\ inMap /\ ~agentRuns
    /\ inMap' = FALSE
    /\ finished' = TRUE
    /\ UNCHANGED <<script, agentRuns, written, forwarded, history, pushing, reader, spawned,
                   logs, session, viewer, lagged, owed>>

(* The exit monitor, or stop_execution, whichever is first to remove the   *)
(* store from the map, pushes Finished into it.                            *)
push_finished ==
    /\ inMap /\ ~agentRuns
    /\ inMap' = FALSE
    /\ finished' = TRUE
    /\ Send(reader, Finished)
    /\ pushing' = [pushing EXCEPT !["closer"] = Finished]
    /\ UNCHANGED <<script, agentRuns, written, forwarded, history, spawned, logs,
                   session, viewer, owed>>

-----------------------------------------------------------------------------
(* The tasks start_execution spawns beside the exit monitor *)

(* The normaliser of a coding agent is spawned on the store, if that is    *)
(* still in the map.                                                       *)
normalize_logs ==
    /\ spawned = "monitor"
    /\ spawned' = "normaliser"
    /\ reader' = [reader EXCEPT !["normaliser"].phase =
                    IF inMap /\ ~script THEN "store" ELSE "ended"]
    /\ UNCHANGED <<script, agentRuns, written, forwarded, inMap, history, pushing, finished,
                   logs, session, viewer, lagged, owed>>

(* The persister is spawned last, and its task looks the store up itself. *)
spawn_stream_raw_logs_to_db ==
    /\ spawned = "normaliser"
    /\ spawned' = "done"
    /\ reader' = [reader EXCEPT !["persister"].phase =
                    IF inMap THEN "store" ELSE "ended"]
    /\ UNCHANGED <<script, agentRuns, written, forwarded, inMap, history, pushing, finished,
                   logs, session, viewer, lagged, owed>>

(* The normaliser reads lines until Finished; a line names the agent's     *)
(* session or becomes an entry.                                            *)
Normalise ==
    /\ Taking("normaliser") /\ pushing["normaliser"] = NoMsg
    /\ LET m == Taken("normaliser")
       IN  \/ /\ m.kind = "line"
              /\ \E news \in {SessionId, JsonPatch(m.n)} :
                    /\ Send(Rest("normaliser"), news)
                    /\ pushing' = [pushing EXCEPT !["normaliser"] = news]
           \/ /\ m.kind = "finished"
              /\ reader' = Left("normaliser")
              /\ UNCHANGED <<pushing, lagged>>
           \/ /\ m.kind \notin {"line", "finished"}
              /\ reader' = Rest("normaliser")
              /\ UNCHANGED <<pushing, lagged>>
    /\ UNCHANGED <<script, agentRuns, written, forwarded, inMap, history, spawned, finished,
                   logs, session, viewer, owed>>

(* Mutant: the conflict clause of the upsert replaces the log. *)
ReplaceLog(m) == <<m.n>>

(* One line of JSON is appended to the log's row, which it may create. *)
append_log_line(m) == Append(logs, m.n)

(* The persister: lines to the log row, the session id to the session row. *)
Persist ==
    /\ Taking("persister")
    /\ LET m == Taken("persister")
       IN  /\ reader' = IF m.kind = "finished" THEN Left("persister") ELSE Rest("persister")
           /\ logs' = IF m.kind = "line" THEN append_log_line(m) ELSE logs
           /\ session' = (session \/ m.kind = "session")
    /\ UNCHANGED <<script, agentRuns, written, forwarded, inMap, history, pushing, spawned,
                   finished, viewer, lagged, owed>>

-----------------------------------------------------------------------------
(* The viewer *)

ViewerSees(shown, told) == viewer' = [viewer EXCEPT !.shown = shown, !.told = told]

(* stream_raw_logs: from the store while it is in the map, else from the   *)
(* database, else not at all.                                              *)
stream_raw_logs ==
    /\ viewer.kind = "none"
    /\ \/ /\ inMap
          /\ reader' = [reader EXCEPT !["viewer"].phase = "store"]
          /\ viewer' = [viewer EXCEPT !.kind = "raw"]
       \/ /\ ~inMap
          /\ reader' = [reader EXCEPT !["viewer"].phase = "ended"]
          /\ viewer' = [kind |-> "raw", shown |-> logs, told |-> logs # <<>>]
    /\ UNCHANGED <<script, agentRuns, written, forwarded, inMap, history, pushing,
                   spawned, finished, logs, session, lagged, owed>>

(* stream_normalized_logs: the same, but what the database holds is        *)
(* normalised again into a store of its own.  The new normaliser and the   *)
(* viewer race on it: entries up to h are in the history the viewer reads, *)
(* entries after s are sent once it has subscribed, those between are not  *)
(* seen.  The log of a script is not normalised.                           *)
stream_normalized_logs ==
    /\ viewer.kind = "none"
    /\ \/ /\ inMap
          /\ reader' = [reader EXCEPT !["viewer"].phase = "store"]
          /\ viewer' = [viewer EXCEPT !.kind = "normalized"]
       \/ /\ ~inMap
          /\ reader' = [reader EXCEPT !["viewer"].phase = "ended"]
          /\ \E h \in 0 .. Len(logs) : \E s \in h .. Len(logs) :
                viewer' = [kind |-> "normalized",
                           shown |-> IF script THEN <<>>
                                     ELSE SubSeq(logs, 1, h) \o SubSeq(logs, s + 1, Len(logs)),
                           told |-> ~script /\ logs # <<>>]
    /\ UNCHANGED <<script, agentRuns, written, forwarded, inMap, history, pushing,
                   spawned, finished, logs, session, lagged, owed>>

(* The WebSocket loop: the raw stream passes lines and Finished on and     *)
(* goes on; the normalised one passes patches.                             *)
ForwardToSocket ==
    /\ Taking("viewer")
    /\ reader' = Rest("viewer")
    /\ LET m == Taken("viewer")
           Passed == m.kind = (IF viewer.kind = "raw" THEN "line" ELSE "patch")
       IN  ViewerSees(IF Passed THEN Append(viewer.shown, m.n) ELSE viewer.shown,
                      viewer.told \/ (viewer.kind = "raw" /\ m = Finished))
    /\ UNCHANGED <<script, agentRuns, written, forwarded, inMap, history, pushing,
                   spawned, finished, logs, session, lagged, owed>>

(* The channel is closed: the stream ends, the normalised one with the     *)
(* Finished chained to it.                                                 *)
StreamEnds ==
    /\ reader["viewer"].phase = "live" /\ ~Taking("viewer")
    /\ Closed
    /\ reader' = Left("viewer")
    /\ ViewerSees(viewer.shown, viewer.told \/ viewer.kind = "normalized")
    /\ UNCHANGED <<script, agentRuns, written, forwarded, inMap, history, pushing,
                   spawned, finished, logs, session, lagged, owed>>

-----------------------------------------------------------------------------
(* What each task of the server does. *)
Forwarder == spawn_forwarder \/ Insert("forwarder")
Closer == push_finished \/ Insert("closer")
Starter == normalize_logs \/ spawn_stream_raw_logs_to_db
Normaliser == history_plus_stream("normaliser") \/ Normalise \/ Insert("normaliser")
Persister == history_plus_stream("persister") \/ Persist
Socket == history_plus_stream("viewer") \/ ForwardToSocket \/ StreamEnds

LogNext ==
    \/ AgentExits
    \/ stream_raw_logs
    \/ stream_normalized_logs
    \/ Forwarder \/ Closer \/ Starter \/ Normaliser \/ Persister \/ Socket

LogSpec == LogInit /\ [][LogNext]_logVars

(* Every task of the server runs on; the agent and the user need not. *)
LogFairness ==
    /\ WF_logVars(Forwarder) /\ WF_logVars(Closer) /\ WF_logVars(Starter)
    /\ WF_logVars(Normaliser) /\ WF_logVars(Persister) /\ WF_logVars(Socket)

-----------------------------------------------------------------------------
Increasing(s) == \A i \in 1 .. Len(s) - 1 : s[i] < s[i + 1]

(* No line is stored or shown twice, and none before an earlier one,       *)
(* however the pushes and the subscriptions interleave: history_plus_stream *)
(* may drop a message that falls between its two halves (msg_store.rs:101), *)
(* it never repeats one.                                                   *)
LinesOnceInOrder == Increasing(logs) /\ Increasing(viewer.shown)

(* Unless a reader lagged, the lines sent between the persister's          *)
(* subscription and Finished are all in the log once the persister has     *)
(* ended: only what falls before its subscription, or after Finished (the  *)
(* forwarder still draining the pipe), can be missing.                     *)
SubscribedIsStored ==
    reader["persister"].phase = "ended" /\ ~lagged
        => owed \subseteq {logs[i] : i \in 1 .. Len(logs)}

(* Once the agent has ended, a browser that followed it, subscribed like   *)
(* the server's own tasks before Finished was sent, is told that the log   *)
(* is finished (push_finished, stream_normalized_logs), unless one of them *)
(* lagged: a task that loses Finished keeps the store, and with it the     *)
(* stream, open.                                                           *)
ViewerIsTold ==
    (/\ ~agentRuns /\ ~finished
     /\ \A r \in Reader : reader[r].phase = "live"
                           \/ (r = "normaliser" /\ script)) ~> (viewer.told \/ lagged)
=============================================================================
