----------------------------- MODULE CodexClient -----------------------------
(***************************************************************************)
(* The client side of the Codex app server protocol (executors/codex.rs,   *)
(* codex/client.rs, codex/jsonrpc.rs): JSON-RPC over the pipes of a child. *)
(*                                                                         *)
(* Three kinds of tasks share one peer.  The launch task sends four        *)
(* requests one after the other; the reader task takes lines from the      *)
(* server, resolves the requests they answer and, while it waits for the   *)
(* user to decide on an approval, reads nothing else; a feedback task      *)
(* tells Codex why the user refused.  When the reader leaves its loop it   *)
(* signals the exit of the agent and then ends every pending request.      *)
(***************************************************************************)
EXTENDS Naturals, Sequences, FiniteSets

CONSTANTS
    MaxAsk          \* bound: approvals the server asks for

ASSUME CodexClientBounds == MaxAsk \in Nat

VARIABLES
    launch,         \* the step the launch task is at, and the request it awaits
    nextId,         \* id_counter
    pending,        \* ids with a sender in the pending map
    waiter,         \* what became of each request
    conversation,   \* conversation_id is set
    feedback,       \* how many refusals wait in pending_feedback
    reading,        \* the reader task
    signalled,      \* the exit signal was sent
    codex,          \* the app server: it runs, its turn, how often it asked, the
                    \* messages that have started a turn
    inbox,          \* requests the server has not answered
    wire            \* lines from the server that were not read

cxVars == <<launch, nextId, pending, waiter, conversation, feedback, reading,
            signalled, codex, inbox, wire>>

Steps == <<"initialize", "conversation", "listen", "message">>
Ids == 1 .. (Len(Steps) + MaxAsk)
Ended == {"result", "error", "shutdown", "broken"}

CxInit ==
    /\ launch = [step |-> 1, id |-> 0]
    /\ nextId = 1
    /\ pending = {}
    /\ waiter = [i \in Ids |-> "none"]
    /\ conversation = FALSE
    /\ feedback = 0
    /\ reading = "lines"
    /\ signalled = FALSE
    /\ codex = [up |-> TRUE, turn |-> "none", asked |-> 0, heard |-> {}]
    /\ inbox = {}
    /\ wire = <<>>

-----------------------------------------------------------------------------
(* JsonRpcPeer *)

register(i) ==
    /\ pending' = pending \cup {i}
    /\ waiter' = [waiter EXCEPT ![i] = "registered"]

(* A request is registered before it is sent, so that its answer finds it. *)
RegisterFeedback(i) ==
    /\ waiter[i] = "spawned"
    /\ register(i)
    /\ UNCHANGED <<launch, nextId, conversation, feedback, reading, signalled, codex,
                   inbox, wire>>

(* The line reaches the server, or the pipe is broken (the entry stays in   *)
(* the map).  A request that was told Shutdown before is sent all the same. *)
send_raw(i) ==
    /\ waiter[i] \in {"registered", "doomed"}
    /\ waiter' = [waiter EXCEPT ![i] = IF ~codex.up THEN "broken"
                                       ELSE IF @ = "doomed" THEN "shutdown" ELSE "sent"]
    /\ inbox' = IF codex.up THEN inbox \cup {i} ELSE inbox
    /\ UNCHANGED <<launch, nextId, pending, conversation, feedback, reading, signalled,
                   codex, wire>>

resolve(i, how) ==
    IF i \notin pending THEN UNCHANGED <<pending, waiter>>
    ELSE /\ pending' = pending \ {i}
         /\ waiter' = [waiter EXCEPT ![i] = how]

-----------------------------------------------------------------------------
(* The launch task: initialize, newConversation or resumeConversation,     *)
(* addConversationListener, sendUserMessage.                               *)

Failed == Len(Steps) + 2

LaunchRequest ==
    /\ launch.step <= Len(Steps) /\ launch.id = 0
    /\ launch' = [launch EXCEPT !.id = nextId]
    /\ nextId' = nextId + 1
    /\ register(nextId)
    /\ UNCHANGED <<conversation, feedback, reading, signalled, codex, inbox, wire>>

register_session(step) == step = 2

(* The answer to the step's request is there.  The first is acknowledged   *)
(* with a notification; the second brings the conversation, whose id is    *)
(* kept (no feedback can be queued before that).                           *)
LaunchStep ==
    /\ launch.id # 0 /\ waiter[launch.id] = "result"
    /\ launch.step = 1 => codex.up
    /\ launch' = [step |-> launch.step + 1, id |-> 0]
    /\ conversation' = (conversation \/ register_session(launch.step))
    /\ UNCHANGED <<nextId, pending, waiter, feedback, reading, signalled, codex, inbox,
                   wire>>

(* A request failed, or the session to resume cannot be forked: the error  *)
(* is logged and the exit signalled, unless it is a broken pipe, which the *)
(* reader sees as well.                                                    *)
LaunchFails ==
    /\ \/ launch.id # 0 /\ waiter[launch.id] \in {"error", "shutdown"} /\ signalled' = TRUE
       \/ launch.id # 0 /\ waiter[launch.id] = "broken" /\ UNCHANGED signalled
       \/ /\ launch.step = 1 /\ launch.id # 0 /\ waiter[launch.id] = "result"
          /\ ~codex.up
          /\ UNCHANGED signalled
       \/ launch = [step |-> 2, id |-> 0] /\ signalled' = TRUE
    /\ launch' = [step |-> Failed, id |-> 0]
    /\ UNCHANGED <<nextId, pending, waiter, conversation, feedback, reading, codex,
                   inbox, wire>>

-----------------------------------------------------------------------------
(* The reader task *)

Reads(kind) == reading = "lines" /\ wire # <<>> /\ Head(wire).kind = kind

ReadAnswer ==
    /\ Reads("answer")
    /\ resolve(Head(wire).id, Head(wire).how)
    /\ wire' = Tail(wire)
    /\ UNCHANGED <<launch, nextId, conversation, feedback, reading, signalled, codex,
                   inbox>>

(* An approval request: the loop waits for the approval service. *)
on_request ==
    /\ Reads("approval")
    /\ reading' = "asking"
    /\ wire' = Tail(wire)
    /\ UNCHANGED <<launch, nextId, pending, waiter, conversation, feedback, signalled,
                   codex, inbox>>

(* review_decision: what each outcome tells the server; a refusal with a   *)
(* reason aborts the turn.                                                 *)
review_decision(outcome) ==
    CASE outcome = "approved" -> "Approved"
      [] outcome = "reason" -> "Abort"
      [] OTHER -> "Denied"

(* The approval service answers, times out or fails; the decision is sent, *)
(* and the reason is queued.  If the pipe or the log is broken the loop    *)
(* ends.  (A service that fails counts as a refusal with a reason.)        *)
handle_server_request ==
    /\ reading = "asking"
    /\ \E outcome \in {"approved", "denied", "reason", "timedout"} :
          LET aborts == review_decision(outcome) = "Abort"
          IN  \/ /\ codex.up
                 /\ reading' = "lines"
                 /\ codex' = [codex EXCEPT !.turn = IF aborts THEN "aborting" ELSE "running"]
                 /\ feedback' = IF aborts THEN feedback + 1 ELSE feedback
              \/ /\ reading' = "ended"
                 /\ UNCHANGED <<codex, feedback>>
    /\ UNCHANGED <<launch, nextId, pending, waiter, conversation, signalled, inbox,
                   wire>>

(* turn_aborted: every queued reason becomes a message to the conversation, *)
(* each sent by a task of its own; without a conversation they are dropped. *)
flush_pending_feedback ==
    /\ Reads("aborted")
    /\ wire' = Tail(wire)
    /\ feedback' = 0
    /\ \/ /\ conversation
          /\ nextId' = nextId + feedback
          /\ waiter' = [i \in Ids |-> IF i \in nextId .. nextId + feedback - 1
                                      THEN "spawned" ELSE waiter[i]]
       \/ ~conversation /\ UNCHANGED <<nextId, waiter>>
    /\ UNCHANGED <<launch, pending, conversation, reading, signalled, codex, inbox>>

(* Mutant: only the end of the task ends the loop. *)
ReadsPastEof ==
    /\ reading = "lines"
    /\ wire # <<>> /\ Head(wire).kind = "complete"
    /\ reading' = "ended"
    /\ UNCHANGED <<launch, nextId, pending, waiter, conversation, feedback, signalled,
                   codex, inbox, wire>>

(* The loop ends: the task is complete, the pipe is at its end, or a line  *)
(* cannot be logged.                                                       *)
LeaveLoop ==
    /\ reading = "lines"
    /\ wire # <<>> \/ ~codex.up
    /\ reading' = "ended"
    /\ UNCHANGED <<launch, nextId, pending, waiter, conversation, feedback, signalled,
                   codex, inbox, wire>>

send_exit_signal ==
    /\ reading = "ended"
    /\ reading' = "signalled"
    /\ signalled' = TRUE
    /\ UNCHANGED <<launch, nextId, pending, waiter, conversation, feedback, codex,
                   inbox, wire>>

(* Mutant: the map is dropped with the requests in it. *)
ForgetPending ==
    /\ reading = "signalled"
    /\ reading' = "down"
    /\ pending' = {}
    /\ UNCHANGED <<launch, nextId, waiter, conversation, feedback, signalled, codex,
                   inbox, wire>>

(* Every pending request is told Shutdown. *)
shutdown ==
    /\ reading = "signalled"
    /\ reading' = "down"
    /\ waiter' = [i \in Ids |->
          CASE i \in pending /\ waiter[i] = "sent" -> "shutdown"
            [] i \in pending /\ waiter[i] = "registered" -> "doomed"
            [] OTHER -> waiter[i]]
    /\ pending' = {}
    /\ UNCHANGED <<launch, nextId, conversation, feedback, signalled, codex, inbox,
                   wire>>

-----------------------------------------------------------------------------
(* The app server, as far as the client depends on it *)

Line_(k, i, how) == [kind |-> k, id |-> i, how |-> how]

(* It answers in any order; a user message starts a turn. *)
CodexAnswers ==
    /\ codex.up
    /\ \E i \in inbox, how \in {"result", "error"} :
         /\ wire' = Append(wire, Line_("answer", i, how))
         /\ inbox' = inbox \ {i}
    /\ UNCHANGED <<launch, nextId, pending, waiter, conversation, feedback, reading,
                   signalled, codex>>

(* A turn runs as soon as the message is in, before it is answered. *)
CodexTurnStarts ==
    /\ codex.up /\ codex.turn = "none"
    /\ \E i \in inbox \ codex.heard :
         /\ i >= Len(Steps)
         /\ codex' = [codex EXCEPT !.turn = "running", !.heard = @ \cup {i}]
    /\ UNCHANGED <<launch, nextId, pending, waiter, conversation, feedback, reading,
                   signalled, inbox, wire>>

CodexAsks ==
    /\ codex.up /\ codex.turn = "running" /\ codex.asked < MaxAsk
    /\ codex' = [codex EXCEPT !.turn = "asking", !.asked = @ + 1]
    /\ wire' = Append(wire, Line_("approval", 0, "none"))
    /\ UNCHANGED <<launch, nextId, pending, waiter, conversation, feedback, reading,
                   signalled, inbox>>

CodexEndsTurn ==
    /\ codex.up /\ codex.turn \in {"running", "aborting"}
    /\ codex' = [codex EXCEPT !.turn = "none"]
    /\ wire' = Append(wire, Line_(IF codex.turn = "running" THEN "complete" ELSE "aborted",
                                  0, "none"))
    /\ UNCHANGED <<launch, nextId, pending, waiter, conversation, feedback, reading,
                   signalled, inbox>>

(* It exits, or the exit monitor kills it for the signal. *)
CodexExits ==
    /\ codex.up
    /\ codex' = [codex EXCEPT !.up = FALSE]
    /\ UNCHANGED <<launch, nextId, pending, waiter, conversation, feedback, reading,
                   signalled, inbox, wire>>

-----------------------------------------------------------------------------
(* What each task of the client does. *)
Launcher == LaunchRequest \/ LaunchStep \/ LaunchFails
Sender(i) == RegisterFeedback(i) \/ send_raw(i)
ReaderStep ==
    \/ ReadAnswer \/ on_request \/ handle_server_request \/ flush_pending_feedback
    \/ LeaveLoop \/ send_exit_signal \/ shutdown

CxNext ==
    \/ Launcher
    \/ \E i \in Ids : Sender(i)
    \/ ReaderStep
    \/ CodexAnswers \/ CodexTurnStarts \/ CodexAsks \/ CodexEndsTurn \/ CodexExits

CxSpec == CxInit /\ [][CxNext]_cxVars

(* The tasks of the client run on, and an approval is decided or times     *)
(* out.  The server owes nothing, but is killed for the exit signal.       *)
CxFairness ==
    /\ WF_cxVars(Launcher)
    /\ \A i \in Ids : WF_cxVars(Sender(i))
    /\ WF_cxVars(ReaderStep)
    /\ WF_cxVars(signalled /\ CodexExits)

-----------------------------------------------------------------------------
(* Once the server is gone before the reader has shut the peer down, every *)
(* task that asked it something is told: the answer that still came, an    *)
(* error or Shutdown.  (A request registered after shutdown, while the     *)
(* server still takes lines, waits for ever: jsonrpc.rs, register.)        *)
CodexRequestsEnd ==
    (~codex.up /\ reading # "down") ~>
        (\A i \in Ids : waiter[i] \in {"none", "spawned"} \cup Ended)

(* Once the server is gone, however it went and whatever the client was    *)
(* waiting for, the exit of the agent is signalled.                        *)
CodexEndIsSignalled == ~codex.up ~> signalled
=============================================================================
