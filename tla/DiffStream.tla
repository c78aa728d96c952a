------------------------------ MODULE DiffStream -----------------------------
(***************************************************************************)
(* The web socket that shows what an attempt has changed: stream_diff      *)
(* chooses between the diff of the merge commit and a live stream, the     *)
(* live stream reads the diffs once, hands them over, starts a filesystem  *)
(* watcher and turns every batch of events into patches.                   *)
(*                                                                         *)
(* A tree maps a file to its content or None.  A content is one unit of    *)
(* the byte budget, except Large, which is over MAX_INLINE_DIFF_BYTES and  *)
(* never shown inline.  The kinds of change, line counts and the order of  *)
(* paths are not told apart: an omitted diff keeps its contents here       *)
(* because its line counts are computed from them.  get_diffs is one step: *)
(* a file changed while it runs raises an event that is handled after it.  *)
(***************************************************************************)
EXTENDS Naturals, Sequences, FiniteSets, SequencesExt

CONSTANTS File,
          Content,       \* contents a file may have
          Large,         \* one that is over MAX_INLINE_DIFF_BYTES
          MaxBytes,      \* MAX_CUMULATIVE_DIFF_BYTES in units
          DiffCapacity,  \* DIFF_STREAM_CHANNEL_CAPACITY
          MaxChange      \* bound: changes made to the worktree

None == "none"

ASSUME DiffStreamAssumption == /\ IsFiniteSet(File) /\ None \notin File \cup Content
                               /\ Large \in Content
                               /\ DiffCapacity \in Nat \ {0}
                               /\ MaxBytes \in Nat /\ MaxChange \in Nat

VARIABLES
  attempt,     \* base tree, whether merged with nothing ahead, stats_only
  tree,        \* the files of the worktree
  ignores,     \* files the .gitignore of the worktree matches now
  stream,      \* where the socket's handler is
  outbox,      \* messages read and not yet in the channel
  diffChannel, \* the mpsc channel, or the finite stream of a merged attempt
  sentBytes,   \* cumulative
  fullSent,    \* paths whose diff was sent with its contents
  watcher,     \* the watcher task
  watchIgnores,\* the Gitignore it built when it started
  fsEvents,    \* events the debouncer collects: sets of paths
  batches,     \* batches in the watcher's channel
  client,      \* the browser's end of the socket
  shown,       \* path -> the entry the client shows
  changes,     \* changes made so far
  unseen       \* ghost: files whose last change reached no batch

dsVars == <<attempt, tree, ignores, stream, outbox, diffChannel, sentBytes, fullSent, watcher,
            watchIgnores, fsEvents, batches, client, shown, changes, unseen>>

Tree == [File -> Content \cup {None}]
NoEntry == [path |-> None, from |-> None, contents |-> <<None, None>>, omitted |-> FALSE]
NothingShown == [f \in File |-> NoEntry]

DsInit ==
  /\ attempt \in [base : Tree, merged : BOOLEAN, stats : BOOLEAN]
  /\ tree = attempt.base
  /\ ignores \in {{}} \cup {{f} : f \in File}
  /\ stream = "idle" /\ outbox = << >> /\ diffChannel = << >>
  /\ sentBytes = 0 /\ fullSent = {}
  /\ watcher = "off" /\ watchIgnores = {} /\ fsEvents = {} /\ batches = << >>
  /\ client = "open" /\ shown = NothingShown
  /\ changes = 0 /\ unseen = {}

-----------------------------------------------------------------------------
(* What git reports *)

(* git add -A into the temporary index: an ignored file is left out unless *)
(* the base tracks it.                                                     *)
Staged == [f \in File |-> IF f \in ignores /\ attempt.base[f] = None THEN None ELSE tree[f]]

(* Rename detection pairs a deleted file with an added one of the same     *)
(* content, within the paths asked for.                                    *)
Renames(old, new, changed) ==
  LET same == {r \in changed \X changed :
                 /\ new[r[1]] = None /\ old[r[2]] = None /\ old[r[1]] = new[r[2]]}
      matchings == {m \in SUBSET same : \A r, s \in m : r = s \/ (r[1] # s[1] /\ r[2] # s[2])}
  IN  CHOOSE m \in matchings : \A n \in matchings : Cardinality(n) <= Cardinality(m)

(* The diff at a path with its old side, contents dropped when a side is   *)
(* too large to be shown inline.                                           *)
FileDiff(path, from, old, new) ==
  LET sides == <<IF from = None THEN None ELSE old[from], new[path]>>
      large == Large \in {sides[1], sides[2]}
  IN  [path |-> path, from |-> from, omitted |-> large,
       contents |-> IF large THEN <<None, None>> ELSE sides]

get_diffs(old, new, paths) ==
  LET changed == {f \in paths : old[f] # new[f]}
      renames == Renames(old, new, changed)
      sources == {r[1] : r \in renames}
      targets == {r[2] : r \in renames}
  IN  {FileDiff(r[2], r[1], old, new) : r \in renames}
        \cup {FileDiff(f, IF old[f] = None THEN None ELSE f, old, new) :
                f \in changed \ (sources \cup targets)}

(* The merge commit against its parent: the base tree, as the branch was   *)
(* moved to the merge, against the empty tree.                             *)
convert_diff_to_file_diffs == get_diffs([f \in File |-> None], attempt.base, File)

-----------------------------------------------------------------------------
(* The byte budget *)

Bytes(d) == Cardinality({i \in 1..2 : d.contents[i] # None})

apply_stream_omit_policy(d, sent) ==
  IF attempt.stats THEN [diff |-> [d EXCEPT !.omitted = TRUE], sent |-> sent]
  ELSE IF Bytes(d) = 0 THEN [diff |-> d, sent |-> sent]
  ELSE IF sent + Bytes(d) > MaxBytes THEN [diff |-> [d EXCEPT !.omitted = TRUE], sent |-> sent]
  ELSE [diff |-> d, sent |-> sent + Bytes(d)]

(* The diffs one after the other, each charged to the budget before the    *)
(* next.                                                                   *)
Charged(diffs, sent) ==
  LET order == SetToSeq(diffs)
      total[i \in 0 .. Len(order)] ==
        IF i = 0 THEN sent ELSE apply_stream_omit_policy(order[i], total[i - 1]).sent
  IN  [diffs |-> {apply_stream_omit_policy(order[i], total[i - 1]).diff : i \in 1 .. Len(order)},
       sent |-> total[Len(order)]]

add_diff(d) == [op |-> "add", path |-> d.path, diff |-> d]
remove_diff(f) == [op |-> "remove", path |-> f, diff |-> NoEntry]
Control(op) == [op |-> op, path |-> None, diff |-> NoEntry]
AddAll(diffs) == SetToSeq({add_diff(d) : d \in diffs})
RemoveAll(paths) == SetToSeq({remove_diff(f) : f \in paths})
FullPaths(diffs) == {d.path : d \in {e \in diffs : ~e.omitted}}

-----------------------------------------------------------------------------
(* Opening the stream *)

(* A branch that is not ahead of its target has the merge base as head, so *)
(* its worktree is clean when it equals the base.                          *)
is_container_clean == tree = attempt.base

MayShowMerge == attempt.merged /\ is_container_clean

create_merged_diff_stream ==
  /\ stream = "idle" /\ client = "open" /\ MayShowMerge
  /\ LET c == Charged(convert_diff_to_file_diffs, 0)
     IN  diffChannel' = AddAll(c.diffs) \o <<Control("finished")>>
  /\ stream' = "merged"
  /\ UNCHANGED <<attempt, tree, ignores, outbox, sentBytes, fullSent, watcher, watchIgnores,
                 fsEvents, batches, client, shown, changes, unseen>>

(* The fall back when the merge commit is gone, and every other attempt:   *)
(* create reads the diffs against the base commit.                         *)
diff_stream_create ==
  /\ stream = "idle" /\ client = "open"
  /\ LET c == Charged(get_diffs(attempt.base, Staged, File), 0)
     IN  /\ outbox' = AddAll(c.diffs)
         /\ sentBytes' = c.sent
         /\ fullSent' = FullPaths(c.diffs)
  /\ stream' = "sending"
  /\ UNCHANGED <<attempt, tree, ignores, diffChannel, watcher, watchIgnores, fsEvents, batches,
                 client, shown, changes, unseen>>

(* A worktree or git error before the stream exists closes the socket.     *)
CreateFails ==
  /\ stream = "idle" /\ client = "open"
  /\ stream' = "dropped"
  /\ UNCHANGED <<attempt, tree, ignores, outbox, diffChannel, sentBytes, fullSent, watcher,
                 watchIgnores, fsEvents, batches, client, shown, changes, unseen>>

(* One send into the channel: by create before it returns the receiver, or *)
(* by the watcher task.  A full channel makes the sender wait.             *)
send_messages ==
  /\ outbox # << >> /\ stream \in {"sending", "live"}
  /\ Len(diffChannel) < DiffCapacity
  /\ diffChannel' = Append(diffChannel, Head(outbox))
  /\ outbox' = Tail(outbox)
  /\ UNCHANGED <<attempt, tree, ignores, stream, sentBytes, fullSent, watcher, watchIgnores,
                 fsEvents, batches, client, shown, changes, unseen>>

(* Every initial diff is sent: the watcher task is spawned and the stream  *)
(* returned.                                                               *)
ReturnStream ==
  /\ stream = "sending" /\ outbox = << >>
  /\ stream' = "live" /\ watcher' = "starting"
  /\ UNCHANGED <<attempt, tree, ignores, outbox, diffChannel, sentBytes, fullSent, watchIgnores,
                 fsEvents, batches, client, shown, changes, unseen>>

-----------------------------------------------------------------------------
(* The watcher task *)

build_gitignore_set == ignores

(* The ignore rules are read once, then the directory is watched.          *)
async_watcher ==
  /\ watcher = "starting"
  /\ watcher' = "on" /\ watchIgnores' = build_gitignore_set
  /\ UNCHANGED <<attempt, tree, ignores, stream, outbox, diffChannel, sentBytes, fullSent,
                 fsEvents, batches, client, shown, changes, unseen>>

(* No watcher, an error from it, or git failing on a batch: the error is   *)
(* sent and the task ends.                                                 *)
WatcherFails ==
  /\ watcher \in {"starting", "on"} /\ outbox = << >>
  /\ watcher' = "ended"
  /\ outbox' = <<Control("error")>>
  /\ UNCHANGED <<attempt, tree, ignores, stream, diffChannel, sentBytes, fullSent, watchIgnores,
                 fsEvents, batches, client, shown, changes, unseen>>

(* An event is forwarded when the ignore rules match none of its paths.    *)
debounced_should_forward(event) == event \cap watchIgnores = {}

extract_changed_paths(events) == UNION events

(* The debouncer's callback, 200 ms after the first event.                 *)
Debounce ==
  /\ watcher = "on" /\ fsEvents # {}
  /\ LET forwarded == {e \in fsEvents : debounced_should_forward(e)}
     IN  /\ batches' = IF forwarded = {} THEN batches
                                         ELSE Append(batches, extract_changed_paths(forwarded))
         /\ unseen' = (unseen \cup UNION fsEvents) \ UNION forwarded
  /\ fsEvents' = {}
  /\ UNCHANGED <<attempt, tree, ignores, stream, outbox, diffChannel, sentBytes, fullSent,
                 watcher, watchIgnores, client, shown, changes>>

Kept(diffs) == {d \in diffs : ~(d.omitted /\ d.path \in fullSent)}

(* Mutant: a path git reports nothing for keeps its entry.                 *)
KeepsReverted(diffs, paths) == AddAll(Kept(diffs))

(* The messages for the paths of a batch: what git reports now for these   *)
(* paths, but no update without contents for a path sent with them, and a  *)
(* removal for every path git reports nothing for.                         *)
process_file_changes(diffs, paths) ==
  AddAll(Kept(diffs)) \o RemoveAll(paths \ {d.path : d \in diffs})

handle_events ==
  /\ watcher = "on" /\ batches # << >> /\ outbox = << >>
  /\ LET paths == Head(batches)
         c == Charged(get_diffs(attempt.base, Staged, paths), sentBytes)
     IN  /\ outbox' = process_file_changes(c.diffs, paths)
         /\ sentBytes' = c.sent
         /\ fullSent' = fullSent \cup FullPaths(c.diffs)
  /\ batches' = Tail(batches)
  /\ UNCHANGED <<attempt, tree, ignores, stream, diffChannel, watcher, watchIgnores, fsEvents,
                 client, shown, changes, unseen>>

-----------------------------------------------------------------------------
(* The socket and the worktree *)

(* The handler's loop gives the client the next message; an error ends it. *)
handle_task_attempt_diff_ws ==
  /\ stream \in {"live", "merged"} /\ client = "open" /\ diffChannel # << >>
  /\ LET msg == Head(diffChannel)
     IN  /\ shown' = CASE msg.op = "add" -> [shown EXCEPT ![msg.path] = msg.diff]
                       [] msg.op = "remove" -> [shown EXCEPT ![msg.path] = NoEntry]
                       [] OTHER -> shown
         /\ client' = IF msg.op \in {"error", "finished"} THEN "left" ELSE client
  /\ diffChannel' = Tail(diffChannel)
  /\ UNCHANGED <<attempt, tree, ignores, stream, outbox, sentBytes, fullSent, watcher,
                 watchIgnores, fsEvents, batches, changes, unseen>>

(* The browser closes the socket, whatever the handler is doing.           *)
Leave ==
  /\ client = "open" /\ stream \in {"sending", "live", "merged"}
  /\ client' = "left"
  /\ UNCHANGED <<attempt, tree, ignores, stream, outbox, diffChannel, sentBytes, fullSent,
                 watcher, watchIgnores, fsEvents, batches, shown, changes, unseen>>

(* The loop ends; dropping the handle aborts the watcher task.             *)
Drop ==
  /\ stream \in {"live", "merged"} /\ client = "left"
  /\ stream' = "dropped"
  /\ watcher' = "off" /\ watchIgnores' = {}
  /\ outbox' = << >> /\ diffChannel' = << >> /\ fsEvents' = {} /\ batches' = << >>
  /\ UNCHANGED <<attempt, tree, ignores, sentBytes, fullSent, client, shown, changes, unseen>>

Reconnect ==
  /\ stream = "dropped"
  /\ stream' = "idle" /\ client' = "open" /\ shown' = NothingShown
  /\ sentBytes' = 0 /\ fullSent' = {} /\ unseen' = {}
  /\ UNCHANGED <<attempt, tree, ignores, outbox, diffChannel, watcher, watchIgnores, fsEvents,
                 batches, changes>>

(* A change raises one event with its paths once the directory is watched. *)
Changed(paths) ==
  /\ changes < MaxChange /\ changes' = changes + 1
  /\ IF watcher = "on" THEN fsEvents' = fsEvents \cup {paths} /\ UNCHANGED unseen
     ELSE /\ unseen' = IF stream \in {"sending", "live"} THEN unseen \cup paths ELSE unseen
          /\ UNCHANGED fsEvents
  /\ UNCHANGED <<attempt, stream, outbox, diffChannel, sentBytes, fullSent, watcher,
                 watchIgnores, batches, client, shown>>

WriteFile(f, c) ==
  /\ tree[f] # c
  /\ tree' = [tree EXCEPT ![f] = c]
  /\ UNCHANGED ignores
  /\ Changed({f})

Move(f, g) ==
  /\ f # g /\ tree[f] # None
  /\ tree' = [tree EXCEPT ![f] = None, ![g] = tree[f]]
  /\ UNCHANGED ignores
  /\ Changed({f, g})

(* The user edits .gitignore: no event names the files it matches.         *)
EditIgnore(f) ==
  /\ changes < MaxChange /\ changes' = changes + 1
  /\ ignores' = (ignores \cup {f}) \ (ignores \cap {f})
  /\ unseen' = IF stream \in {"sending", "live"} THEN unseen \cup {f} ELSE unseen
  /\ UNCHANGED <<attempt, tree, stream, outbox, diffChannel, sentBytes, fullSent, watcher,
                 watchIgnores, fsEvents, batches, client, shown>>

ServerStep ==
  \/ create_merged_diff_stream \/ diff_stream_create \/ CreateFails
  \/ send_messages \/ ReturnStream
  \/ async_watcher \/ WatcherFails \/ Debounce \/ handle_events
  \/ handle_task_attempt_diff_ws \/ Drop

DsNext ==
  \/ ServerStep \/ Leave \/ Reconnect
  \/ \E f \in File : \/ \E c \in Content \cup {None} : WriteFile(f, c)
                     \/ \E g \in File : Move(f, g)
                     \/ EditIgnore(f)

DsSpec == DsInit /\ [][DsNext]_dsVars /\ WF_dsVars(ServerStep)

-----------------------------------------------------------------------------
(* Properties *)

AtRest == /\ stream = "live" /\ watcher = "on" /\ client = "open"
          /\ fsEvents = {} /\ batches = << >> /\ outbox = << >> /\ diffChannel = << >>

(* The diff of f can be sent with its contents.                            *)
Fits(f) == /\ Large \notin {attempt.base[f], tree[f]}
           /\ attempt.stats \/ sentBytes + 2 <= MaxBytes

(* Once the stream is at rest, the client sees every file whose last       *)
(* change reached the watcher task as it is: no entry for a file equal to  *)
(* its base, an entry for every other file that exists, and in each entry  *)
(* the present content, unless the file is too large or the byte budget is *)
(* spent: a path once sent in full is then not sent again, and keeps its   *)
(* old contents, or no entry if it was removed meanwhile.  The batches of  *)
(* process_file_changes may split or repeat changes, and the tree may move *)
(* on while a batch is processed.                                          *)
DiffInStep ==
  AtRest => \A f \in File \ unseen :
              /\ Staged[f] = attempt.base[f] => shown[f] = NoEntry
              /\ Staged[f] \notin {attempt.base[f], None} /\ (Fits(f) \/ f \notin fullSent)
                   => shown[f] # NoEntry
              /\ shown[f] # NoEntry /\ Fits(f) => shown[f].contents[2] = Staged[f]

(* Opening the stream ends: create_live_diff_stream "Returns a stream",    *)
(* however many files the attempt has changed.                             *)
StreamIsReturned == stream = "sending" ~> stream # "sending"
=============================================================================
