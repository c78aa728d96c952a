--------------------------- MODULE TaskBoardProofs ---------------------------
(***************************************************************************)
(* Proofs about TaskBoard for every set of tasks, every capacity of the    *)
(* channel and any number of writes.                                       *)
(***************************************************************************)
EXTENDS TaskBoard, SequenceTheorems, TLAPS

Cell == Row \cup {NoTask}
Op == {"add", "replace", "remove", "entry"}
PatchOf == [op : Op, task : Task, row : Cell]
HookOf == [op : {"add", "replace", "entry"}, task : Task, stage : {"started", "read"}, row : Cell]
Following == socket \in {"snapshot", "subscribed", "open"}

TbTypeOK ==
  /\ tasks \in [Task -> Cell] /\ edits \in [Task -> Cell]
  /\ snapshot \in [Task -> Cell] /\ board \in [Task -> Cell]
  /\ writer = NoWrite \/ writer \in [task : Task, row : Cell]
  /\ registered \subseteq Task /\ registering \subseteq Task /\ cache \subseteq Task
  /\ made \subseteq Task /\ raced \subseteq Task /\ plain \subseteq Task
  /\ writes \in Nat
  /\ DOMAIN hooks \subseteq 1 .. writes
  /\ hooks \in [DOMAIN hooks -> HookOf]
  /\ socket \in {"closed", "cached", "snapshot", "subscribed", "open"}
  /\ channel \in Seq(PatchOf) /\ Len(channel) <= Capacity

(* The row a task has once the write under way is committed. *)
Final(t) == IF writer.task = t THEN writer.row ELSE tasks[t]

(* Every copy of a row of t that some handler, hook or socket holds. *)
RowsOf(t) ==
  {tasks[t], Final(t), edits[t], snapshot[t], board[t]}
    \cup {hooks[n].row : n \in {k \in DOMAIN hooks : hooks[k].task = t}}
    \cup {channel[i].row : i \in {k \in 1 .. Len(channel) : channel[k].task = t}}

(* A new task has left no trace yet. *)
NewIsUnknown ==
  \A t \in Task \ made :
    /\ \A r \in RowsOf(t) : r = NoTask
    /\ ~InFlight(t)
    /\ \A i \in 1 .. Len(channel) : channel[i].task # t
    /\ t \notin registering \cup registered \cup cache \cup plain

(* A removal carries no row. *)
PatchHasRow ==
  \A i \in 1 .. Len(channel) : channel[i].op = "remove" => channel[i].row = NoTask

(* Until an agent's task is registered, all its rows say so; once it is, it is
   not on the board. *)
AgentsAreKnown ==
  /\ registering \cap registered = {}
  /\ \A t \in registering \ plain : \A r \in RowsOf(t) : r.status \in {"none", "Agent"}
  /\ \A t \in registered \ plain : board[t] = NoTask
  /\ \A t \in Task : board[t].status # "Agent"

-----------------------------------------------------------------------------
(* What the board will show when all is quiet: the patches c that are on their
   way, and what the client starts from. *)
NoneOf(c, t) == \A i \in 1 .. Len(c) : c[i].task # t
IsLast(c, t, i) == c[i].task = t /\ \A j \in 1 .. Len(c) : i < j => c[j].task # t

(* A replacement at i + 1 finds an entry to replace. *)
Present(c, t, shown, i) ==
  shown # NoTask \/ \E j \in 1 .. Len(c) : j <= i /\ c[j].task = t /\ c[j].op = "add"

(* The patches leave no entry of t, bring rows that will all be applied, leave
   the row r. *)
LeaveNone(c, t, shown) ==
  /\ NoneOf(c, t) => shown = NoTask
  /\ \A i \in 1 .. Len(c) : IsLast(c, t, i) => c[i].op = "remove"
Apply(c, t, shown) ==
  \A i \in 1 .. Len(c) : c[i].task = t =>
    /\ c[i].op \in {"add", "replace"} /\ c[i].row # NoTask
    /\ c[i].op = "replace" => Present(c, t, shown, i - 1)
Leave(c, t, shown, r) ==
  /\ NoneOf(c, t) => shown = r
  /\ \A i \in 1 .. Len(c) : IsLast(c, t, i) => c[i].row = r

Shown(t) == IF socket = "open" THEN board[t] ELSE snapshot[t]

(* A task with a row that is nobody's agent. *)
Ordinary(t) == t \notin registered \cup plain /\ Final(t) # NoTask /\ Final(t).status # "Agent"

(* All rows of an ordinary task are those of one, and no cache holds it. *)
OrdinaryIsClear ==
  /\ \A t \in cache : t \in registered \/ Final(t) = NoTask
  /\ \A t \in Task : Ordinary(t) => \A r \in RowsOf(t) : r.status # "Agent"

(* The hook of a task that met no race: the only one, and it has read, or will
   read, the row that stays. *)
HookIsLast ==
  \A t \in Task \ raced :
    /\ \A n, m \in DOMAIN hooks : hooks[n].task = t /\ hooks[m].task = t => n = m
    /\ \A n \in DOMAIN hooks : hooks[n].task = t =>
         /\ hooks[n].op \in {"add", "replace"}
         /\ Final(t) # NoTask
         /\ hooks[n].stage = "read" => hooks[n].row = tasks[t] /\ writer.task # t
         /\ hooks[n].op = "replace" => tasks[t] # NoTask
    /\ writer.task = t /\ writer.row # NoTask => InFlight(t)

(* What the client has and what is on its way to it lead to the row that stays. *)
ClientFollows ==
  Following => \A t \in Task \ raced :
    /\ Final(t) = NoTask => LeaveNone(channel, t, Shown(t))
    /\ Ordinary(t) =>
         /\ Apply(channel, t, Shown(t))
         /\ \A n \in DOMAIN hooks : hooks[n].task = t /\ hooks[n].op = "replace"
                                       => Present(channel, t, Shown(t), Len(channel))
         /\ ~InFlight(t) => Leave(channel, t, Shown(t), Final(t))

NobodyListens == socket \in {"closed", "cached", "snapshot"} => channel = << >>

(* The inductive invariant. *)
BoardInv ==
  /\ TbTypeOK /\ NewIsUnknown /\ PatchHasRow /\ AgentsAreKnown
  /\ NobodyListens /\ OrdinaryIsClear /\ HookIsLast /\ ClientFollows

-----------------------------------------------------------------------------
(* Rows. *)
LEMMA Cells ==
  /\ NoTask \in Cell /\ NoTask.status = "none" /\ Row \subseteq Cell
  /\ \A r \in Row : r.status \in Status /\ r # NoTask
  /\ \A r \in Cell : r # NoTask => r \in Row
  /\ \A s \in Status : NewRow(s) \in Row /\ NewRow(s).status = s
  /\ \A r \in Row, s \in Status : [r EXCEPT !.status = s] \in Row
                                  /\ [r EXCEPT !.status = s].status = s
  /\ \A r \in Row : [r EXCEPT !.live = ~@] \in Row /\ [r EXCEPT !.live = ~@].status = r.status
<1>1. NoTask \in Cell /\ Row \subseteq Cell /\ \A r \in Cell : r # NoTask => r \in Row
    BY DEF Cell
<1>2. NoTask.status = "none"
    BY DEF NoTask
<1>3. "none" \notin Status
    BY DEF Status
<1>4. \A r \in Row : r.status \in Status
    BY DEF Row
<1>5. \A r \in Row : r # NoTask
    BY <1>2, <1>3, <1>4
<1>6. \A s \in Status : NewRow(s) \in Row /\ NewRow(s).status = s
    BY DEF NewRow, Row
<1>7. \A r \in Row, s \in Status : [r EXCEPT !.status = s] \in Row
                                   /\ [r EXCEPT !.status = s].status = s
    BY DEF Row
<1>8. ASSUME NEW r \in Row
      PROVE  [r EXCEPT !.live = ~@] \in Row /\ [r EXCEPT !.live = ~@].status = r.status
  <2>. DEFINE b == ~ r.live
  <2>1. b \in BOOLEAN
    OBVIOUS
  <2>2. [r EXCEPT !.live = ~@] = [r EXCEPT !.live = b]
    OBVIOUS
  <2>. HIDE DEF b
  <2>3. [r EXCEPT !.live = b] \in Row /\ [r EXCEPT !.live = b].status = r.status
    BY <2>1 DEF Row
  <2>. QED  BY <2>2, <2>3
<1>. QED
    BY <1>1, <1>2, <1>4, <1>5, <1>6, <1>7, <1>8

-----------------------------------------------------------------------------
(* What a patch that is pushed, dropped or sent does to what is on its way. *)

LEMMA EmptyLeads ==
  ASSUME NEW t, NEW r
  PROVE  /\ Apply(<< >>, t, r) /\ Leave(<< >>, t, r, r) /\ LeaveNone(<< >>, t, NoTask)
         /\ NoneOf(<< >>, t)
<1>1. 1 .. Len(<< >>) = {}
    OBVIOUS
<1>. QED
    BY <1>1 DEF Apply, Leave, LeaveNone, NoneOf

LEMMA AppendIs ==
  ASSUME NEW c \in Seq(PatchOf), NEW p \in PatchOf
  PROVE  /\ Append(c, p) \in Seq(PatchOf) /\ Len(Append(c, p)) = Len(c) + 1 /\ Len(c) \in Nat
         /\ \A i \in 1 .. Len(c) : Append(c, p)[i] = c[i]
         /\ Append(c, p)[Len(c) + 1] = p
         /\ \A i \in 1 .. Len(c) + 1 : i = Len(c) + 1 \/ i \in 1 .. Len(c)
         /\ \A i \in 1 .. Len(c) : i \in 1 .. Len(c) + 1 /\ i < Len(c) + 1 /\ i \in Nat
         /\ Len(c) + 1 \in 1 .. Len(c) + 1
<1>1. Len(c) \in Nat /\ Append(c, p) \in Seq(PatchOf) /\ Len(Append(c, p)) = Len(c) + 1
    OBVIOUS
<1>2. \A i \in 1 .. Len(c) : Append(c, p)[i] = c[i]
    OBVIOUS
<1>3. Append(c, p)[Len(c) + 1] = p
    OBVIOUS
<1>. QED
    BY <1>1, <1>2, <1>3

LEMMA TailIs ==
  ASSUME NEW c \in Seq(PatchOf), c # << >>
  PROVE  /\ Tail(c) \in Seq(PatchOf) /\ Len(Tail(c)) = Len(c) - 1 /\ Len(c) \in Nat /\ Len(c) > 0
         /\ Head(c) = c[1] /\ Head(c) \in PatchOf /\ 1 \in 1 .. Len(c)
         /\ \A i \in 1 .. Len(c) - 1 : Tail(c)[i] = c[i + 1] /\ i + 1 \in 1 .. Len(c) /\ i \in Nat
<1>1. Tail(c) \in Seq(PatchOf) /\ Len(Tail(c)) = Len(c) - 1 /\ Len(c) \in Nat /\ Len(c) > 0
    OBVIOUS
<1>2. Head(c) = c[1] /\ Head(c) \in PatchOf
    OBVIOUS
<1>3. \A i \in 1 .. Len(c) - 1 : Tail(c)[i] = c[i + 1]
    OBVIOUS
<1>. QED
    BY <1>1, <1>2, <1>3

(* A patch of another task. *)
LEMMA AppendOther ==
  ASSUME NEW c \in Seq(PatchOf), NEW p \in PatchOf, NEW t, p.task # t, NEW s, NEW r
  PROVE  LET d == Append(c, p)
         IN  /\ NoneOf(d, t) => NoneOf(c, t)
             /\ NoneOf(c, t) => NoneOf(d, t)
             /\ LeaveNone(c, t, s) => LeaveNone(d, t, s)
             /\ Apply(c, t, s) => Apply(d, t, s)
             /\ Leave(c, t, s, r) => Leave(d, t, s, r)
             /\ Present(c, t, s, Len(c)) => Present(d, t, s, Len(d))
<1>. DEFINE d == Append(c, p)
<1>0. /\ Len(d) = Len(c) + 1 /\ Len(c) \in Nat
      /\ \A i \in 1 .. Len(c) : d[i] = c[i]
      /\ d[Len(c) + 1] = p
      /\ \A i \in 1 .. Len(d) : i = Len(c) + 1 \/ i \in 1 .. Len(c)
      /\ \A i \in 1 .. Len(c) : i \in 1 .. Len(d) /\ i < Len(d) /\ i \in Nat
    BY AppendIs
<1>. HIDE DEF d
<1>1. (NoneOf(d, t) => NoneOf(c, t)) /\ (NoneOf(c, t) => NoneOf(d, t))
    BY <1>0 DEF NoneOf
<1>2. \A i \in 1 .. Len(d) : d[i].task = t => i \in 1 .. Len(c) /\ d[i] = c[i]
    BY <1>0
<1>3. \A i \in 1 .. Len(d) : IsLast(d, t, i) => i \in 1 .. Len(c) /\ IsLast(c, t, i) /\ d[i] = c[i]
    BY <1>0, <1>2 DEF IsLast
<1>4. LeaveNone(c, t, s) => LeaveNone(d, t, s)
    BY <1>1, <1>3 DEF LeaveNone
<1>5. Leave(c, t, s, r) => Leave(d, t, s, r)
    BY <1>1, <1>3 DEF Leave
<1>6. \A k : Present(c, t, s, k) => Present(d, t, s, k)
    BY <1>0 DEF Present
<1>7. Apply(c, t, s) => Apply(d, t, s)
    BY <1>2, <1>6 DEF Apply
<1>8. Present(c, t, s, Len(c)) => Present(d, t, s, Len(d))
  <2>1. \A j \in 1 .. Len(c) : j <= Len(d)
    BY <1>0
  <2>. QED  BY <1>0, <2>1 DEF Present
<1>. QED
    BY <1>1, <1>4, <1>5, <1>7, <1>8 DEF d

(* A patch of the task itself. *)
LEMMA AppendOwn ==
  ASSUME NEW c \in Seq(PatchOf), NEW p \in PatchOf, NEW t, p.task = t, NEW s
  PROVE  LET d == Append(c, p)
         IN  /\ p.op = "remove" => LeaveNone(d, t, s)
             /\ Leave(d, t, s, p.row)
             /\ /\ Apply(c, t, s) /\ p.op \in {"add", "replace"} /\ p.row # NoTask
                /\ p.op = "replace" => Present(c, t, s, Len(c))
                => Apply(d, t, s)
<1>. DEFINE d == Append(c, p)
<1>0. /\ Len(d) = Len(c) + 1 /\ Len(c) \in Nat
      /\ \A i \in 1 .. Len(c) : d[i] = c[i]
      /\ d[Len(c) + 1] = p
      /\ \A i \in 1 .. Len(d) : i = Len(c) + 1 \/ i \in 1 .. Len(c)
      /\ \A i \in 1 .. Len(c) : i \in 1 .. Len(d) /\ i < Len(d) /\ i \in Nat
      /\ Len(d) \in 1 .. Len(d)
    BY AppendIs
<1>. HIDE DEF d
<1>1. ~NoneOf(d, t)
    BY <1>0 DEF NoneOf
<1>2. \A i \in 1 .. Len(d) : IsLast(d, t, i) => i = Len(d)
    BY <1>0 DEF IsLast
<1>3. (p.op = "remove" => LeaveNone(d, t, s)) /\ Leave(d, t, s, p.row)
    BY <1>0, <1>1, <1>2 DEF LeaveNone, Leave
<1>4. \A k : Present(c, t, s, k) => Present(d, t, s, k)
    BY <1>0 DEF Present
<1>5. ASSUME Apply(c, t, s), p.op \in {"add", "replace"}, p.row # NoTask,
             p.op = "replace" => Present(c, t, s, Len(c))
      PROVE  Apply(d, t, s)
  <2>. SUFFICES ASSUME NEW i \in 1 .. Len(d), d[i].task = t
                PROVE  /\ d[i].op \in {"add", "replace"} /\ d[i].row # NoTask
                       /\ d[i].op = "replace" => Present(d, t, s, i - 1)
    BY DEF Apply
  <2>1. CASE i = Len(c) + 1
    <3>1. d[i] = p /\ i - 1 = Len(c)
      BY <1>0, <2>1
    <3>. QED  BY <1>4, <1>5, <3>1
  <2>2. CASE i \in 1 .. Len(c)
    BY <1>0, <1>4, <1>5, <2>2 DEF Apply
  <2>. QED  BY <1>0, <2>1, <2>2
<1>. QED
    BY <1>3, <1>5 DEF d

(* The oldest patch, of another task, is dropped or sent. *)
LEMMA TailOther ==
  ASSUME NEW c \in Seq(PatchOf), c # << >>, NEW t, Head(c).task # t, NEW s, NEW r
  PROVE  LET d == Tail(c)
         IN  /\ NoneOf(d, t) => NoneOf(c, t)
             /\ LeaveNone(c, t, s) => LeaveNone(d, t, s)
             /\ Apply(c, t, s) => Apply(d, t, s)
             /\ Leave(c, t, s, r) => Leave(d, t, s, r)
             /\ Present(c, t, s, Len(c)) => Present(d, t, s, Len(d))
<1>. DEFINE d == Tail(c)
<1>0. /\ Len(d) = Len(c) - 1 /\ Len(c) \in Nat /\ Len(c) > 0
      /\ Head(c) = c[1] /\ 1 \in 1 .. Len(c)
      /\ \A i \in 1 .. Len(d) : d[i] = c[i + 1] /\ i + 1 \in 1 .. Len(c) /\ i \in Nat
    BY TailIs
<1>. HIDE DEF d
<1>1. \A k \in 1 .. Len(c) : k # 1 => k - 1 \in 1 .. Len(d) /\ d[k - 1] = c[k] /\ k \in Nat
  <2>. SUFFICES ASSUME NEW k \in 1 .. Len(c), k # 1
                PROVE  k - 1 \in 1 .. Len(d) /\ d[k - 1] = c[k] /\ k \in Nat
    OBVIOUS
  <2>1. k - 1 \in 1 .. Len(d) /\ (k - 1) + 1 = k
    BY <1>0
  <2>. QED  BY <1>0, <2>1
<1>2. NoneOf(d, t) => NoneOf(c, t)
    BY <1>0, <1>1 DEF NoneOf
<1>3. \A i \in 1 .. Len(d) : IsLast(d, t, i) => IsLast(c, t, i + 1)
  <2>. SUFFICES ASSUME NEW i \in 1 .. Len(d), IsLast(d, t, i), NEW j \in 1 .. Len(c), i + 1 < j
                PROVE  c[i + 1].task = t /\ c[j].task # t
    BY <1>0 DEF IsLast
  <2>1. j # 1 /\ j - 1 \in 1 .. Len(d) /\ i < j - 1
    BY <1>0, <1>1
  <2>. QED  BY <1>0, <1>1, <2>1 DEF IsLast
<1>4. LeaveNone(c, t, s) => LeaveNone(d, t, s)
    BY <1>0, <1>2, <1>3 DEF LeaveNone
<1>5. Leave(c, t, s, r) => Leave(d, t, s, r)
    BY <1>0, <1>2, <1>3 DEF Leave
<1>6. \A k \in Nat : Present(c, t, s, k) => Present(d, t, s, k - 1)
  <2>. SUFFICES ASSUME NEW k \in Nat, NEW j \in 1 .. Len(c), j <= k, c[j].task = t, c[j].op = "add"
                PROVE  Present(d, t, s, k - 1)
    BY DEF Present
  <2>1. j # 1
    BY <1>0
  <2>2. j - 1 \in 1 .. Len(d) /\ d[j - 1] = c[j] /\ j - 1 <= k - 1
    BY <1>0, <1>1, <2>1
  <2>. QED  BY <2>2 DEF Present
<1>7. Apply(c, t, s) => Apply(d, t, s)
  <2>. SUFFICES ASSUME Apply(c, t, s), NEW i \in 1 .. Len(d), d[i].task = t
                PROVE  /\ d[i].op \in {"add", "replace"} /\ d[i].row # NoTask
                       /\ d[i].op = "replace" => Present(d, t, s, i - 1)
    BY DEF Apply
  <2>1. /\ d[i].op \in {"add", "replace"} /\ d[i].row # NoTask
        /\ d[i].op = "replace" => Present(c, t, s, (i + 1) - 1)
    BY <1>0 DEF Apply
  <2>2. (i + 1) - 1 = i /\ i \in Nat
    BY <1>0
  <2>. QED  BY <1>6, <2>1, <2>2
<1>8. Present(c, t, s, Len(c)) => Present(d, t, s, Len(d))
    BY <1>0, <1>6
<1>. QED
    BY <1>2, <1>4, <1>5, <1>7, <1>8 DEF d

(* The oldest patch is sent and applied: the client has its row. *)
LEMMA TailOwn ==
  ASSUME NEW c \in Seq(PatchOf), c # << >>, NEW t, Head(c).task = t, NEW s, NEW r
  PROVE  LET d == Tail(c)
             new == Head(c).row
         IN  /\ \A z : LeaveNone(c, t, s) /\ (Head(c).op = "remove" => z = NoTask)
                          => LeaveNone(d, t, z)
             /\ Apply(c, t, s) => /\ Apply(d, t, new) /\ new # NoTask
                                  /\ Present(d, t, new, Len(d))
                                  /\ Head(c).op \in {"add", "replace"}
                                  /\ Head(c).op = "replace" => s # NoTask
             /\ Leave(c, t, s, r) => Leave(d, t, new, r)
<1>. DEFINE d == Tail(c)
            new == Head(c).row
<1>0. /\ Len(d) = Len(c) - 1 /\ Len(c) \in Nat /\ Len(c) > 0
      /\ Head(c) = c[1] /\ 1 \in 1 .. Len(c)
      /\ \A i \in 1 .. Len(d) : d[i] = c[i + 1] /\ i + 1 \in 1 .. Len(c) /\ i \in Nat
    BY TailIs
<1>. HIDE DEF d
<1>1. \A k \in 1 .. Len(c) : k # 1 => k - 1 \in 1 .. Len(d) /\ d[k - 1] = c[k] /\ k \in Nat
  <2>. SUFFICES ASSUME NEW k \in 1 .. Len(c), k # 1
                PROVE  k - 1 \in 1 .. Len(d) /\ d[k - 1] = c[k] /\ k \in Nat
    OBVIOUS
  <2>1. k - 1 \in 1 .. Len(d) /\ (k - 1) + 1 = k
    BY <1>0
  <2>. QED  BY <1>0, <2>1
<1>2. NoneOf(d, t) => IsLast(c, t, 1)
  <2>1. ASSUME NoneOf(d, t), NEW j \in 1 .. Len(c), 1 < j PROVE c[j].task # t
    <3>1. j # 1
      BY <2>1
    <3>. QED  BY <1>1, <2>1, <3>1 DEF NoneOf
  <2>. QED  BY <1>0, <2>1 DEF IsLast
<1>3. \A i \in 1 .. Len(d) : IsLast(d, t, i) => IsLast(c, t, i + 1)
  <2>. SUFFICES ASSUME NEW i \in 1 .. Len(d), IsLast(d, t, i), NEW j \in 1 .. Len(c), i + 1 < j
                PROVE  c[i + 1].task = t /\ c[j].task # t
    BY <1>0 DEF IsLast
  <2>1. j # 1 /\ j - 1 \in 1 .. Len(d) /\ i < j - 1
    BY <1>0, <1>1
  <2>. QED  BY <1>0, <1>1, <2>1 DEF IsLast
<1>4. ASSUME NEW z, LeaveNone(c, t, s), Head(c).op = "remove" => z = NoTask
      PROVE  LeaveNone(d, t, z)
    BY <1>0, <1>2, <1>3, <1>4 DEF LeaveNone
<1>5. Leave(c, t, s, r) => Leave(d, t, new, r)
    BY <1>0, <1>2, <1>3 DEF Leave
<1>6. ASSUME Apply(c, t, s)
      PROVE  /\ Apply(d, t, new) /\ new # NoTask
             /\ Present(d, t, new, Len(d))
             /\ Head(c).op \in {"add", "replace"}
             /\ Head(c).op = "replace" => s # NoTask
  <2>1. /\ new # NoTask /\ Head(c).op \in {"add", "replace"}
        /\ Head(c).op = "replace" => Present(c, t, s, 1 - 1)
    BY <1>0, <1>6 DEF Apply
  <2>2. \A k : Present(d, t, new, k)
    BY <2>1 DEF Present
  <2>3. Present(c, t, s, 1 - 1) => s # NoTask
    BY <1>0 DEF Present
  <2>4. Apply(d, t, new)
    BY <1>0, <1>6, <2>2 DEF Apply
  <2>. QED  BY <2>1, <2>2, <2>3, <2>4
<1>. QED
    BY <1>4, <1>5, <1>6 DEF d

-----------------------------------------------------------------------------
(* A push puts the patch at the end; a full channel loses its oldest patch. *)
LEMMA PushIs ==
  ASSUME TbTypeOK, NEW p \in PatchOf, Push(p)
  PROVE  /\ channel' \in Seq(PatchOf) /\ Len(channel') <= Capacity
         /\ \A i \in 1 .. Len(channel') :
              channel'[i] = p \/ \E j \in 1 .. Len(channel) : channel'[i] = channel[j]
         /\ \/ socket \notin {"subscribed", "open"} /\ channel' = channel
            \/ socket \in {"subscribed", "open"} /\ channel' = Append(channel, p)
            \/ /\ socket \in {"subscribed", "open"} /\ channel # << >> /\ Len(channel) = Capacity
               /\ Tail(channel) \in Seq(PatchOf) /\ channel' = Append(Tail(channel), p)
<1>0. channel \in Seq(PatchOf) /\ Len(channel) \in Nat /\ Len(channel) <= Capacity
      /\ Capacity \in Nat /\ Capacity > 0
    BY TaskBoardAssumption DEF TbTypeOK
<1>1. CASE socket \notin {"subscribed", "open"}
    BY <1>0, <1>1 DEF Push
<1>2. CASE socket \in {"subscribed", "open"} /\ Len(channel) < Capacity
  <2>1. channel' = Append(channel, p)
    BY <1>2 DEF Push
  <2>2. Len(channel') = Len(channel) + 1 /\ Len(channel') <= Capacity
    BY <1>0, <1>2, <2>1, AppendIs
  <2>. QED  BY <1>0, <1>2, <2>1, <2>2, AppendIs
<1>3. CASE socket \in {"subscribed", "open"} /\ ~(Len(channel) < Capacity)
  <2>1. Len(channel) = Capacity /\ channel # << >>
    <3>1. Len(channel) = Capacity
      BY <1>0, <1>3
    <3>2. Len(<< >>) = 0
      OBVIOUS
    <3>. QED  BY <1>0, <3>1, <3>2
  <2>. DEFINE e == Tail(channel)
  <2>2. /\ e \in Seq(PatchOf) /\ Len(e) = Len(channel) - 1
        /\ \A i \in 1 .. Len(e) : \E j \in 1 .. Len(channel) : e[i] = channel[j]
    BY <1>0, <2>1, TailIs
  <2>3. channel' = Append(e, p)
    BY <1>3 DEF Push
  <2>. HIDE DEF e
  <2>4. Len(channel') = Len(e) + 1 /\ Len(channel') <= Capacity
    BY <1>0, <2>1, <2>2, <2>3, AppendIs
  <2>5. \A i \in 1 .. Len(channel') :
              channel'[i] = p \/ \E j \in 1 .. Len(channel) : channel'[i] = channel[j]
    BY <2>2, <2>3, AppendIs
  <2>6. channel' \in Seq(PatchOf)
    BY <2>2, <2>3, AppendIs
  <2>. QED  BY <1>3, <2>1, <2>2, <2>3, <2>4, <2>5, <2>6 DEF e
<1>. QED
    BY <1>1, <1>2, <1>3

(* What it does to the way to a task that loses nothing by it. *)
LEMMA PushOther ==
  ASSUME TbTypeOK, NEW p \in PatchOf, Push(p), NEW t, t # p.task, t \notin LostBy(p.task),
         NEW s, NEW r
  PROVE  /\ LeaveNone(channel, t, s) => LeaveNone(channel', t, s)
         /\ Apply(channel, t, s) => Apply(channel', t, s)
         /\ Leave(channel, t, s, r) => Leave(channel', t, s, r)
         /\ Present(channel, t, s, Len(channel)) => Present(channel', t, s, Len(channel'))
<1>0. channel \in Seq(PatchOf)
    BY DEF TbTypeOK
<1>1. CASE channel' = channel
    BY <1>1
<1>2. CASE channel' = Append(channel, p)
    BY <1>0, <1>2, AppendOther
<1>3. CASE /\ socket \in {"subscribed", "open"} /\ channel # << >> /\ Len(channel) = Capacity
           /\ Tail(channel) \in Seq(PatchOf) /\ channel' = Append(Tail(channel), p)
  <2>1. Head(channel).task # t
    BY <1>3 DEF LostBy
  <2>. DEFINE e == Tail(channel)
  <2>2. /\ LeaveNone(channel, t, s) => LeaveNone(e, t, s)
        /\ Apply(channel, t, s) => Apply(e, t, s)
        /\ Leave(channel, t, s, r) => Leave(e, t, s, r)
        /\ Present(channel, t, s, Len(channel)) => Present(e, t, s, Len(e))
    BY <1>0, <1>3, <2>1, TailOther
  <2>3. e \in Seq(PatchOf) /\ channel' = Append(e, p)
    BY <1>3
  <2>. HIDE DEF e
  <2>. QED  BY <2>2, <2>3, AppendOther
<1>. QED
    BY <1>1, <1>2, <1>3, PushIs

LEMMA PushOwn ==
  ASSUME TbTypeOK, NEW p \in PatchOf, Push(p), Following, p.task \notin LostBy(p.task), NEW s
  PROVE  /\ p.op = "remove" => LeaveNone(channel', p.task, s)
         /\ Leave(channel', p.task, s, p.row)
         /\ /\ Apply(channel, p.task, s) /\ p.op \in {"add", "replace"} /\ p.row # NoTask
            /\ p.op = "replace" => Present(channel, p.task, s, Len(channel))
            => Apply(channel', p.task, s)
<1>0. channel \in Seq(PatchOf)
    BY DEF TbTypeOK
<1>1. socket \in {"subscribed", "open"}
    BY DEF Following, LostBy
<1>2. CASE channel' = Append(channel, p)
    BY <1>0, <1>2, AppendOwn
<1>3. CASE /\ channel # << >> /\ Len(channel) = Capacity
           /\ Tail(channel) \in Seq(PatchOf) /\ channel' = Append(Tail(channel), p)
  <2>1. Head(channel).task # p.task
    BY <1>1, <1>3 DEF LostBy
  <2>. DEFINE e == Tail(channel)
  <2>2. /\ Apply(channel, p.task, s) => Apply(e, p.task, s)
        /\ Present(channel, p.task, s, Len(channel)) => Present(e, p.task, s, Len(e))
    BY <1>0, <1>3, <2>1, TailOther
  <2>3. e \in Seq(PatchOf) /\ channel' = Append(e, p)
    BY <1>3
  <2>. HIDE DEF e
  <2>. QED  BY <2>2, <2>3, AppendOwn
<1>. QED
    BY <1>1, <1>2, <1>3, PushIs

-----------------------------------------------------------------------------
(* The rows of t that are somewhere, one place at a time. *)
LEMMA RowsAre ==
  ASSUME NEW t
  PROVE  /\ tasks[t] \in RowsOf(t) /\ Final(t) \in RowsOf(t) /\ edits[t] \in RowsOf(t)
         /\ snapshot[t] \in RowsOf(t) /\ board[t] \in RowsOf(t)
         /\ \A n \in DOMAIN hooks : hooks[n].task = t => hooks[n].row \in RowsOf(t)
         /\ \A i \in 1 .. Len(channel) : channel[i].task = t => channel[i].row \in RowsOf(t)
    BY DEF RowsOf

(* A step brings no rows but those of S. *)
LEMMA RowsFewer ==
  ASSUME NEW t, NEW S,
         tasks'[t] \in RowsOf(t) \cup S, Final(t)' \in RowsOf(t) \cup S,
         edits'[t] \in RowsOf(t) \cup S, snapshot'[t] \in RowsOf(t) \cup S,
         board'[t] \in RowsOf(t) \cup S,
         \A n \in DOMAIN hooks' : hooks'[n].task = t => hooks'[n].row \in RowsOf(t) \cup S,
         \A i \in 1 .. Len(channel') : channel'[i].task = t
                                          => channel'[i].row \in RowsOf(t) \cup S
  PROVE  RowsOf(t)' \subseteq RowsOf(t) \cup S
<1>. DEFINE T == RowsOf(t) \cup S
<1>. HIDE DEF T
<1>1. /\ tasks'[t] \in T /\ Final(t)' \in T /\ edits'[t] \in T /\ snapshot'[t] \in T
      /\ board'[t] \in T
      /\ \A n \in DOMAIN hooks' : hooks'[n].task = t => hooks'[n].row \in T
      /\ \A i \in 1 .. Len(channel') : channel'[i].task = t => channel'[i].row \in T
    BY DEF T
<1>2. RowsOf(t)' \subseteq T
    BY <1>1 DEF RowsOf
<1>. QED
    BY <1>2 DEF T

(* Patches that are all applied and leave a row leave an entry to replace. *)
LEMMA PresentFrom ==
  ASSUME NEW c \in Seq(PatchOf), NEW t, NEW s, NEW r, r # NoTask, Apply(c, t, s), Leave(c, t, s, r)
  PROVE  Present(c, t, s, Len(c))
<1>1. CASE NoneOf(c, t)
    BY <1>1 DEF Leave, Present
<1>2. CASE ~NoneOf(c, t)
  <2>1. PICK i \in 1 .. Len(c) : c[i].task = t
    BY <1>2 DEF NoneOf
  <2>2. /\ c[i].op \in {"add", "replace"}
        /\ c[i].op = "replace" => Present(c, t, s, i - 1)
    BY <2>1 DEF Apply
  <2>3. Len(c) \in Nat /\ i <= Len(c) /\ i \in Nat
    OBVIOUS
  <2>4. \A j \in 1 .. Len(c) : j <= i - 1 => j <= Len(c)
    BY <2>3
  <2>. QED  BY <2>1, <2>2, <2>3, <2>4 DEF Present
<1>. QED
    BY <1>1, <1>2

(* With no write under way the rows are the committed ones. *)
LEMMA FinalIs ==
  ASSUME TbTypeOK
  PROVE  /\ \A t \in Task : Final(t) \in Cell /\ Shown(t) \in Cell
         /\ writer = NoWrite => \A t \in Task : Final(t) = tasks[t] /\ writer.task # t
<1>1. \A t \in Task : NoWrite.task # t
    BY TaskBoardAssumption DEF NoWrite
<1>2. writer # NoWrite => writer.row \in Cell
    BY DEF TbTypeOK
<1>. QED
    BY <1>1, <1>2 DEF Final, Shown, TbTypeOK

-----------------------------------------------------------------------------
(* A write: its hook is the only new thing, and it carries no row yet. *)
LEMMA WriteStep ==
  ASSUME BoardInv, NEW t \in Task, NEW r \in Row, NEW op, Write(op, t, r),
         UNCHANGED <<tasks, registered, socket, cache, snapshot, channel, board>>,
         made' = made \cup {t},
         (op = "add" /\ t \notin made) \/ (op = "replace" /\ tasks[t] # NoTask),
         edits' \in [Task -> Cell], \A u \in Task : edits'[u] \in {edits[u], NoTask},
         plain \subseteq plain', plain' \subseteq plain \cup {t},
         registering \subseteq registering', registering' \subseteq registering \cup {t},
         t \in registering' => t \notin registered,
         t \in registering' \ plain' => r.status = "Agent" /\ (t \in registering \/ t \notin made),
         \/ t \notin made \/ r.status = "Agent" \/ t \in plain' \cup registered
         \/ tasks[t].status # "Agent"
  PROVE  BoardInv'
<1>. DEFINE w == writes + 1
            new == [op |-> op, task |-> t, stage |-> "started", row |-> NoTask]
<1>0. TbTypeOK /\ NewIsUnknown /\ PatchHasRow /\ AgentsAreKnown /\ NobodyListens
      /\ OrdinaryIsClear /\ HookIsLast /\ ClientFollows
    BY DEF BoardInv
<1>1. writer = NoWrite /\ writer' = [task |-> t, row |-> r] /\ writes' = w
    BY DEF Write
<1>2. \A u \in Task : Final(u) = tasks[u]
    BY <1>0, <1>1, FinalIs
<1>3. \A u \in Task : Final(u)' = IF u = t THEN r ELSE Final(u)
    BY <1>1, <1>2 DEF Final
<1>4. /\ DOMAIN hooks' = DOMAIN hooks \cup {w} /\ w \notin DOMAIN hooks
      /\ hooks'[w] = new /\ \A n \in DOMAIN hooks : hooks'[n] = hooks[n]
  <2>1. w \notin DOMAIN hooks
    BY <1>0 DEF TbTypeOK
  <2>2. hooks' = [n \in DOMAIN hooks \cup {w} |-> IF n = w THEN new ELSE hooks[n]]
    BY DEF Write
  <2>. HIDE DEF w, new
  <2>. QED  BY <2>1, <2>2
<1>5. new.op = op /\ new.task = t /\ new.stage = "started" /\ new.row = NoTask /\ new \in HookOf
    BY Cells DEF HookOf
<1>6. \A u \in Task : Shown(u)' = Shown(u) /\ Following' = Following
    BY DEF Shown, Following
<1>7. r # NoTask /\ r \in Cell
    BY Cells
<1>8. raced' = raced \cup {u \in {t} : InFlight(u)}
    BY DEF Write
<1>w. writes \in Nat /\ w \in Nat /\ 1 .. writes \subseteq 1 .. w /\ w \in 1 .. w
    BY <1>0 DEF TbTypeOK
<1>. HIDE DEF w, new
<1>9. \A u \in Task : InFlight(u)' <=> u = t \/ InFlight(u)
    BY <1>4, <1>5 DEF InFlight
<1>10. \A u \in Task : RowsOf(u)' \subseteq RowsOf(u) \cup (IF u = t THEN {r, NoTask} ELSE {NoTask})
  <2>. SUFFICES ASSUME NEW u \in Task
                PROVE  RowsOf(u)' \subseteq RowsOf(u) \cup (IF u = t THEN {r, NoTask} ELSE {NoTask})
    OBVIOUS
  <2>. DEFINE S == IF u = t THEN {r, NoTask} ELSE {NoTask}
  <2>1. NoTask \in S /\ (u = t => r \in S)
    OBVIOUS
  <2>. HIDE DEF S
  <2>2. /\ tasks'[u] \in RowsOf(u) \cup S /\ Final(u)' \in RowsOf(u) \cup S
        /\ edits'[u] \in RowsOf(u) \cup S /\ snapshot'[u] \in RowsOf(u) \cup S
        /\ board'[u] \in RowsOf(u) \cup S
    BY <1>3, <2>1, RowsAre
  <2>3. \A n \in DOMAIN hooks' : hooks'[n].task = u => hooks'[n].row \in RowsOf(u) \cup S
    BY <1>4, <1>5, <2>1, RowsAre
  <2>4. \A i \in 1 .. Len(channel') : channel'[i].task = u => channel'[i].row \in RowsOf(u) \cup S
    BY RowsAre
  <2>5. RowsOf(u)' \subseteq RowsOf(u) \cup S
    BY <2>2, <2>3, <2>4, RowsFewer
  <2>. QED  BY <2>5 DEF S
<1>11. TbTypeOK'
  <2>1. writer' \in [task : Task, row : Cell]
    BY <1>1, <1>7
  <2>2. DOMAIN hooks' \subseteq 1 .. writes'
    BY <1>0, <1>1, <1>4, <1>w DEF TbTypeOK
  <2>3. hooks' \in [DOMAIN hooks' -> HookOf]
    <3>1. \A n \in DOMAIN hooks' : hooks'[n] \in HookOf
      BY <1>0, <1>4, <1>5 DEF TbTypeOK
    <3>2. hooks' = [n \in DOMAIN hooks' |-> hooks'[n]]
      BY DEF Write
    <3>. QED  BY <3>1, <3>2
  <2>4. raced' \subseteq Task /\ registering' \subseteq Task /\ plain' \subseteq Task
        /\ made' \subseteq Task
    BY <1>0, <1>8 DEF TbTypeOK
  <2>. QED  BY <1>0, <1>1, <1>w, <2>1, <2>2, <2>3, <2>4 DEF TbTypeOK
<1>12. NewIsUnknown'
    BY <1>0, <1>9, <1>10 DEF NewIsUnknown
<1>13. PatchHasRow' /\ NobodyListens'
    BY <1>0 DEF PatchHasRow, NobodyListens
<1>14. AgentsAreKnown'
  <2>1. registering' \cap registered' = {}
    BY <1>0 DEF AgentsAreKnown
  <2>2. ASSUME NEW u \in registering' \ plain', NEW q \in RowsOf(u)'
        PROVE  q.status \in {"none", "Agent"}
    <3>1. u \in Task
      BY <1>0 DEF TbTypeOK
    <3>2. CASE u = t
      BY <1>0, <1>10, <2>2, <3>1, <3>2, Cells DEF AgentsAreKnown, NewIsUnknown
    <3>3. CASE u # t
      BY <1>0, <1>10, <2>2, <3>1, <3>3, Cells DEF AgentsAreKnown
    <3>. QED  BY <3>2, <3>3
  <2>. QED  BY <1>0, <2>1, <2>2 DEF AgentsAreKnown
<1>15. \A u \in Task : u # t /\ Ordinary(u)' => Ordinary(u)
    BY <1>3 DEF Ordinary
<1>16. Ordinary(t)' => t \notin made \/ Ordinary(t)
    BY <1>2, <1>3 DEF Ordinary
<1>17. OrdinaryIsClear'
  <2>1. ASSUME NEW u \in cache' PROVE u \in registered' \/ Final(u)' = NoTask
    <3>1. u \in Task
      BY <1>0 DEF TbTypeOK
    <3>. QED  BY <1>0, <1>2, <1>3, <2>1, <3>1 DEF OrdinaryIsClear, NewIsUnknown
  <2>2. ASSUME NEW u \in Task, Ordinary(u)', NEW q \in RowsOf(u)' PROVE q.status # "Agent"
    <3>1. CASE u = t
      <4>1. q \in RowsOf(t) \/ q = r \/ q = NoTask
        BY <1>10, <2>2, <3>1
      <4>2. r.status # "Agent"
        BY <1>3, <2>2, <3>1 DEF Ordinary
      <4>. QED  BY <1>0, <1>16, <2>2, <3>1, <4>1, <4>2, Cells DEF OrdinaryIsClear, NewIsUnknown
    <3>2. CASE u # t
      BY <1>0, <1>10, <1>15, <2>2, <3>2, Cells DEF OrdinaryIsClear
    <3>. QED  BY <3>1, <3>2
  <2>. QED  BY <2>1, <2>2 DEF OrdinaryIsClear
<1>18. HookIsLast'
  <2>. SUFFICES ASSUME NEW u \in Task, u \notin raced'
                PROVE  /\ \A n, m \in DOMAIN hooks' : hooks'[n].task = u /\ hooks'[m].task = u => n = m
                       /\ \A n \in DOMAIN hooks' : hooks'[n].task = u =>
                            /\ hooks'[n].op \in {"add", "replace"}
                            /\ Final(u)' # NoTask
                            /\ hooks'[n].stage = "read" => hooks'[n].row = tasks'[u] /\ writer'.task # u
                            /\ hooks'[n].op = "replace" => tasks'[u] # NoTask
                       /\ writer'.task = u /\ writer'.row # NoTask => InFlight(u)'
    BY DEF HookIsLast
  <2>1. CASE u = t
    <3>1. \A n \in DOMAIN hooks : hooks[n].task # t
      BY <1>8, <2>1 DEF InFlight
    <3>. QED  BY <1>3, <1>4, <1>5, <1>7, <1>9, <2>1, <3>1
  <2>2. CASE u # t
    BY <1>0, <1>1, <1>3, <1>4, <1>5, <1>8, <2>2 DEF HookIsLast
  <2>. QED  BY <2>1, <2>2
<1>19. ClientFollows'
  <2>. SUFFICES ASSUME Following, NEW u \in Task, u \notin raced'
                PROVE  /\ Final(u)' = NoTask => LeaveNone(channel, u, Shown(u))
                       /\ Ordinary(u)' =>
                          /\ Apply(channel, u, Shown(u))
                          /\ \A n \in DOMAIN hooks' : hooks'[n].task = u /\ hooks'[n].op = "replace"
                                => Present(channel, u, Shown(u), Len(channel))
                          /\ ~InFlight(u)' => Leave(channel, u, Shown(u), Final(u)')
    BY <1>6 DEF ClientFollows
  <2>1. CASE u = t
    <3>1. /\ Ordinary(t) => /\ Apply(channel, t, Shown(t))
                            /\ Leave(channel, t, Shown(t), Final(t)) /\ Final(t) # NoTask
      BY <1>0, <1>8, <2>1 DEF ClientFollows, Ordinary
    <3>2. Ordinary(t) => Present(channel, t, Shown(t), Len(channel))
      BY <1>0, <3>1, PresentFrom DEF TbTypeOK
    <3>3. t \notin made => Apply(channel, t, Shown(t)) /\ op # "replace"
      <4>1. t \notin made => tasks[t] = NoTask
        BY <1>0, RowsAre DEF NewIsUnknown
      <4>. QED  BY <1>0, <4>1 DEF NewIsUnknown, Apply
    <3>4. \A n \in DOMAIN hooks' : hooks'[n].task = t => hooks'[n] = new
      BY <1>4, <1>8, <2>1 DEF InFlight
    <3>. QED  BY <1>3, <1>5, <1>7, <1>9, <1>16, <2>1, <3>1, <3>2, <3>3, <3>4
  <2>2. CASE u # t
    BY <1>0, <1>3, <1>4, <1>5, <1>8, <1>9, <1>15, <2>2 DEF ClientFollows
  <2>. QED  BY <2>1, <2>2
<1>. QED
    BY <1>11, <1>12, <1>13, <1>14, <1>17, <1>18, <1>19 DEF BoardInv

(* The handlers that write a row. *)
LEMMA CreateStep ==
  ASSUME BoardInv, NEW t \in Task,
         create_task(t) \/ create_task_and_start(t) \/ create_forge_agent(t)
  PROVE  BoardInv'
<1>. DEFINE r == NewRow(IF create_task(t) THEN "Todo" ELSE "Agent")
<1>1. r \in Row /\ (~create_task(t) => r.status = "Agent")
    BY Cells DEF Status
<1>2. /\ t \notin made /\ made' = made \cup {t} /\ Write("add", t, r)
      /\ UNCHANGED <<tasks, registered, socket, cache, snapshot, channel, board>>
      /\ edits' = edits /\ plain' = plain
      /\ registering' = registering \/ (r.status = "Agent" /\ registering' = registering \cup {t})
    BY <1>1 DEF create_task, create_task_and_start, create_forge_agent
<1>. HIDE DEF r
<1>3. t \notin registering \cup registered
    BY <1>2 DEF BoardInv, NewIsUnknown
<1>4. edits' \in [Task -> Cell] /\ \A u \in Task : edits'[u] \in {edits[u], NoTask}
    BY <1>2 DEF BoardInv, TbTypeOK
<1>5. /\ plain \subseteq plain' /\ plain' \subseteq plain \cup {t}
      /\ registering \subseteq registering' /\ registering' \subseteq registering \cup {t}
      /\ t \in registering' => t \notin registered
      /\ t \in registering' \ plain' => r.status = "Agent" /\ (t \in registering \/ t \notin made)
  <2>1. t \in registering' => r.status = "Agent"
    BY <1>2, <1>3
  <2>. QED  BY <1>2, <1>3, <2>1
<1>6. r \in Row /\ t \notin made /\ made' = made \cup {t} /\ Write("add", t, r)
      /\ UNCHANGED <<tasks, registered, socket, cache, snapshot, channel, board>>
    BY <1>1, <1>2
<1>. QED
    BY <1>4, <1>5, <1>6, WriteStep

LEMMA ProcessStep ==
  ASSUME BoardInv, NEW t \in Task, push_task_update_for_attempt(t)
  PROVE  BoardInv'
<1>. DEFINE r == [tasks[t] EXCEPT !.live = ~@]
<1>0. /\ tasks[t] # NoTask /\ Write("replace", t, r)
      /\ UNCHANGED <<tasks, registered, registering, edits, socket, cache, snapshot, channel, board,
                     made, plain>>
    BY DEF push_task_update_for_attempt
<1>1. tasks[t] \in Row
    BY <1>0, Cells DEF BoardInv, TbTypeOK
<1>2. r \in Row /\ r.status = tasks[t].status
    BY <1>1, Cells
<1>. HIDE DEF r
<1>3. made' = made \cup {t}
    BY <1>0, RowsAre DEF BoardInv, NewIsUnknown
<1>4. edits' \in [Task -> Cell] /\ \A u \in Task : edits'[u] \in {edits[u], NoTask}
    BY <1>0 DEF BoardInv, TbTypeOK
<1>5. t \in registering => t \notin registered
    BY DEF BoardInv, AgentsAreKnown
<1>6. t \in registering \ plain => r.status = "Agent"
    BY <1>1, <1>2, RowsAre, Cells DEF BoardInv, AgentsAreKnown, Status
<1>. QED
    BY <1>0, <1>2, <1>3, <1>4, <1>5, <1>6, WriteStep

-----------------------------------------------------------------------------
(* A step that writes no row: the rows in sight are old ones or NoTask, and what
   has to be seen to is the board, the cache and the patches. *)
LEMMA QuietStep ==
  ASSUME BoardInv, TbTypeOK', HookIsLast', ClientFollows',
         made' = made, plain' = plain,
         registering' \subseteq registering, registered' \subseteq registered \cup registering,
         registering' \cap registered' = {},
         \A u \in Task : RowsOf(u)' \subseteq RowsOf(u) \cup {NoTask},
         \A u \in Task : InFlight(u)' => InFlight(u),
         \A i \in 1 .. Len(channel') :
           channel'[i].task \in made /\ (channel'[i].op = "remove" => channel'[i].row = NoTask),
         socket' \in {"closed", "cached", "snapshot"} => channel' = << >>,
         \A u \in registered' \ plain : board'[u] = NoTask,
         \A u \in Task : board'[u].status # "Agent",
         cache' \subseteq cache \cup registered,
         \A u \in cache' : u \in registered' \/ Final(u)' = NoTask,
         \A u \in Task : Ordinary(u)' => Ordinary(u)
  PROVE  BoardInv'
<1>1. NewIsUnknown'
  <2>. SUFFICES ASSUME NEW u \in Task, u \notin made
                PROVE  /\ \A r \in RowsOf(u)' : r = NoTask
                       /\ ~InFlight(u)'
                       /\ \A i \in 1 .. Len(channel') : channel'[i].task # u
                       /\ u \notin registering' \cup registered' \cup cache' \cup plain'
    BY DEF NewIsUnknown
  <2>. QED  BY DEF BoardInv, NewIsUnknown
<1>2. PatchHasRow' /\ NobodyListens'
    BY DEF PatchHasRow, NobodyListens
<1>3. AgentsAreKnown'
  <2>1. ASSUME NEW u \in registering', u \notin plain', NEW r \in RowsOf(u)'
        PROVE  r.status \in {"none", "Agent"}
    <3>1. u \in registering \ plain /\ u \in Task
      BY <2>1 DEF BoardInv, TbTypeOK
    <3>. QED  BY <2>1, <3>1, Cells DEF BoardInv, AgentsAreKnown
  <2>. QED  BY <2>1 DEF AgentsAreKnown
<1>4. OrdinaryIsClear'
  <2>1. ASSUME NEW u \in Task, Ordinary(u)', NEW r \in RowsOf(u)'
        PROVE  r.status # "Agent"
    BY <2>1, Cells DEF BoardInv, OrdinaryIsClear
  <2>. QED  BY <2>1 DEF OrdinaryIsClear
<1>. QED
    BY <1>1, <1>2, <1>3, <1>4 DEF BoardInv

(* What BoardInv says in the terms QuietStep asks for. *)
LEMMA QuietFacts ==
  ASSUME BoardInv
  PROVE  /\ \A i \in 1 .. Len(channel) :
              channel[i].task \in made /\ (channel[i].op = "remove" => channel[i].row = NoTask)
         /\ \A u \in registered \ plain : board[u] = NoTask
         /\ \A u \in Task : board[u].status # "Agent"
         /\ \A u \in cache : u \in registered \/ Final(u) = NoTask
         /\ registering \cap registered = {}
         /\ \A u \in Task : tasks[u] # NoTask => u \in made
         /\ \A u \in Task : Ordinary(u) => u \notin cache \cup registered
         /\ \A u \in Task : InFlight(u) => u \in made
<1>1. channel \in Seq(PatchOf)
    BY DEF BoardInv, TbTypeOK
<1>2. \A i \in 1 .. Len(channel) : channel[i].task \in Task
  <2>1. \A i \in 1 .. Len(channel) : channel[i] \in PatchOf
    BY <1>1
  <2>. QED  BY <2>1 DEF PatchOf
<1>3. \A i \in 1 .. Len(channel) :
              channel[i].task \in made /\ (channel[i].op = "remove" => channel[i].row = NoTask)
    BY <1>2 DEF BoardInv, NewIsUnknown, PatchHasRow
<1>4. \A u \in Task : tasks[u] # NoTask => u \in made
    BY RowsAre DEF BoardInv, NewIsUnknown
<1>5. \A u \in Task : Ordinary(u) => u \notin cache \cup registered
    BY DEF BoardInv, OrdinaryIsClear, Ordinary
<1>6. \A u \in Task : InFlight(u) => u \in made
    BY DEF BoardInv, NewIsUnknown
<1>. QED
    BY <1>3, <1>4, <1>5, <1>6 DEF BoardInv, AgentsAreKnown, OrdinaryIsClear

LEMMA RowsQuiet ==
  ASSUME NEW u,
         tasks'[u] \in RowsOf(u), Final(u)' \in RowsOf(u) \cup {NoTask},
         edits'[u] \in RowsOf(u) \cup {NoTask}, snapshot'[u] \in RowsOf(u) \cup {NoTask},
         board'[u] \in RowsOf(u) \cup {NoTask},
         \A n \in DOMAIN hooks' : hooks'[n].task = u => hooks'[n].row \in RowsOf(u),
         \A i \in 1 .. Len(channel') : channel'[i].task = u
                                          => channel'[i].row \in RowsOf(u) \cup {NoTask}
  PROVE  RowsOf(u)' \subseteq RowsOf(u) \cup {NoTask}
<1>. DEFINE S == {NoTask}
<1>1. /\ tasks'[u] \in RowsOf(u) \cup S /\ Final(u)' \in RowsOf(u) \cup S
      /\ edits'[u] \in RowsOf(u) \cup S /\ snapshot'[u] \in RowsOf(u) \cup S
      /\ board'[u] \in RowsOf(u) \cup S
      /\ \A n \in DOMAIN hooks' : hooks'[n].task = u => hooks'[n].row \in RowsOf(u) \cup S
      /\ \A i \in 1 .. Len(channel') : channel'[i].task = u
                                           => channel'[i].row \in RowsOf(u) \cup S
    OBVIOUS
<1>. HIDE DEF S
<1>2. RowsOf(u)' \subseteq RowsOf(u) \cup S
    BY <1>1, RowsFewer
<1>. QED
    BY <1>2 DEF S

LEMMA EditStep ==
  ASSUME BoardInv, edits' \in [Task -> Cell],
         \A u \in Task : edits'[u] \in {edits[u], tasks[u], NoTask},
         UNCHANGED <<tasks, writer, registered, registering, hooks, writes, socket, cache,
                     snapshot, channel, board, made, raced, plain>>
  PROVE  BoardInv'
<1>1. TbTypeOK'
    BY DEF BoardInv, TbTypeOK
<1>2. \A u \in Task : Final(u)' = Final(u) /\ Shown(u)' = Shown(u) /\ InFlight(u)' = InFlight(u)
                      /\ Ordinary(u)' = Ordinary(u)
    BY DEF Final, Shown, InFlight, Ordinary
<1>3. Following' = Following
    BY DEF Following
<1>4. HookIsLast' /\ ClientFollows'
    BY <1>2, <1>3 DEF BoardInv, HookIsLast, ClientFollows
<1>5. ASSUME NEW u \in Task PROVE RowsOf(u)' \subseteq RowsOf(u) \cup {NoTask}
    BY <1>2, RowsAre, RowsQuiet
<1>6. socket \in {"closed", "cached", "snapshot"} => channel = << >>
    BY DEF BoardInv, NobodyListens
<1>7. /\ registering' \subseteq registering /\ registered' \subseteq registered \cup registering
      /\ registering' \cap registered' = {} /\ cache' \subseteq cache \cup registered
      /\ \A u \in cache' : u \in registered' \/ Final(u)' = NoTask
  <2>1. cache \subseteq Task
    BY DEF BoardInv, TbTypeOK
  <2>. QED  BY <1>2, <2>1, QuietFacts
<1>. QED
    BY <1>1, <1>2, <1>4, <1>5, <1>6, <1>7, QuietFacts, QuietStep

LEMMA UpdateStep ==
  ASSUME BoardInv, NEW t \in Task, NEW want \in Status \cup {"keep"}, update_task(t, want)
  PROVE  BoardInv'
<1>. DEFINE status == IF want = "keep" THEN edits[t].status ELSE want
            r == [tasks[t] EXCEPT !.status = status]
<1>0. TbTypeOK /\ edits[t] # NoTask /\ edits' = [edits EXCEPT ![t] = NoTask]
    BY DEF update_task, BoardInv
<1>1. edits' \in [Task -> Cell] /\ \A u \in Task : edits'[u] \in {edits[u], NoTask}
    BY <1>0, Cells DEF TbTypeOK
<1>2. CASE tasks[t] = NoTask
    BY <1>1, <1>2, EditStep DEF update_task
<1>3. CASE tasks[t] # NoTask
  <2>1. tasks[t] \in Row /\ edits[t] \in Row
    BY <1>0, <1>3, Cells DEF TbTypeOK
  <2>2. status \in Status
    BY <2>1, Cells
  <2>3. r \in Row /\ r.status = status
    BY <2>1, <2>2, Cells
  <2>4. /\ Write("replace", t, r)
        /\ UNCHANGED <<tasks, registered, registering, socket, cache, snapshot, channel, made, board>>
        /\ plain' = plain \cup {u \in {t} : /\ tasks[u].status = "Agent" /\ status # "Agent"
                                            /\ u \notin registered}
    BY <1>3 DEF update_task
  <2>. HIDE DEF r, status
  <2>5. made' = made \cup {t}
    BY <1>3, <2>4, QuietFacts
  <2>6. t \in registering => t \notin registered
    BY QuietFacts
  <2>7. t \in registering \ plain => tasks[t].status = "Agent"
    BY <2>1, RowsAre, Cells DEF BoardInv, AgentsAreKnown, Status
  <2>8. plain \subseteq plain' /\ plain' \subseteq plain \cup {t}
    BY <2>4
  <2>9. t \in registering' \ plain' => r.status = "Agent" /\ t \in registering
    BY <2>3, <2>4, <2>6, <2>7
  <2>10. r.status = "Agent" \/ t \in plain' \cup registered \/ tasks[t].status # "Agent"
    BY <2>3, <2>4
  <2>. QED  BY <1>1, <1>3, <2>3, <2>4, <2>5, <2>6, <2>8, <2>9, <2>10, WriteStep
<1>. QED
    BY <1>2, <1>3

LEMMA LoadStep ==
  ASSUME BoardInv, NEW t \in Task, load_task_middleware(t)
  PROVE  BoardInv'
<1>1. edits' \in [Task -> Cell] /\ \A u \in Task : edits'[u] \in {edits[u], tasks[u], NoTask}
    BY DEF load_task_middleware, BoardInv, TbTypeOK
<1>. QED
    BY <1>1, EditStep DEF load_task_middleware

-----------------------------------------------------------------------------
(* The commit changes nothing that stays: Final already had the row. *)
LEMMA CommitStep ==
  ASSUME BoardInv, Commit
  PROVE  BoardInv'
<1>0. TbTypeOK /\ writer # NoWrite /\ writer.task \in Task /\ writer.row \in Cell
    BY DEF BoardInv, TbTypeOK, Commit
<1>1. /\ tasks' = [tasks EXCEPT ![writer.task] = writer.row]
      /\ registered' = IF writer.row = NoTask THEN registered \ {writer.task} ELSE registered
      /\ writer' = NoWrite
      /\ UNCHANGED <<registering, edits, hooks, writes, socket, cache, snapshot, channel,
                     board, made, raced, plain>>
    BY DEF Commit
<1>2. \A u \in Task : tasks'[u] = Final(u) /\ (writer.task # u => tasks'[u] = tasks[u])
    BY <1>0, <1>1 DEF TbTypeOK, Final
<1>3. TbTypeOK'
  <2>1. tasks' \in [Task -> Cell] /\ registered' \subseteq Task
    BY <1>0, <1>1 DEF TbTypeOK
  <2>. QED  BY <1>0, <1>1, <2>1 DEF TbTypeOK
<1>4. \A u \in Task : writer'.task # u
    BY <1>1, TaskBoardAssumption DEF NoWrite
<1>5. \A u \in Task : Final(u)' = Final(u)
    BY <1>2, <1>4 DEF Final
<1>6. \A u \in Task : /\ Shown(u)' = Shown(u) /\ InFlight(u)' = InFlight(u)
                      /\ Following' = Following
    BY <1>1 DEF Shown, InFlight, Following
<1>7. registered' \subseteq registered /\ \A u \in Task : u \in registered => u \in registered' \/ Final(u) = NoTask
    BY <1>1 DEF Final
<1>8. \A u \in Task : Ordinary(u)' => Ordinary(u)
    BY <1>1, <1>5, <1>7 DEF Ordinary
<1>9. HookIsLast'
  <2>. SUFFICES ASSUME NEW u \in Task, u \notin raced
                PROVE  /\ \A n, m \in DOMAIN hooks : hooks[n].task = u /\ hooks[m].task = u => n = m
                       /\ \A n \in DOMAIN hooks : hooks[n].task = u =>
                            /\ hooks[n].op \in {"add", "replace"}
                            /\ Final(u) # NoTask
                            /\ hooks[n].stage = "read" => hooks[n].row = tasks'[u] /\ writer'.task # u
                            /\ hooks[n].op = "replace" => tasks'[u] # NoTask
                       /\ writer'.task = u /\ writer'.row # NoTask => InFlight(u)'
    BY <1>1, <1>5 DEF HookIsLast
  <2>. QED  BY <1>2, <1>4 DEF BoardInv, HookIsLast
<1>10. ClientFollows'
    BY <1>1, <1>5, <1>6, <1>8 DEF BoardInv, ClientFollows
<1>11. ASSUME NEW u \in Task PROVE RowsOf(u)' \subseteq RowsOf(u) \cup {NoTask}
    BY <1>1, <1>2, <1>5, RowsAre, RowsQuiet
<1>12. /\ registering' \subseteq registering /\ registered' \subseteq registered \cup registering
       /\ registering' \cap registered' = {} /\ cache' \subseteq cache \cup registered
       /\ \A u \in registered' \ plain : board'[u] = NoTask
    BY <1>1, <1>7, QuietFacts
<1>13. \A u \in cache' : u \in registered' \/ Final(u)' = NoTask
  <2>1. cache \subseteq Task
    BY <1>0 DEF TbTypeOK
  <2>. QED  BY <1>1, <1>5, <1>7, <2>1, QuietFacts
<1>14. socket \in {"closed", "cached", "snapshot"} => channel = << >>
    BY DEF BoardInv, NobodyListens
<1>. QED
    BY <1>1, <1>3, <1>6, <1>8, <1>9, <1>10, <1>11, <1>12, <1>13, <1>14, QuietFacts, QuietStep

(* Until now every row of the task said it is an agent's, so it is not shown. *)
LEMMA RegisterStep ==
  ASSUME BoardInv, NEW t \in Task, RegisterAgent(t)
  PROVE  BoardInv'
<1>1. /\ t \in registering /\ registering' = registering \ {t}
      /\ UNCHANGED <<tasks, writer, edits, hooks, writes, socket, cache, snapshot, channel,
                     board, made, raced, plain>>
    BY DEF RegisterAgent
<1>2. registered \subseteq registered' /\ registered' \subseteq registered \cup {t}
    BY DEF RegisterAgent
<1>3. TbTypeOK'
    BY <1>1, <1>2 DEF BoardInv, TbTypeOK
<1>4. \A u \in Task : Final(u)' = Final(u) /\ Shown(u)' = Shown(u) /\ InFlight(u)' = InFlight(u)
                      /\ Following' = Following
    BY <1>1 DEF Final, Shown, InFlight, Following
<1>5. \A u \in Task : Ordinary(u)' => Ordinary(u)
    BY <1>1, <1>2, <1>4 DEF Ordinary
<1>6. HookIsLast' /\ ClientFollows'
    BY <1>1, <1>4, <1>5 DEF BoardInv, HookIsLast, ClientFollows
<1>7. ASSUME NEW u \in Task PROVE RowsOf(u)' \subseteq RowsOf(u) \cup {NoTask}
    BY <1>1, <1>4, RowsAre, RowsQuiet
<1>8. t \notin plain => board[t] = NoTask
  <2>1. board[t] \in Cell /\ board[t].status # "Agent"
    BY QuietFacts DEF BoardInv, TbTypeOK
  <2>2. t \notin plain => board[t].status \in {"none", "Agent"}
    BY <1>1, RowsAre DEF BoardInv, AgentsAreKnown
  <2>. QED  BY <2>1, <2>2, Cells DEF Status
<1>9. /\ registering' \subseteq registering /\ registered' \subseteq registered \cup registering
      /\ registering' \cap registered' = {} /\ cache' \subseteq cache \cup registered
      /\ \A u \in registered' \ plain : board'[u] = NoTask
    BY <1>1, <1>2, <1>8, QuietFacts
<1>10. \A u \in cache' : u \in registered' \/ Final(u)' = NoTask
  <2>1. cache \subseteq Task
    BY DEF BoardInv, TbTypeOK
  <2>. QED  BY <1>1, <1>2, <1>4, <2>1, QuietFacts
<1>11. socket \in {"closed", "cached", "snapshot"} => channel = << >>
    BY DEF BoardInv, NobodyListens
<1>. QED
    BY <1>1, <1>3, <1>4, <1>5, <1>6, <1>7, <1>9, <1>10, <1>11, QuietFacts, QuietStep

-----------------------------------------------------------------------------
(* The removal is pushed while the row is still committed. *)
LEMMA DeleteStep ==
  ASSUME BoardInv, NEW t \in Task, delete_task_row(t)
  PROVE  BoardInv'
<1>. DEFINE p == Patch("remove", t, NoTask)
<1>1. /\ tasks[t] # NoTask /\ writer = NoWrite /\ writes' = writes + 1
      /\ writer' = [task |-> t, row |-> NoTask] /\ Push(p)
      /\ raced' = raced \cup {u \in {t} : InFlight(u)} \cup LostBy(t)
      /\ UNCHANGED <<tasks, registered, registering, edits, hooks, socket, cache, snapshot,
                     board, made, plain>>
    BY DEF delete_task_row
<1>2. p \in PatchOf /\ p.op = "remove" /\ p.task = t /\ p.row = NoTask
    BY Cells DEF PatchOf, Op, Patch
<1>. HIDE DEF p
<1>3. TbTypeOK
    BY DEF BoardInv
<1>4. /\ channel' \in Seq(PatchOf) /\ Len(channel') <= Capacity
      /\ \A i \in 1 .. Len(channel') :
           channel'[i] = p \/ \E j \in 1 .. Len(channel) : channel'[i] = channel[j]
      /\ socket \notin {"subscribed", "open"} => channel' = channel
    BY <1>1, <1>2, <1>3, PushIs
<1>5. \A u \in Task : /\ Final(u) = tasks[u] /\ writer.task # u
                      /\ Final(u)' = IF u = t THEN NoTask ELSE Final(u)
  <2>1. \A u \in Task : Final(u) = tasks[u] /\ writer.task # u
    BY <1>1, <1>3, FinalIs
  <2>. QED  BY <1>1, <2>1 DEF Final
<1>6. \A u \in Task : /\ Shown(u)' = Shown(u) /\ InFlight(u)' = InFlight(u)
                      /\ Following' = Following
    BY <1>1 DEF Shown, InFlight, Following
<1>7. \A u \in Task : Ordinary(u)' => Ordinary(u) /\ u # t
    BY <1>1, <1>5 DEF Ordinary
<1>8. TbTypeOK'
  <2>1. LostBy(t) \subseteq Task
    <3>1. channel # << >> => Head(channel) \in PatchOf
      BY <1>3, TailIs DEF TbTypeOK
    <3>2. channel # << >> => Head(channel).task \in Task
      BY <3>1 DEF PatchOf
    <3>3. Len(channel) = Capacity => channel # << >>
      BY <1>3, TaskBoardAssumption DEF TbTypeOK
    <3>. QED  BY <3>2, <3>3 DEF LostBy
  <2>2. raced' \subseteq Task
    BY <1>1, <1>3, <2>1 DEF TbTypeOK
  <2>3. writer' \in [task : Task, row : Cell]
    BY <1>1, Cells
  <2>4. writes' \in Nat /\ DOMAIN hooks' \subseteq 1 .. writes'
    BY <1>1, <1>3 DEF TbTypeOK
  <2>. QED  BY <1>1, <1>3, <1>4, <2>2, <2>3, <2>4 DEF TbTypeOK
<1>9. HookIsLast'
  <2>. SUFFICES ASSUME NEW u \in Task, u \notin raced'
                PROVE  /\ \A n, m \in DOMAIN hooks : hooks[n].task = u /\ hooks[m].task = u => n = m
                       /\ \A n \in DOMAIN hooks : hooks[n].task = u =>
                            /\ hooks[n].op \in {"add", "replace"}
                            /\ Final(u)' # NoTask
                            /\ hooks[n].stage = "read" => hooks[n].row = tasks[u] /\ writer'.task # u
                            /\ hooks[n].op = "replace" => tasks[u] # NoTask
                       /\ writer'.task = u /\ writer'.row # NoTask => InFlight(u)'
    BY <1>1 DEF HookIsLast
  <2>1. CASE u = t
    BY <1>1, <2>1 DEF InFlight
  <2>2. CASE u # t
    BY <1>1, <1>5, <2>2 DEF BoardInv, HookIsLast
  <2>. QED  BY <2>1, <2>2
<1>10. ClientFollows'
  <2>. SUFFICES ASSUME Following, NEW u \in Task, u \notin raced'
                PROVE  /\ Final(u)' = NoTask => LeaveNone(channel', u, Shown(u))
                       /\ Ordinary(u)' =>
                          /\ Apply(channel', u, Shown(u))
                          /\ \A n \in DOMAIN hooks : hooks[n].task = u /\ hooks[n].op = "replace"
                                => Present(channel', u, Shown(u), Len(channel'))
                          /\ ~InFlight(u) => Leave(channel', u, Shown(u), Final(u)')
    BY <1>1, <1>6 DEF ClientFollows
  <2>1. u \notin raced /\ u \notin LostBy(t)
    BY <1>1
  <2>2. CASE u = t
    BY <1>1, <1>2, <1>3, <1>7, <2>1, <2>2, PushOwn
  <2>3. CASE u # t
    <3>. DEFINE s == Shown(u)
                r == Final(u)
    <3>1. Final(u)' = r
      BY <1>5, <2>3
    <3>2. /\ Final(u) = NoTask => LeaveNone(channel, u, s)
          /\ Ordinary(u) => /\ Apply(channel, u, s)
                            /\ \A n \in DOMAIN hooks : hooks[n].task = u /\ hooks[n].op = "replace"
                                  => Present(channel, u, s, Len(channel))
                            /\ ~InFlight(u) => Leave(channel, u, s, r)
      BY <2>1 DEF BoardInv, ClientFollows
    <3>3. /\ LeaveNone(channel, u, s) => LeaveNone(channel', u, s)
          /\ Apply(channel, u, s) => Apply(channel', u, s)
          /\ Leave(channel, u, s, r) => Leave(channel', u, s, r)
          /\ Present(channel, u, s, Len(channel)) => Present(channel', u, s, Len(channel'))
      BY <1>1, <1>2, <1>3, <2>1, <2>3, PushOther
    <3>. QED  BY <1>7, <3>1, <3>2, <3>3
  <2>. QED  BY <2>2, <2>3
<1>11. ASSUME NEW u \in Task PROVE RowsOf(u)' \subseteq RowsOf(u) \cup {NoTask}
  <2>1. \A i \in 1 .. Len(channel') : channel'[i].task = u
                                        => channel'[i].row \in RowsOf(u) \cup {NoTask}
    BY <1>2, <1>4, RowsAre
  <2>2. Final(u)' \in RowsOf(u) \cup {NoTask}
    BY <1>5, RowsAre
  <2>. QED  BY <1>1, <2>1, <2>2, RowsAre, RowsQuiet
<1>12. \A i \in 1 .. Len(channel') :
         channel'[i].task \in made /\ (channel'[i].op = "remove" => channel'[i].row = NoTask)
    BY <1>1, <1>2, <1>4, QuietFacts
<1>13. \A u \in cache' : u \in registered' \/ Final(u)' = NoTask
  <2>1. cache \subseteq Task
    BY <1>3 DEF TbTypeOK
  <2>. QED  BY <1>1, <1>5, <2>1, QuietFacts
<1>14. socket' \in {"closed", "cached", "snapshot"} => channel' = << >>
    BY <1>1, <1>4 DEF BoardInv, NobodyListens
<1>15. /\ registering' \subseteq registering /\ registered' \subseteq registered \cup registering
       /\ registering' \cap registered' = {} /\ cache' \subseteq cache \cup registered
       /\ \A u \in registered' \ plain : board'[u] = NoTask
    BY <1>1, QuietFacts
<1>. QED
    BY <1>1, <1>6, <1>7, <1>8, <1>9, <1>10, <1>11, <1>12, <1>13, <1>14, <1>15, QuietFacts, QuietStep

-----------------------------------------------------------------------------
(* A hook reads the committed row: unless a write of that task is not committed
   yet, it is the row that stays. *)
LEMMA HookReadsStep ==
  ASSUME BoardInv, NEW k, HookReads(k)
  PROVE  BoardInv'
<1>. DEFINE t == hooks[k].task
            op == IF tasks[t] = NoTask THEN "entry" ELSE hooks[k].op
            new == [hooks[k] EXCEPT !.stage = "read", !.row = tasks[t], !.op = op]
<1>1. /\ k \in DOMAIN hooks /\ hooks[k].stage = "started"
      /\ raced' = raced \cup {u \in {t} : writer.task = u}
      /\ UNCHANGED <<tasks, writer, registered, registering, edits, writes, socket, cache,
                     snapshot, channel, board, made, plain>>
    BY DEF HookReads
<1>2. TbTypeOK
    BY DEF BoardInv
<1>3. hooks[k] \in HookOf /\ t \in Task /\ tasks[t] \in Cell
  <2>1. hooks[k] \in HookOf
    BY <1>1, <1>2 DEF TbTypeOK
  <2>2. t \in Task
    BY <2>1 DEF HookOf
  <2>. QED  BY <1>2, <2>1, <2>2 DEF TbTypeOK
<1>4. hooks' = [hooks EXCEPT ![k] = new]
    BY DEF HookReads, find_by_id_with_attempt_status
<1>5. /\ new \in HookOf /\ new.stage = "read" /\ new.row = tasks[t] /\ new.op = op /\ new.task = t
  <2>1. op \in {"add", "replace", "entry"}
    BY <1>3 DEF HookOf
  <2>. DEFINE h == hooks[k]
              r == tasks[t]
              g == [h EXCEPT !.stage = "read", !.row = r, !.op = op]
  <2>2. h \in HookOf /\ r \in Cell
    BY <1>3
  <2>. HIDE DEF h, r, op
  <2>3. g.stage = "read" /\ g.row = r /\ g.op = op /\ g.task = h.task
    BY <2>2 DEF HookOf
  <2>4. g \in HookOf
    BY <2>1, <2>2 DEF HookOf
  <2>5. new = g /\ h.task = t /\ r = tasks[t]
    BY DEF h, r
  <2>. HIDE DEF g, new, t
  <2>. QED  BY <2>3, <2>4, <2>5
<1>6. op = hooks[k].op \/ tasks[t] = NoTask
    OBVIOUS
<1>t. hooks[k].task = t
    OBVIOUS
<1>. HIDE DEF new, op, t
<1>7. /\ DOMAIN hooks' = DOMAIN hooks /\ hooks'[k] = new
      /\ \A n \in DOMAIN hooks : n # k => hooks'[n] = hooks[n]
      /\ \A n \in DOMAIN hooks : hooks'[n].task = hooks[n].task
    BY <1>1, <1>4, <1>5, <1>t
<1>8. TbTypeOK'
  <2>1. hooks' \in [DOMAIN hooks' -> HookOf]
    BY <1>1, <1>2, <1>4, <1>5 DEF TbTypeOK
  <2>2. raced' \subseteq Task
    BY <1>1, <1>2, <1>3 DEF TbTypeOK
  <2>. QED  BY <1>1, <1>2, <1>7, <2>1, <2>2 DEF TbTypeOK
<1>9. \A u \in Task : /\ Final(u)' = Final(u) /\ Shown(u)' = Shown(u)
                      /\ Following' = Following /\ Ordinary(u)' = Ordinary(u)
    BY <1>1 DEF Shown, Final, Following, Ordinary
<1>10. \A u \in Task : InFlight(u)' <=> InFlight(u)
    BY <1>7 DEF InFlight
<1>11. t \notin raced' => t \notin raced /\ writer.task # t /\ Final(t) = tasks[t] /\ tasks[t] # NoTask
  <2>1. t \notin raced' => t \notin raced /\ writer.task # t /\ Final(t) = tasks[t]
    BY <1>1 DEF Final
  <2>2. t \notin raced => Final(t) # NoTask
    BY <1>1, <1>3, <1>t DEF BoardInv, HookIsLast
  <2>. QED  BY <2>1, <2>2
<1>12. t \notin raced' => new.op = hooks[k].op
    BY <1>5, <1>6, <1>11
<1>13. HookIsLast'
  <2>. SUFFICES ASSUME NEW u \in Task, u \notin raced'
                PROVE  /\ \A n, m \in DOMAIN hooks' : hooks'[n].task = u /\ hooks'[m].task = u => n = m
                       /\ \A n \in DOMAIN hooks' : hooks'[n].task = u =>
                            /\ hooks'[n].op \in {"add", "replace"}
                            /\ Final(u) # NoTask
                            /\ hooks'[n].stage = "read" => hooks'[n].row = tasks[u] /\ writer.task # u
                            /\ hooks'[n].op = "replace" => tasks[u] # NoTask
                       /\ writer.task = u /\ writer.row # NoTask => InFlight(u)'
    BY <1>1, <1>9 DEF HookIsLast
  <2>1. u \notin raced
    BY <1>1
  <2>2. ASSUME NEW n \in DOMAIN hooks', hooks'[n].task = u
        PROVE  /\ hooks'[n].op \in {"add", "replace"} /\ Final(u) # NoTask
               /\ hooks'[n].stage = "read" => hooks'[n].row = tasks[u] /\ writer.task # u
               /\ hooks'[n].op = "replace" => tasks[u] # NoTask
    <3>1. n \in DOMAIN hooks /\ hooks[n].task = u
      BY <1>7, <2>2
    <3>2. hooks'[n].op = hooks[n].op
      BY <1>5, <1>7, <1>12, <2>2, <3>1
    <3>3. CASE n = k
      BY <1>5, <1>7, <1>11, <2>1, <2>2, <3>1, <3>2, <3>3 DEF BoardInv, HookIsLast
    <3>4. CASE n # k
      BY <1>7, <2>1, <3>1, <3>4 DEF BoardInv, HookIsLast
    <3>. QED  BY <3>3, <3>4
  <2>3. \A n, m \in DOMAIN hooks' : hooks'[n].task = u /\ hooks'[m].task = u => n = m
    BY <1>7, <2>1 DEF BoardInv, HookIsLast
  <2>4. writer.task = u /\ writer.row # NoTask => InFlight(u)'
    BY <1>10, <2>1 DEF BoardInv, HookIsLast
  <2>. QED  BY <2>2, <2>3, <2>4
<1>14. ClientFollows'
  <2>. SUFFICES ASSUME Following, NEW u \in Task, u \notin raced'
                PROVE  /\ Final(u) = NoTask => LeaveNone(channel, u, Shown(u))
                       /\ Ordinary(u) =>
                          /\ Apply(channel, u, Shown(u))
                          /\ \A n \in DOMAIN hooks' : hooks'[n].task = u /\ hooks'[n].op = "replace"
                                => Present(channel, u, Shown(u), Len(channel))
                          /\ ~InFlight(u) => Leave(channel, u, Shown(u), Final(u))
    BY <1>1, <1>9, <1>10 DEF ClientFollows
  <2>1. u \notin raced
    BY <1>1
  <2>2. \A n \in DOMAIN hooks' : hooks'[n].task = u => hooks[n].task = u /\ hooks'[n].op = hooks[n].op
    BY <1>5, <1>7, <1>12
  <2>. QED  BY <1>7, <2>1, <2>2 DEF BoardInv, ClientFollows
<1>15. ASSUME NEW u \in Task PROVE RowsOf(u)' \subseteq RowsOf(u) \cup {NoTask}
  <2>1. \A n \in DOMAIN hooks' : hooks'[n].task = u => hooks'[n].row \in RowsOf(u)
    BY <1>5, <1>7, RowsAre
  <2>. QED  BY <1>1, <1>9, <2>1, RowsAre, RowsQuiet
<1>16. \A u \in cache' : u \in registered' \/ Final(u)' = NoTask
  <2>1. cache \subseteq Task
    BY <1>2 DEF TbTypeOK
  <2>. QED  BY <1>1, <1>9, <2>1, QuietFacts
<1>17. /\ registering' \subseteq registering /\ registered' \subseteq registered \cup registering
       /\ registering' \cap registered' = {} /\ cache' \subseteq cache \cup registered
       /\ \A u \in registered' \ plain : board'[u] = NoTask
    BY <1>1, QuietFacts
<1>18. socket \in {"closed", "cached", "snapshot"} => channel = << >>
    BY DEF BoardInv, NobodyListens
<1>. QED
    BY <1>1, <1>8, <1>9, <1>10, <1>13, <1>14, <1>15, <1>16, <1>17, <1>18, QuietFacts, QuietStep

(* A hook pushes what it read; it was the only one of a task without a race. *)
LEMMA HookPushesStep ==
  ASSUME BoardInv, NEW k, HookPushes(k)
  PROVE  BoardInv'
<1>. DEFINE t == hooks[k].task
            p == Patch(hooks[k].op, t, hooks[k].row)
<1>1. /\ k \in DOMAIN hooks /\ hooks[k].stage = "read" /\ Push(p)
      /\ hooks' = [n \in DOMAIN hooks \ {k} |-> hooks[n]]
      /\ raced' = raced \cup LostBy(t)
      /\ UNCHANGED <<tasks, writer, registered, registering, edits, writes, socket, cache,
                     snapshot, board, made, plain>>
    BY DEF HookPushes
<1>2. TbTypeOK
    BY DEF BoardInv
<1>3. hooks[k] \in HookOf
    BY <1>1, <1>2 DEF TbTypeOK
<1>4. /\ t \in Task /\ p \in PatchOf /\ p.task = t /\ p.row = hooks[k].row /\ p.op = hooks[k].op
      /\ p.op # "remove"
    BY <1>3 DEF HookOf, PatchOf, Op, Patch
<1>t. hooks[k].task = t
    OBVIOUS
<1>. HIDE DEF p, t
<1>5. /\ channel' \in Seq(PatchOf) /\ Len(channel') <= Capacity
      /\ \A i \in 1 .. Len(channel') :
           channel'[i] = p \/ \E j \in 1 .. Len(channel) : channel'[i] = channel[j]
      /\ socket \notin {"subscribed", "open"} => channel' = channel
    BY <1>1, <1>2, <1>4, PushIs
<1>6. /\ DOMAIN hooks' = DOMAIN hooks \ {k}
      /\ \A n \in DOMAIN hooks' : hooks'[n] = hooks[n] /\ n \in DOMAIN hooks /\ n # k
    BY <1>1
<1>7. \A u \in Task : /\ Final(u)' = Final(u) /\ Shown(u)' = Shown(u)
                      /\ Following' = Following /\ Ordinary(u)' = Ordinary(u)
    BY <1>1 DEF Shown, Final, Following, Ordinary
<1>8. \A u \in Task : /\ InFlight(u)' => InFlight(u)
                      /\ u # t => (InFlight(u)' <=> InFlight(u))
    BY <1>6, <1>t DEF InFlight
<1>9. TbTypeOK'
  <2>1. LostBy(t) \subseteq Task
    <3>1. channel # << >> => Head(channel) \in PatchOf
      BY <1>2, TailIs DEF TbTypeOK
    <3>2. channel # << >> => Head(channel).task \in Task
      BY <3>1 DEF PatchOf
    <3>3. Len(channel) = Capacity => channel # << >>
      BY <1>2, TaskBoardAssumption DEF TbTypeOK
    <3>. QED  BY <1>4, <3>2, <3>3 DEF LostBy
  <2>2. raced' \subseteq Task
    BY <1>1, <1>2, <2>1 DEF TbTypeOK
  <2>3. hooks' \in [DOMAIN hooks' -> HookOf] /\ DOMAIN hooks' \subseteq 1 .. writes'
    BY <1>1, <1>2 DEF TbTypeOK
  <2>. QED  BY <1>1, <1>2, <1>5, <2>2, <2>3 DEF TbTypeOK
<1>10. HookIsLast'
  <2>. SUFFICES ASSUME NEW u \in Task, u \notin raced'
                PROVE  /\ \A n, m \in DOMAIN hooks' : hooks'[n].task = u /\ hooks'[m].task = u => n = m
                       /\ \A n \in DOMAIN hooks' : hooks'[n].task = u =>
                            /\ hooks'[n].op \in {"add", "replace"}
                            /\ Final(u) # NoTask
                            /\ hooks'[n].stage = "read" => hooks'[n].row = tasks[u] /\ writer.task # u
                            /\ hooks'[n].op = "replace" => tasks[u] # NoTask
                       /\ writer.task = u /\ writer.row # NoTask => InFlight(u)'
    BY <1>1, <1>7 DEF HookIsLast
  <2>1. u \notin raced
    BY <1>1
  <2>2. u = t => writer.task # u
    BY <1>1, <1>t, <2>1 DEF BoardInv, HookIsLast
  <2>. QED  BY <1>6, <1>8, <2>1, <2>2 DEF BoardInv, HookIsLast
<1>11. ClientFollows'
  <2>. SUFFICES ASSUME Following, NEW u \in Task, u \notin raced'
                PROVE  /\ Final(u) = NoTask => LeaveNone(channel', u, Shown(u))
                       /\ Ordinary(u) =>
                          /\ Apply(channel', u, Shown(u))
                          /\ \A n \in DOMAIN hooks' : hooks'[n].task = u /\ hooks'[n].op = "replace"
                                => Present(channel', u, Shown(u), Len(channel'))
                          /\ ~InFlight(u)' => Leave(channel', u, Shown(u), Final(u))
    BY <1>1, <1>7 DEF ClientFollows
  <2>1. u \notin raced /\ u \notin LostBy(t)
    BY <1>1
  <2>. DEFINE s == Shown(u)
              r == Final(u)
  <2>2. /\ Final(u) = NoTask => LeaveNone(channel, u, s)
        /\ Ordinary(u) => /\ Apply(channel, u, s)
                          /\ \A n \in DOMAIN hooks : hooks[n].task = u /\ hooks[n].op = "replace"
                                => Present(channel, u, s, Len(channel))
                          /\ ~InFlight(u) => Leave(channel, u, s, r)
    BY <2>1 DEF BoardInv, ClientFollows
  <2>3. CASE u = t
    <3>1. /\ p.op \in {"add", "replace"} /\ Final(u) # NoTask /\ p.row = tasks[u] /\ writer.task # u
          /\ \A n \in DOMAIN hooks' : hooks'[n].task # u
      BY <1>1, <1>4, <1>6, <1>t, <2>1, <2>3 DEF BoardInv, HookIsLast
    <3>2. p.row = Final(u)
      BY <3>1 DEF Final
    <3>3. p.op = "replace" /\ Ordinary(u) => Present(channel, u, s, Len(channel))
      BY <1>1, <1>4, <1>t, <2>2, <2>3
    <3>4. /\ Leave(channel', u, s, p.row)
          /\ /\ Apply(channel, u, s) /\ p.op \in {"add", "replace"} /\ p.row # NoTask
             /\ p.op = "replace" => Present(channel, u, s, Len(channel))
             => Apply(channel', u, s)
      BY <1>1, <1>2, <1>4, <2>1, <2>3, PushOwn
    <3>. QED  BY <2>2, <3>1, <3>2, <3>3, <3>4
  <2>4. CASE u # t
    <3>1. /\ LeaveNone(channel, u, s) => LeaveNone(channel', u, s)
          /\ Apply(channel, u, s) => Apply(channel', u, s)
          /\ Leave(channel, u, s, r) => Leave(channel', u, s, r)
          /\ Present(channel, u, s, Len(channel)) => Present(channel', u, s, Len(channel'))
      BY <1>1, <1>2, <1>4, <2>1, <2>4, PushOther
    <3>. QED  BY <1>6, <1>8, <2>2, <2>4, <3>1
  <2>. QED  BY <2>3, <2>4
<1>12. ASSUME NEW u \in Task PROVE RowsOf(u)' \subseteq RowsOf(u) \cup {NoTask}
  <2>1. \A i \in 1 .. Len(channel') : channel'[i].task = u
                                        => channel'[i].row \in RowsOf(u) \cup {NoTask}
    BY <1>1, <1>4, <1>5, <1>t, RowsAre
  <2>2. \A n \in DOMAIN hooks' : hooks'[n].task = u => hooks'[n].row \in RowsOf(u)
    BY <1>6, RowsAre
  <2>. QED  BY <1>1, <1>7, <2>1, <2>2, RowsAre, RowsQuiet
<1>13. t \in made
    BY <1>1, <1>4, <1>t, QuietFacts DEF InFlight
<1>14. \A i \in 1 .. Len(channel') :
         channel'[i].task \in made /\ (channel'[i].op = "remove" => channel'[i].row = NoTask)
    BY <1>4, <1>5, <1>13, QuietFacts
<1>15. \A u \in cache' : u \in registered' \/ Final(u)' = NoTask
  <2>1. cache \subseteq Task
    BY <1>2 DEF TbTypeOK
  <2>. QED  BY <1>1, <1>7, <2>1, QuietFacts
<1>16. socket' \in {"closed", "cached", "snapshot"} => channel' = << >>
    BY <1>1, <1>5 DEF BoardInv, NobodyListens
<1>17. /\ registering' \subseteq registering /\ registered' \subseteq registered \cup registering
       /\ registering' \cap registered' = {} /\ cache' \subseteq cache \cup registered
       /\ \A u \in registered' \ plain : board'[u] = NoTask
    BY <1>1, QuietFacts
<1>. QED
    BY <1>1, <1>7, <1>8, <1>9, <1>10, <1>11, <1>12, <1>14, <1>15, <1>16, <1>17, QuietFacts, QuietStep

-----------------------------------------------------------------------------
(* The socket.  Before the snapshot nothing follows; the cache holds registered
   tasks only. *)
LEMMA CacheStep ==
  ASSUME BoardInv,
         \/ stream_tasks_ws \/ RefreshCache
  PROVE  BoardInv'
<1>1. /\ cache' = registered
      /\ socket' = socket \/ (socket = "closed" /\ socket' = "cached")
      /\ UNCHANGED <<tasks, writer, registered, registering, edits, hooks, writes, snapshot,
                     channel, board, made, raced, plain>>
    BY DEF stream_tasks_ws, RefreshCache
<1>2. TbTypeOK'
    BY <1>1 DEF BoardInv, TbTypeOK
<1>3. \A u \in Task : /\ Final(u)' = Final(u) /\ InFlight(u)' = InFlight(u)
                      /\ Ordinary(u)' = Ordinary(u) /\ Shown(u)' = Shown(u)
                      /\ Following' = Following
    BY <1>1 DEF Final, InFlight, Ordinary, Shown, Following
<1>4. HookIsLast' /\ ClientFollows'
    BY <1>1, <1>3 DEF BoardInv, HookIsLast, ClientFollows
<1>5. ASSUME NEW u \in Task PROVE RowsOf(u)' \subseteq RowsOf(u) \cup {NoTask}
    BY <1>1, <1>3, RowsAre, RowsQuiet
<1>6. socket' \in {"closed", "cached", "snapshot"} => channel' = << >>
    BY <1>1 DEF BoardInv, NobodyListens
<1>7. /\ registering' \subseteq registering /\ registered' \subseteq registered \cup registering
      /\ registering' \cap registered' = {} /\ cache' \subseteq cache \cup registered
      /\ \A u \in registered' \ plain : board'[u] = NoTask
      /\ \A u \in cache' : u \in registered' \/ Final(u)' = NoTask
    BY <1>1, QuietFacts
<1>. QED
    BY <1>1, <1>2, <1>3, <1>4, <1>5, <1>6, <1>7, QuietFacts, QuietStep

(* The snapshot is a fresh start: it forgives every race that is over. *)
LEMMA SnapshotStep ==
  ASSUME BoardInv, ReadSnapshot
  PROVE  BoardInv'
<1>1. /\ socket = "cached" /\ socket' = "snapshot" /\ snapshot' = tasks
      /\ raced' = {t \in raced : InFlight(t) \/ writer.task = t} \cup
                  {t \in Task : writer.task = t /\ writer.row = NoTask}
      /\ UNCHANGED <<tasks, writer, registered, registering, edits, hooks, writes, cache,
                     channel, board, made, plain>>
    BY DEF ReadSnapshot, find_by_project_id_with_attempt_status
<1>2. TbTypeOK
    BY DEF BoardInv
<1>3. TbTypeOK'
    BY <1>1, <1>2 DEF TbTypeOK
<1>4. \A u \in Task : /\ Final(u)' = Final(u) /\ InFlight(u)' = InFlight(u)
                      /\ Ordinary(u)' = Ordinary(u) /\ Shown(u)' = tasks[u]
    BY <1>1 DEF Final, InFlight, Ordinary, Shown
<1>5. channel = << >>
    BY <1>1 DEF BoardInv, NobodyListens
<1>6. ASSUME NEW u \in Task, u \notin raced'
      PROVE  /\ u \notin raced \/ (~InFlight(u) /\ writer.task # u)
             /\ writer.task = u => writer.row # NoTask
    BY <1>1, <1>6
<1>7. HookIsLast'
  <2>. SUFFICES ASSUME NEW u \in Task, u \notin raced'
                PROVE  /\ \A n, m \in DOMAIN hooks : hooks[n].task = u /\ hooks[m].task = u => n = m
                       /\ \A n \in DOMAIN hooks : hooks[n].task = u =>
                            /\ hooks[n].op \in {"add", "replace"}
                            /\ Final(u) # NoTask
                            /\ hooks[n].stage = "read" => hooks[n].row = tasks[u] /\ writer.task # u
                            /\ hooks[n].op = "replace" => tasks[u] # NoTask
                       /\ writer.task = u /\ writer.row # NoTask => InFlight(u)
    BY <1>1, <1>4 DEF HookIsLast
  <2>1. CASE u \notin raced
    BY <2>1 DEF BoardInv, HookIsLast
  <2>2. CASE ~InFlight(u) /\ writer.task # u
    BY <2>2 DEF InFlight
  <2>. QED  BY <1>6, <2>1, <2>2
<1>8. ClientFollows'
  <2>. SUFFICES ASSUME NEW u \in Task, u \notin raced'
                PROVE  /\ Final(u) = NoTask => LeaveNone(<< >>, u, tasks[u])
                       /\ Ordinary(u) =>
                          /\ Apply(<< >>, u, tasks[u])
                          /\ \A n \in DOMAIN hooks : hooks[n].task = u /\ hooks[n].op = "replace"
                                => Present(<< >>, u, tasks[u], Len(<< >>))
                          /\ ~InFlight(u) => Leave(<< >>, u, tasks[u], Final(u))
    BY <1>1, <1>4, <1>5 DEF ClientFollows
  <2>1. Final(u) = NoTask => tasks[u] = NoTask
    BY <1>6 DEF Final
  <2>2. ASSUME NEW n \in DOMAIN hooks, hooks[n].task = u, hooks[n].op = "replace"
        PROVE  tasks[u] # NoTask
    <3>1. u \notin raced
      BY <1>6, <2>2 DEF InFlight
    <3>. QED  BY <2>2, <3>1 DEF BoardInv, HookIsLast
  <2>3. ~InFlight(u) => Final(u) = tasks[u]
    BY <1>6 DEF BoardInv, HookIsLast, Final
  <2>. QED  BY <2>1, <2>2, <2>3, EmptyLeads DEF Present
<1>9. ASSUME NEW u \in Task PROVE RowsOf(u)' \subseteq RowsOf(u) \cup {NoTask}
    BY <1>1, <1>4, RowsAre, RowsQuiet
<1>10. /\ registering' \subseteq registering /\ registered' \subseteq registered \cup registering
       /\ registering' \cap registered' = {} /\ cache' \subseteq cache \cup registered
       /\ \A u \in registered' \ plain : board'[u] = NoTask
    BY <1>1, QuietFacts
<1>11. \A u \in cache' : u \in registered' \/ Final(u)' = NoTask
  <2>1. cache \subseteq Task
    BY <1>2 DEF TbTypeOK
  <2>. QED  BY <1>1, <1>4, <2>1, QuietFacts
<1>. QED
    BY <1>1, <1>3, <1>4, <1>5, <1>7, <1>8, <1>9, <1>10, <1>11, QuietFacts, QuietStep

LEMMA ReceiverStep ==
  ASSUME BoardInv, get_receiver
  PROVE  BoardInv'
<1>1. /\ socket = "snapshot" /\ socket' = "subscribed" /\ channel' = << >>
      /\ UNCHANGED <<tasks, writer, registered, registering, edits, hooks, writes, cache,
                     snapshot, board, made, raced, plain>>
    BY DEF get_receiver
<1>2. channel = << >>
    BY <1>1 DEF BoardInv, NobodyListens
<1>3. channel' = channel
    BY <1>1, <1>2
<1>4. TbTypeOK'
    BY <1>1, <1>3 DEF BoardInv, TbTypeOK
<1>5. \A u \in Task : /\ Final(u)' = Final(u) /\ InFlight(u)' = InFlight(u)
                      /\ Ordinary(u)' = Ordinary(u) /\ Shown(u)' = Shown(u)
                      /\ Following
    BY <1>1 DEF Final, InFlight, Ordinary, Shown, Following
<1>6. HookIsLast' /\ ClientFollows'
    BY <1>1, <1>3, <1>5 DEF BoardInv, HookIsLast, ClientFollows
<1>7. ASSUME NEW u \in Task PROVE RowsOf(u)' \subseteq RowsOf(u) \cup {NoTask}
    BY <1>1, <1>3, <1>5, RowsAre, RowsQuiet
<1>8. /\ registering' \subseteq registering /\ registered' \subseteq registered \cup registering
      /\ registering' \cap registered' = {} /\ cache' \subseteq cache \cup registered
      /\ \A u \in registered' \ plain : board'[u] = NoTask
    BY <1>1, QuietFacts
<1>9. \A u \in cache' : u \in registered' \/ Final(u)' = NoTask
  <2>1. cache \subseteq Task
    BY DEF BoardInv, TbTypeOK
  <2>. QED  BY <1>1, <1>5, <2>1, QuietFacts
<1>. QED
    BY <1>1, <1>3, <1>4, <1>5, <1>6, <1>7, <1>8, <1>9, QuietFacts, QuietStep

(* The first message leaves out the agents' tasks and no ordinary one. *)
LEMMA SendSnapshotStep ==
  ASSUME BoardInv, SendSnapshot
  PROVE  BoardInv'
<1>1. /\ socket = "subscribed" /\ socket' = "open" /\ snapshot' = AllGone
      /\ cache' \subseteq cache \cup registered
      /\ UNCHANGED <<tasks, writer, registered, registering, edits, hooks, writes, channel,
                     made, raced, plain>>
    BY DEF SendSnapshot
<1>2. TbTypeOK
    BY DEF BoardInv
<1>3. board' = [t \in Task |-> IF is_agent_task(t, snapshot[t]) THEN NoTask ELSE snapshot[t]]
    BY DEF SendSnapshot
<1>4. \A u \in Task : /\ board'[u] = snapshot[u] \/ board'[u] = NoTask
                      /\ u \in registered => board'[u] = NoTask
                      /\ board'[u].status # "Agent"
                      /\ snapshot'[u] = NoTask
                      /\ u \notin cache \cup registered /\ snapshot[u].status # "Agent"
                           => board'[u] = snapshot[u]
    BY <1>1, <1>3, Cells DEF is_agent_task, AllGone
<1>5. TbTypeOK'
  <2>1. board' \in [Task -> Cell]
    BY <1>2, <1>3, Cells DEF TbTypeOK
  <2>2. snapshot' \in [Task -> Cell]
    BY <1>1, Cells DEF AllGone
  <2>. QED  BY <1>1, <1>2, <2>1, <2>2 DEF TbTypeOK
<1>6. \A u \in Task : /\ Final(u)' = Final(u) /\ InFlight(u)' = InFlight(u)
                      /\ Ordinary(u)' = Ordinary(u) /\ Shown(u)' = board'[u]
                      /\ Shown(u) = snapshot[u] /\ Following
    BY <1>1 DEF Final, InFlight, Ordinary, Shown, Following
<1>7. HookIsLast'
    BY <1>1, <1>6 DEF BoardInv, HookIsLast
<1>8. \A u \in Task : Ordinary(u) => Shown(u)' = Shown(u)
    BY <1>4, <1>6, QuietFacts, RowsAre DEF BoardInv, OrdinaryIsClear
<1>9. ClientFollows'
  <2>. SUFFICES ASSUME NEW u \in Task, u \notin raced
                PROVE  /\ Final(u) = NoTask => LeaveNone(channel, u, Shown(u)')
                       /\ Ordinary(u) =>
                          /\ Apply(channel, u, Shown(u)')
                          /\ \A n \in DOMAIN hooks : hooks[n].task = u /\ hooks[n].op = "replace"
                                => Present(channel, u, Shown(u)', Len(channel))
                          /\ ~InFlight(u) => Leave(channel, u, Shown(u)', Final(u))
    BY <1>1, <1>6 DEF ClientFollows
  <2>1. Final(u) = NoTask => LeaveNone(channel, u, snapshot[u])
    BY <1>6 DEF BoardInv, ClientFollows
  <2>2. Final(u) = NoTask => LeaveNone(channel, u, Shown(u)')
    BY <1>4, <1>6, <2>1 DEF LeaveNone
  <2>. QED  BY <1>6, <1>8, <2>2 DEF BoardInv, ClientFollows
<1>10. ASSUME NEW u \in Task PROVE RowsOf(u)' \subseteq RowsOf(u) \cup {NoTask}
    BY <1>1, <1>4, <1>6, RowsAre, RowsQuiet
<1>11. /\ registering' \subseteq registering /\ registered' \subseteq registered \cup registering
       /\ registering' \cap registered' = {}
       /\ \A u \in registered' \ plain : board'[u] = NoTask
       /\ \A u \in Task : board'[u].status # "Agent"
  <2>1. registered \subseteq Task
    BY <1>2 DEF TbTypeOK
  <2>. QED  BY <1>1, <1>4, <2>1, QuietFacts
<1>12. \A u \in cache' : u \in registered' \/ Final(u)' = NoTask
  <2>1. cache \subseteq Task
    BY <1>2 DEF TbTypeOK
  <2>. QED  BY <1>1, <1>6, <2>1, QuietFacts
<1>. QED
    BY <1>1, <1>5, <1>6, <1>7, <1>9, <1>10, <1>11, <1>12, QuietFacts, QuietStep

(* A patch of an ordinary task is applied; one of an agent's task is not. *)
LEMMA SendPatchStep ==
  ASSUME BoardInv, SendPatch
  PROVE  BoardInv'
<1>. DEFINE p == Head(channel)
            t == p.task
<1>1. /\ socket = "open" /\ channel # << >> /\ channel' = Tail(channel)
      /\ UNCHANGED <<tasks, writer, registered, registering, edits, hooks, writes, socket,
                     snapshot, made, raced, plain>>
    BY DEF SendPatch
<1>2. TbTypeOK /\ channel \in Seq(PatchOf) /\ board \in [Task -> Cell]
    BY DEF BoardInv, TbTypeOK
<1>3. /\ channel' \in Seq(PatchOf) /\ Len(channel') = Len(channel) - 1 /\ Len(channel) \in Nat
      /\ p = channel[1] /\ p \in PatchOf /\ 1 \in 1 .. Len(channel)
      /\ \A i \in 1 .. Len(channel') : \E j \in 1 .. Len(channel) : channel'[i] = channel[j]
    BY <1>1, <1>2, TailIs
<1>4. t \in Task /\ p.row \in Cell
    BY <1>3 DEF PatchOf
<1>5. p.op = "remove" => p.row = NoTask
    BY <1>3, QuietFacts
<1>6. /\ board' = board \/ board' = [board EXCEPT ![t] = p.row]
      /\ cache' = cache \/ cache' = cache \cup Learnt(t)
    BY DEF SendPatch, Applied
<1>7. cache' \subseteq cache \cup registered
    BY <1>6 DEF Learnt
<1>8. board' # board => p.op = "remove" \/ ~is_agent_task(t, p.row)
    BY DEF SendPatch, Applied
<1>9. /\ p.op = "remove" => board' = [board EXCEPT ![t] = p.row]
      /\ /\ p.op \in {"add", "replace"} /\ p.row # NoTask /\ ~is_agent_task(t, p.row)
         /\ p.op = "replace" => board[t] # NoTask
         => board' = [board EXCEPT ![t] = p.row]
    BY DEF SendPatch, Applied, stream_tasks_raw
<1>r. p.row \in RowsOf(t)
    BY <1>3, RowsAre
<1>. HIDE DEF p, t
<1>10. /\ \A u \in Task : u # t => board'[u] = board[u]
       /\ board'[t] = board[t] \/ board'[t] = p.row
       /\ board' \in [Task -> Cell]
    BY <1>2, <1>4, <1>6
<1>11. board'[t] # board[t] => board'[t] = p.row /\ (p.op = "remove" \/ ~is_agent_task(t, p.row))
    BY <1>8, <1>10
<1>12. TbTypeOK'
  <2>1. cache' \subseteq Task
    BY <1>2, <1>7 DEF TbTypeOK
  <2>2. Len(channel') <= Capacity
    BY <1>2, <1>3, TaskBoardAssumption DEF TbTypeOK
  <2>. QED  BY <1>1, <1>2, <1>3, <1>10, <2>1, <2>2 DEF TbTypeOK
<1>13. \A u \in Task : /\ Final(u)' = Final(u) /\ InFlight(u)' = InFlight(u)
                       /\ Ordinary(u)' = Ordinary(u) /\ Shown(u)' = board'[u]
                       /\ Shown(u) = board[u] /\ Following
    BY <1>1 DEF Final, InFlight, Ordinary, Shown, Following
<1>14. HookIsLast'
    BY <1>1, <1>13 DEF BoardInv, HookIsLast
<1>15. ClientFollows'
  <2>. SUFFICES ASSUME NEW u \in Task, u \notin raced
                PROVE  /\ Final(u) = NoTask => LeaveNone(channel', u, board'[u])
                       /\ Ordinary(u) =>
                          /\ Apply(channel', u, board'[u])
                          /\ \A n \in DOMAIN hooks : hooks[n].task = u /\ hooks[n].op = "replace"
                                => Present(channel', u, board'[u], Len(channel'))
                          /\ ~InFlight(u) => Leave(channel', u, board'[u], Final(u))
    BY <1>1, <1>13 DEF ClientFollows
  <2>. DEFINE s == board[u]
              r == Final(u)
  <2>1. /\ Final(u) = NoTask => LeaveNone(channel, u, s)
        /\ Ordinary(u) => /\ Apply(channel, u, s)
                          /\ \A n \in DOMAIN hooks : hooks[n].task = u /\ hooks[n].op = "replace"
                                => Present(channel, u, s, Len(channel))
                          /\ ~InFlight(u) => Leave(channel, u, s, r)
    BY <1>13 DEF BoardInv, ClientFollows
  <2>2. CASE u # t
    <3>1. /\ LeaveNone(channel, u, s) => LeaveNone(channel', u, s)
          /\ Apply(channel, u, s) => Apply(channel', u, s)
          /\ Leave(channel, u, s, r) => Leave(channel', u, s, r)
          /\ Present(channel, u, s, Len(channel)) => Present(channel', u, s, Len(channel'))
      BY <1>1, <1>2, <2>2, TailOther DEF t, p
    <3>. QED  BY <1>10, <2>1, <2>2, <3>1
  <2>3. CASE u = t
    <3>1. /\ \A z : LeaveNone(channel, u, s) /\ (p.op = "remove" => z = NoTask)
                      => LeaveNone(channel', u, z)
          /\ Apply(channel, u, s) => /\ Apply(channel', u, p.row) /\ p.row # NoTask
                                     /\ Present(channel', u, p.row, Len(channel'))
                                     /\ p.op \in {"add", "replace"}
                                     /\ p.op = "replace" => s # NoTask
          /\ Leave(channel, u, s, r) => Leave(channel', u, p.row, r)
      BY <1>1, <1>2, <2>3, TailOwn DEF t, p
    <3>2. p.op = "remove" => board'[u] = NoTask
      BY <1>2, <1>4, <1>5, <1>9, <2>3
    <3>3. Final(u) = NoTask => LeaveNone(channel', u, board'[u])
      BY <2>1, <3>1, <3>2
    <3>4. ASSUME Ordinary(u) PROVE board'[u] = p.row
      <4>1. ~is_agent_task(t, p.row)
        BY <1>r, <2>3, <3>4, QuietFacts DEF is_agent_task, BoardInv, OrdinaryIsClear
      <4>2. board' = [board EXCEPT ![t] = p.row]
        BY <1>9, <2>1, <2>3, <3>1, <3>4, <4>1
      <4>. QED  BY <1>2, <1>4, <2>3, <4>2
    <3>. QED  BY <2>1, <3>1, <3>3, <3>4
  <2>. QED  BY <2>2, <2>3
<1>16. ASSUME NEW u \in Task PROVE RowsOf(u)' \subseteq RowsOf(u) \cup {NoTask}
  <2>1. board'[u] \in RowsOf(u)
    BY <1>10, <1>r, RowsAre
  <2>2. \A i \in 1 .. Len(channel') : channel'[i].task = u => channel'[i].row \in RowsOf(u)
    BY <1>3, RowsAre
  <2>. QED  BY <1>1, <1>13, <2>1, <2>2, RowsAre, RowsQuiet
<1>17. \A i \in 1 .. Len(channel') :
         channel'[i].task \in made /\ (channel'[i].op = "remove" => channel'[i].row = NoTask)
    BY <1>3, QuietFacts
<1>18. \A u \in registered \ plain : board'[u] = NoTask
  <2>1. registered \subseteq Task
    BY <1>2 DEF TbTypeOK
  <2>. QED  BY <1>5, <1>10, <1>11, <2>1, QuietFacts DEF is_agent_task
<1>19. \A u \in Task : board'[u].status # "Agent"
    BY <1>5, <1>10, <1>11, QuietFacts, Cells DEF is_agent_task
<1>20. \A u \in cache' : u \in registered' \/ Final(u)' = NoTask
  <2>1. cache \subseteq Task
    BY <1>2 DEF TbTypeOK
  <2>. QED  BY <1>1, <1>7, <1>13, <2>1, QuietFacts
<1>21. /\ registering' \subseteq registering /\ registered' \subseteq registered \cup registering
       /\ registering' \cap registered' = {}
    BY <1>1, QuietFacts
<1>. QED
    BY <1>1, <1>7, <1>12, <1>13, <1>14, <1>15, <1>16, <1>17, <1>18, <1>19, <1>20, <1>21, QuietStep

LEMMA CloseStep ==
  ASSUME BoardInv, CloseSocket
  PROVE  BoardInv'
<1>1. /\ socket' = "closed" /\ cache' = {} /\ channel' = << >> /\ board' = AllGone
      /\ UNCHANGED <<tasks, writer, registered, registering, edits, hooks, writes, snapshot,
                     made, raced, plain>>
    BY DEF CloseSocket
<1>2. TbTypeOK
    BY DEF BoardInv
<1>3. \A u \in Task : board'[u] = NoTask
    BY <1>1 DEF AllGone
<1>4. channel' \in Seq(PatchOf) /\ Len(channel') = 0 /\ 1 .. Len(channel') = {}
    BY <1>1
<1>5. TbTypeOK'
  <2>1. board' \in [Task -> Cell]
    BY <1>1, Cells DEF AllGone
  <2>2. Len(channel') <= Capacity
    BY <1>4, TaskBoardAssumption
  <2>. QED  BY <1>1, <1>2, <1>4, <2>1, <2>2 DEF TbTypeOK
<1>6. \A u \in Task : /\ Final(u)' = Final(u) /\ InFlight(u)' = InFlight(u)
                      /\ Ordinary(u)' = Ordinary(u)
    BY <1>1 DEF Final, InFlight, Ordinary
<1>7. HookIsLast' /\ ClientFollows'
    BY <1>1, <1>6 DEF BoardInv, HookIsLast, ClientFollows, Following
<1>8. ASSUME NEW u \in Task PROVE RowsOf(u)' \subseteq RowsOf(u) \cup {NoTask}
    BY <1>1, <1>3, <1>4, <1>6, RowsAre, RowsQuiet
<1>9. /\ registering' \subseteq registering /\ registered' \subseteq registered \cup registering
      /\ registering' \cap registered' = {} /\ cache' \subseteq cache \cup registered
      /\ \A u \in registered' \ plain : board'[u] = NoTask
      /\ \A u \in Task : board'[u].status # "Agent"
  <2>1. registered \subseteq Task
    BY <1>2 DEF TbTypeOK
  <2>. QED  BY <1>1, <1>3, <2>1, QuietFacts, Cells
<1>. QED
    BY <1>1, <1>4, <1>5, <1>6, <1>7, <1>8, <1>9, QuietStep

-----------------------------------------------------------------------------
LEMMA BoardInit ==
  ASSUME TbInit
  PROVE  BoardInv
<1>1. /\ tasks = AllGone /\ edits = AllGone /\ snapshot = AllGone /\ board = AllGone
      /\ writer = NoWrite /\ registered = {} /\ registering = {} /\ cache = {} /\ made = {}
      /\ raced = {} /\ plain = {} /\ hooks = << >> /\ writes = 0 /\ channel = << >>
      /\ socket = "closed"
    BY DEF TbInit
<1>2. DOMAIN hooks = {} /\ hooks \in [DOMAIN hooks -> HookOf]
    BY <1>1
<1>3. channel \in Seq(PatchOf) /\ Len(channel) = 0 /\ 1 .. Len(channel) = {}
    BY <1>1
<1>4. AllGone \in [Task -> Cell] /\ \A u \in Task : AllGone[u] = NoTask
    BY Cells DEF AllGone
<1>5. TbTypeOK
    BY <1>1, <1>2, <1>3, <1>4, TaskBoardAssumption DEF TbTypeOK
<1>6. \A u \in Task : Final(u) = NoTask /\ writer.task # u
    BY <1>1, <1>4, <1>5, FinalIs
<1>7. \A u \in Task : ~InFlight(u) /\ \A r \in RowsOf(u) : r = NoTask
    BY <1>1, <1>2, <1>3, <1>4, <1>6 DEF InFlight, RowsOf
<1>8. NewIsUnknown /\ PatchHasRow /\ NobodyListens /\ AgentsAreKnown
    BY <1>1, <1>3, <1>4, <1>7, Cells DEF NewIsUnknown, PatchHasRow, NobodyListens, AgentsAreKnown
<1>9. OrdinaryIsClear /\ HookIsLast /\ ClientFollows
    BY <1>1, <1>2, <1>6 DEF OrdinaryIsClear, HookIsLast, ClientFollows, Ordinary, Following
<1>. QED
    BY <1>5, <1>8, <1>9 DEF BoardInv

LEMMA BoardStep ==
  ASSUME BoardInv, [TbNext]_tbVars
  PROVE  BoardInv'
<1>1. CASE UNCHANGED tbVars
  <2>1. UNCHANGED <<tasks, writer, registered, registering, edits, hooks, writes, socket, cache,
                    snapshot, channel, board, made, raced, plain>>
    BY <1>1 DEF tbVars
  <2>2. edits' \in [Task -> Cell] /\ \A u \in Task : edits'[u] \in {edits[u], tasks[u], NoTask}
    BY <2>1 DEF BoardInv, TbTypeOK
  <2>. QED  BY <2>1, <2>2, EditStep
<1>2. CASE Commit
    BY <1>2, CommitStep
<1>3. ASSUME NEW t \in Task, create_task(t) \/ create_task_and_start(t) \/ create_forge_agent(t)
      PROVE  BoardInv'
    BY <1>3, CreateStep
<1>4. ASSUME NEW t \in Task, RegisterAgent(t) PROVE BoardInv'
    BY <1>4, RegisterStep
<1>5. ASSUME NEW t \in Task, load_task_middleware(t) PROVE BoardInv'
    BY <1>5, LoadStep
<1>6. ASSUME NEW t \in Task, NEW want \in UserStatus \cup {"keep"}, update_task(t, want)
      PROVE  BoardInv'
  <2>1. want \in Status \cup {"keep"}
    BY DEF UserStatus, Status
  <2>. QED  BY <1>6, <2>1, UpdateStep
<1>7. ASSUME NEW t \in Task, NEW text, mcp_update_task(t, text) PROVE BoardInv'
  <2>1. PICK s \in FromStr(text) : update_task(t, s)
    BY <1>7 DEF mcp_update_task
  <2>2. s \in Status \cup {"keep"}
    BY DEF FromStr
  <2>. QED  BY <2>1, <2>2, UpdateStep
<1>8. ASSUME NEW t \in Task, push_task_update_for_attempt(t) PROVE BoardInv'
    BY <1>8, ProcessStep
<1>9. ASSUME NEW t \in Task, delete_task_row(t) PROVE BoardInv'
    BY <1>9, DeleteStep
<1>10. ASSUME NEW n, HookReads(n) PROVE BoardInv'
    BY <1>10, HookReadsStep
<1>11. ASSUME NEW n, HookPushes(n) PROVE BoardInv'
    BY <1>11, HookPushesStep
<1>12. CASE stream_tasks_ws \/ RefreshCache
    BY <1>12, CacheStep
<1>13. CASE ReadSnapshot
    BY <1>13, SnapshotStep
<1>14. CASE get_receiver
    BY <1>14, ReceiverStep
<1>15. CASE SendSnapshot
    BY <1>15, SendSnapshotStep
<1>16. CASE SendPatch
    BY <1>16, SendPatchStep
<1>17. CASE CloseSocket
    BY <1>17, CloseStep
<1>. QED
    BY <1>1, <1>2, <1>3, <1>4, <1>5, <1>6, <1>7, <1>8, <1>9, <1>10, <1>11, <1>12, <1>13, <1>14,
       <1>15, <1>16, <1>17 DEF TbNext

(* The inductive invariant holds in every reachable state: hooks, patches and
   the board of one socket are bound to the rows the handlers write. *)
THEOREM BoardInvariant == TbSpec => []BoardInv
<1>. QED
    BY BoardInit, BoardStep, PTL DEF TbSpec

(* No order of the handlers of agents' tasks, the hooks, the cache and the
   messages of handle_kanban_tasks_ws puts an agent's task on the board. *)
THEOREM HiddenTheorem == TbSpec => []KanbanHidesAgents
<1>1. ASSUME BoardInv PROVE KanbanHidesAgents
    BY <1>1, QuietFacts DEF KanbanHidesAgents
<1>. QED
    BY <1>1, BoardInvariant, PTL

(* With nothing under way the board shows the table, except for a task that met
   one of the races BoardInStep names: whatever the number of tasks and writes,
   and however full the receiver's channel gets. *)
THEOREM InStepTheorem == TbSpec => []BoardInStep
<1>1. ASSUME BoardInv PROVE BoardInStep
  <2>. SUFFICES ASSUME socket = "open", channel = << >>, hooks = << >>, writer = NoWrite,
                       NEW t \in Task, t \notin raced, tasks[t].status # "Agent",
                       t \notin registered \cup plain
                PROVE  board[t] = tasks[t]
    BY DEF BoardInStep
  <2>1. Final(t) = tasks[t] /\ Shown(t) = board[t] /\ Following
    BY <1>1, FinalIs DEF BoardInv, Shown, Following
  <2>2. DOMAIN hooks = {} /\ ~InFlight(t)
    BY DEF InFlight
  <2>3. NoneOf(channel, t)
    BY EmptyLeads
  <2>4. CASE tasks[t] = NoTask
    BY <1>1, <2>1, <2>3, <2>4 DEF BoardInv, ClientFollows, LeaveNone
  <2>5. CASE tasks[t] # NoTask
    <3>1. Ordinary(t)
      BY <2>1, <2>5 DEF Ordinary
    <3>2. Leave(channel, t, board[t], tasks[t])
      BY <1>1, <2>1, <2>2, <3>1 DEF BoardInv, ClientFollows
    <3>. QED  BY <2>3, <3>2 DEF Leave
  <2>. QED  BY <2>4, <2>5
<1>. QED
    BY <1>1, BoardInvariant, PTL

=============================================================================
