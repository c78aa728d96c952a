------------------------- MODULE ConversationProofs -------------------------
(***************************************************************************)
(* A replace changes the entry it was made for (OwnEntry), whichever agent *)
(* runs, for every set of calls and every number of lines and chunks.      *)
(*                                                                         *)
(* Three things could confuse two entries: a normaliser that remembers a   *)
(* handle twice or after it was given up, two tasks with the same index,   *)
(* and an add that moves the entries above its index.  Fit says what one   *)
(* line may ask for, and is shown of every handler of every normaliser.    *)
(* Apart is the invariant of the tasks: a handle a normaliser still holds  *)
(* has its entry or will get it, what a task has still to do is in an      *)
(* order that finds its entries (Ready), and the indexes that were taken   *)
(* and not yet used are different, below the provider's, and free.         *)
(* While Amp replays a thread the provider starts again under entries that *)
(* are still shown; ErrInReplay and WipeAlone say why that is safe.        *)
(***************************************************************************)
EXTENDS Conversation, TLAPS

-----------------------------------------------------------------------------
(* The handles a normaliser may still use.                                 *)
ClaudeLive(s) == ({s.tools[c] : c \in Call} \cup {s.blocks[b].h : b \in Block}) \ {0}
CodexLive(s) == ({s.asst, s.think} \cup {s.held[c] : c \in Call}
                   \cup UNION {{s.patches[c][i] : i \in 1 .. Len(s.patches[c])} : c \in Call}) \ {0}
ChatLive(s) == ({s.asst, s.think} \cup {s.tools[c] : c \in Call}) \ {0}
OpencodeLive(s) == ({s.shown[k] : k \in Segment} \cup {s.tools[c] : c \in Call}) \ {0}
PlainLive(p) == {p.cur} \ {0}

OutLive(a, s) ==
  CASE a \in {"claude", "amp"} -> ClaudeLive(s)
    [] a = "codex" -> CodexLive(s)
    [] a \in {"cursor", "acp"} -> ChatLive(s)
    [] a = "opencode" -> OpencodeLive(s)
    [] a = "copilot" -> PlainLive(s.p)

Live(t) == IF t = "out" THEN OutLive(agent, st) ELSE PlainLive(err)

(* q has a step op for the handle h, or has it before its place i.         *)
Has(q, op, h) == \E i \in 1 .. Len(q) : q[i].op = op /\ q[i].who = h
HasBefore(q, i, op, h) == \E j \in 1 .. Len(q) : j < i /\ q[j].op = op /\ q[j].who = h
HasOp(q, op) == \E i \in 1 .. Len(q) : q[i].op = op
OnceOnly(q, i) ==
  \A j \in 1 .. Len(q) : q[j].op = q[i].op /\ q[j].who = q[i].who => j = i

(* What a list of steps may do when the handles in taken have an index and *)
(* those in own an entry.                                                  *)
Ready(q, taken, own) ==
  \A i \in 1 .. Len(q) :
    \/ q[i].op = "take" /\ OnceOnly(q, i) /\ q[i].who \notin taken
    \/ /\ q[i].op = "add" /\ OnceOnly(q, i)
       /\ \A j \in 1 .. Len(q) : q[j].op = "wipe" => j < i
       /\ \/ HasBefore(q, i, "take", q[i].who)
          \/ q[i].who \in taken /\ ~Has(q, "take", q[i].who)
    \/ /\ q[i].op = "replace" /\ ~HasOp(q, "wipe")
       /\ q[i].who \in own \/ HasBefore(q, i, "add", q[i].who)
    \/ q[i].op = "remove"
    \/ /\ q[i].op = "reset" /\ i = 1 /\ HasOp(q, "wipe")
       /\ \A j \in 1 .. Len(q) : q[j].op = "add" => Has(q, "take", q[j].who)
    \/ q[i].op = "wipe"

-----------------------------------------------------------------------------
(* Lists of steps.                                                         *)

IsOps(q) == \E S : q \in Seq(S)

(* The rest of a list of steps is a list of steps.                         *)
LEMMA TailIs ==
  ASSUME NEW q, IsOps(q), q # <<>>
  PROVE  /\ IsOps(Tail(q)) /\ Len(q) \in Nat /\ Len(q) >= 1 /\ Len(Tail(q)) = Len(q) - 1
         /\ \A i \in 1 .. Len(Tail(q)) : Tail(q)[i] = q[i + 1]
         /\ Head(q) = q[1]
<1>1. PICK S : q \in Seq(S)
  BY DEF IsOps
<1>2. Tail(q) \in Seq(S)
  BY <1>1
<1> QED
  BY <1>1, <1>2 DEF IsOps

(* A step of a list is its first one or one of the rest.                   *)
LEMMA HasTail ==
  ASSUME NEW q, IsOps(q), q # <<>>
  PROVE  /\ \A op, h : Has(q, op, h) <=> (Head(q).op = op /\ Head(q).who = h) \/ Has(Tail(q), op, h)
         /\ \A op : HasOp(q, op) <=> Head(q).op = op \/ HasOp(Tail(q), op)
<1> DEFINE r == Tail(q)
<1>1. /\ Len(q) \in Nat /\ Len(q) >= 1 /\ Len(r) = Len(q) - 1
      /\ \A i \in 1 .. Len(r) : r[i] = q[i + 1]
      /\ Head(q) = q[1]
  BY TailIs
<1> HIDE DEF r
<1>2. \A i \in 1 .. Len(q) : i = 1 \/ (i - 1 \in 1 .. Len(r) /\ r[i - 1] = q[i])
  <2> TAKE i \in 1 .. Len(q)
  <2>1. CASE i # 1
    <3>1. i - 1 \in 1 .. Len(r) /\ (i - 1) + 1 = i
      BY <1>1, <2>1
    <3> QED
      BY <1>1, <3>1
  <2> QED
    BY <2>1
<1>3. \A i \in 1 .. Len(r) : i + 1 \in 1 .. Len(q) /\ r[i] = q[i + 1]
  BY <1>1
<1>4. 1 \in 1 .. Len(q)
  BY <1>1
<1>5. ASSUME NEW op, NEW h
      PROVE Has(q, op, h) <=> (Head(q).op = op /\ Head(q).who = h) \/ Has(r, op, h)
  BY <1>1, <1>2, <1>3, <1>4 DEF Has
<1>6. ASSUME NEW op
      PROVE HasOp(q, op) <=> Head(q).op = op \/ HasOp(r, op)
  BY <1>1, <1>2, <1>3, <1>4 DEF HasOp
<1> QED
  BY <1>5, <1>6 DEF r

-----------------------------------------------------------------------------
(* The tasks together.  None of this is asked once entries have moved.     *)

(* h of task t has its entry.                                              *)
Own(t, h) == /\ h \in DOMAIN idx[t] /\ idx[t][h] \in DOMAIN doc
             /\ doc[idx[t][h]].task = t /\ doc[idx[t][h]].who = h

Owned(t) == {h \in DOMAIN idx[t] : Own(t, h)}

(* h of task t has an index and will be added.                             *)
Reserved(t, h) == /\ h \in DOMAIN idx[t] /\ Has(todo[t], "add", h) /\ ~Has(todo[t], "take", h)

LastHandle(t) == IF t = "out" THEN st.n ELSE err.n

HandlesBelow ==
  \A t \in Task : /\ DOMAIN idx[t] \subseteq 1 .. LastHandle(t)
                  /\ \A h : Has(todo[t], "take", h) => h \in 1 .. LastHandle(t)

TodoReady == \A t \in Task : Ready(todo[t], DOMAIN idx[t], Owned(t))

LiveOwned == \A t \in Task : \A h \in Live(t) : Own(t, h) \/ Has(todo[t], "add", h)

ReservedApart ==
  /\ \A t \in Task : \A h \in DOMAIN idx[t] : Reserved(t, h) => idx[t][h] < next
  /\ \A t, u \in Task : \A h \in DOMAIN idx[t], k \in DOMAIN idx[u] :
       Reserved(t, h) /\ Reserved(u, k) /\ idx[t][h] = idx[u][k] => t = u /\ h = k

(* Amp's replay: the provider is reset and the entries are still there.    *)
Replaying == HasOp(todo["out"], "wipe") /\ ~HasOp(todo["out"], "reset")

BelowNext ==
  ~Replaying =>
    /\ \A i \in DOMAIN doc : i < next
    /\ \A t \in Task : \A h \in DOMAIN idx[t] : Reserved(t, h) => idx[t][h] \notin DOMAIN doc

(* While it replays, the stderr task has no index of an earlier time.      *)
ErrInReplay ==
  Replaying =>
    /\ \A h \in DOMAIN idx["err"] : idx["err"][h] < next
    /\ \A h, k \in DOMAIN idx["err"] : Reserved("err", h) /\ h # k => idx["err"][k] < idx["err"][h]

(* Only the stdout task replays, and then it has forgotten every handle;   *)
(* a chunk of stderr makes at most one entry.                              *)
WipeAlone ==
  /\ HasOp(todo["out"], "wipe") => Live("out") = {}
  /\ ~HasOp(todo["err"], "wipe")
  /\ \A h : Has(todo["err"], "take", h) => Has(todo["err"], "add", h)
  /\ \A h, k : Has(todo["err"], "add", h) /\ Has(todo["err"], "add", k) => h = k

Shape == /\ DOMAIN todo = Task /\ DOMAIN idx = Task /\ next \in Nat /\ DOMAIN doc \subseteq Nat
         /\ \A t \in Task : IsOps(todo[t]) /\ \A h \in DOMAIN idx[t] : idx[t][h] \in Nat

Apart == /\ Shape /\ HandlesBelow /\ TodoReady /\ LiveOwned /\ ReservedApart /\ BelowNext /\ ErrInReplay
         /\ WipeAlone /\ ~stray

-----------------------------------------------------------------------------
(* A list of steps is ready for what it finds when its first step is done. *)

(* A list stays ready when more entries are there.                         *)
LEMMA ReadyMore ==
  ASSUME NEW q, NEW taken, NEW own, NEW more, own \subseteq more, Ready(q, taken, own)
  PROVE  Ready(q, taken, more)
BY DEF Ready

(* A list that takes what it adds is ready whatever index is taken away.   *)
LEMMA ReadyLess ==
  ASSUME NEW q, NEW taken, NEW less, NEW own, less \subseteq taken, Ready(q, taken, own),
         \A h : Has(q, "add", h) => Has(q, "take", h)
  PROVE  Ready(q, less, own)
<1> SUFFICES ASSUME NEW i \in 1 .. Len(q), q[i].op = "add", q[i].who \in taken,
                    ~Has(q, "take", q[i].who)
             PROVE  FALSE
  BY DEF Ready
<1>1. Has(q, "add", q[i].who)
  BY DEF Has
<1> QED
  BY <1>1

(* What is before a place in the tail is before the next place.            *)
LEMMA BeforeTail ==
  ASSUME NEW q, IsOps(q), q # <<>>, NEW i \in 1 .. Len(Tail(q)), NEW op, NEW h
  PROVE  HasBefore(q, i + 1, op, h) <=>
           (Head(q).op = op /\ Head(q).who = h) \/ HasBefore(Tail(q), i, op, h)
<1> DEFINE r == Tail(q)
<1>1. /\ Len(q) \in Nat /\ Len(q) >= 1 /\ Len(r) = Len(q) - 1
      /\ \A j \in 1 .. Len(r) : r[j] = q[j + 1]
      /\ Head(q) = q[1]
  BY TailIs
<1> HIDE DEF r
<1>2. \A j \in 1 .. Len(q) : j = 1 \/ (j - 1 \in 1 .. Len(r) /\ r[j - 1] = q[j])
  <2> TAKE j \in 1 .. Len(q)
  <2>1. CASE j # 1
    <3>1. j - 1 \in 1 .. Len(r) /\ (j - 1) + 1 = j
      BY <1>1, <2>1
    <3> QED
      BY <1>1, <3>1
  <2> QED
    BY <2>1
<1>3. \A j \in 1 .. Len(r) : j + 1 \in 1 .. Len(q) /\ r[j] = q[j + 1]
  BY <1>1
<1>4. 1 \in 1 .. Len(q) /\ i \in 1 .. Len(r)
  BY <1>1 DEF r
<1>5. HasBefore(q, i + 1, op, h) => (Head(q).op = op /\ Head(q).who = h) \/ HasBefore(r, i, op, h)
  <2> SUFFICES ASSUME NEW j \in 1 .. Len(q), j < i + 1, q[j].op = op, q[j].who = h
               PROVE  (Head(q).op = op /\ Head(q).who = h) \/ HasBefore(r, i, op, h)
    BY DEF HasBefore
  <2>1. CASE j = 1
    BY <1>1, <2>1
  <2>2. CASE j # 1
    <3>1. j - 1 \in 1 .. Len(r) /\ r[j - 1] = q[j] /\ j - 1 < i
      BY <1>2, <1>4, <2>2
    <3> QED
      BY <3>1 DEF HasBefore
  <2> QED
    BY <2>1, <2>2
<1>6. (Head(q).op = op /\ Head(q).who = h) \/ HasBefore(r, i, op, h) => HasBefore(q, i + 1, op, h)
  <2>1. ASSUME Head(q).op = op, Head(q).who = h PROVE HasBefore(q, i + 1, op, h)
    BY <1>1, <1>4, <2>1 DEF HasBefore
  <2>2. ASSUME NEW j \in 1 .. Len(r), j < i, r[j].op = op, r[j].who = h
        PROVE  HasBefore(q, i + 1, op, h)
    <3>1. j + 1 \in 1 .. Len(q) /\ r[j] = q[j + 1] /\ j + 1 < i + 1
      BY <1>3, <1>4, <2>2
    <3> QED
      BY <2>2, <3>1 DEF HasBefore
  <2> QED
    BY <2>1, <2>2 DEF HasBefore
<1> QED
  BY <1>5, <1>6 DEF r

(* A step that occurs once occurs once in the rest.                        *)
LEMMA OnceTail ==
  ASSUME NEW q, IsOps(q), q # <<>>, NEW i \in 1 .. Len(Tail(q)), OnceOnly(q, i + 1)
  PROVE  /\ OnceOnly(Tail(q), i)
         /\ ~(Head(q).op = Tail(q)[i].op /\ Head(q).who = Tail(q)[i].who)
<1> DEFINE r == Tail(q)
<1>1. /\ Len(q) \in Nat /\ Len(q) >= 1 /\ Len(r) = Len(q) - 1
      /\ \A j \in 1 .. Len(r) : r[j] = q[j + 1]
      /\ Head(q) = q[1]
  BY TailIs
<1> HIDE DEF r
<1>2. i \in 1 .. Len(r) /\ r[i] = q[i + 1]
  BY <1>1 DEF r
<1>3. ASSUME NEW j \in 1 .. Len(r), r[j].op = r[i].op, r[j].who = r[i].who PROVE j = i
  <2>1. j + 1 \in 1 .. Len(q) /\ r[j] = q[j + 1]
    BY <1>1
  <2>2. j + 1 = i + 1
    BY <1>2, <1>3, <2>1 DEF OnceOnly
  <2> QED
    BY <1>2, <2>2
<1>4. 1 \in 1 .. Len(q) /\ 1 # i + 1
  BY <1>1, <1>2
<1>5. ~(Head(q).op = r[i].op /\ Head(q).who = r[i].who)
  BY <1>1, <1>2, <1>4 DEF OnceOnly
<1> QED
  BY <1>3, <1>5 DEF OnceOnly, r

(* The first step is the only one of its kind for its handle.              *)
LEMMA FirstOnce ==
  ASSUME NEW q, IsOps(q), q # <<>>, OnceOnly(q, 1)
  PROVE  ~Has(Tail(q), Head(q).op, Head(q).who)
<1>1. /\ Len(q) \in Nat /\ Len(q) >= 1 /\ Len(Tail(q)) = Len(q) - 1
      /\ \A j \in 1 .. Len(Tail(q)) : Tail(q)[j] = q[j + 1]
      /\ Head(q) = q[1]
  BY TailIs
<1> SUFFICES ASSUME NEW j \in 1 .. Len(Tail(q)), Tail(q)[j].op = Head(q).op, Tail(q)[j].who = Head(q).who
             PROVE  FALSE
  BY DEF Has
<1>2. j + 1 \in 1 .. Len(q) /\ Tail(q)[j] = q[j + 1] /\ j + 1 # 1
  BY <1>1
<1> QED
  BY <1>1, <1>2 DEF OnceOnly

(* Doing the first step leaves the rest ready for what it finds then.      *)
LEMMA ReadyTail ==
  ASSUME NEW q, IsOps(q), q # <<>>, NEW taken, NEW own, Ready(q, taken, own), NEW taken2, NEW own2,
         taken \subseteq taken2,
         \A h \in taken2 \ taken : Head(q).op = "take" /\ h = Head(q).who,
         Head(q).op = "take" => Head(q).who \in taken2,
         HasOp(q, "wipe") \/ own \subseteq own2,
         HasOp(q, "wipe") \/ Head(q).op # "add" \/ Head(q).who \in own2
  PROVE  Ready(Tail(q), taken2, own2)
<1> DEFINE r == Tail(q)
<1>1. /\ Len(q) \in Nat /\ Len(q) >= 1 /\ Len(r) = Len(q) - 1
      /\ \A j \in 1 .. Len(r) : r[j] = q[j + 1]
      /\ Head(q) = q[1]
  BY TailIs
<1>2. /\ \A op, h : Has(q, op, h) <=> (Head(q).op = op /\ Head(q).who = h) \/ Has(r, op, h)
      /\ \A op : HasOp(q, op) <=> Head(q).op = op \/ HasOp(r, op)
  BY HasTail
<1> SUFFICES ASSUME NEW i \in 1 .. Len(r)
             PROVE  \/ r[i].op = "take" /\ OnceOnly(r, i) /\ r[i].who \notin taken2
                    \/ /\ r[i].op = "add" /\ OnceOnly(r, i)
                       /\ \A j \in 1 .. Len(r) : r[j].op = "wipe" => j < i
                       /\ \/ HasBefore(r, i, "take", r[i].who)
                          \/ r[i].who \in taken2 /\ ~Has(r, "take", r[i].who)
                    \/ /\ r[i].op = "replace" /\ ~HasOp(r, "wipe")
                       /\ r[i].who \in own2 \/ HasBefore(r, i, "add", r[i].who)
                    \/ r[i].op = "remove"
                    \/ /\ r[i].op = "reset" /\ i = 1 /\ HasOp(r, "wipe")
                       /\ \A j \in 1 .. Len(r) : r[j].op = "add" => Has(r, "take", r[j].who)
                    \/ r[i].op = "wipe"
  BY DEF Ready
<1> DEFINE k == i + 1
<1>3. k \in 1 .. Len(q) /\ r[i] = q[k] /\ i \in 1 .. Len(Tail(q))
  BY <1>1
<1>4. \A op, h : HasBefore(q, k, op, h) <=> (Head(q).op = op /\ Head(q).who = h) \/ HasBefore(r, i, op, h)
  BY <1>3, BeforeTail
<1>5. OnceOnly(q, k) => OnceOnly(r, i) /\ ~(Head(q).op = r[i].op /\ Head(q).who = r[i].who)
  BY <1>3, OnceTail
<1>6. i \in Nat /\ k # 1
  BY <1>3
<1>7. \A j \in 1 .. Len(r) : j + 1 \in 1 .. Len(q) /\ r[j] = q[j + 1] /\ (j + 1 < k => j < i)
  BY <1>1, <1>6
<1> HIDE DEF r, k
<1>8. \/ q[k].op = "take" /\ OnceOnly(q, k) /\ q[k].who \notin taken
      \/ /\ q[k].op = "add" /\ OnceOnly(q, k)
         /\ \A j \in 1 .. Len(q) : q[j].op = "wipe" => j < k
         /\ \/ HasBefore(q, k, "take", q[k].who)
            \/ q[k].who \in taken /\ ~Has(q, "take", q[k].who)
      \/ /\ q[k].op = "replace" /\ ~HasOp(q, "wipe")
         /\ q[k].who \in own \/ HasBefore(q, k, "add", q[k].who)
      \/ q[k].op = "remove"
      \/ q[k].op = "reset" /\ k = 1
      \/ q[k].op = "wipe"
  BY <1>3 DEF Ready
<1>9. CASE q[k].op = "take" /\ OnceOnly(q, k) /\ q[k].who \notin taken
  BY <1>3, <1>5, <1>9
<1>10. CASE /\ q[k].op = "add" /\ OnceOnly(q, k)
            /\ \A j \in 1 .. Len(q) : q[j].op = "wipe" => j < k
            /\ \/ HasBefore(q, k, "take", q[k].who)
               \/ q[k].who \in taken /\ ~Has(q, "take", q[k].who)
  <2>1. \A j \in 1 .. Len(r) : r[j].op = "wipe" => j < i
    BY <1>7, <1>10
  <2>2. CASE Head(q).op = "take" /\ Head(q).who = q[k].who
    <3>1. 1 \in 1 .. Len(q) /\ q[1].op = "take"
      BY <1>1, <2>2
    <3>2. OnceOnly(q, 1)
      BY <3>1 DEF Ready
    <3>3. ~Has(Tail(q), Head(q).op, Head(q).who)
      BY <3>2, FirstOnce
    <3> QED
      BY <1>3, <1>5, <1>10, <2>1, <2>2, <3>3 DEF r
  <2>3. CASE ~(Head(q).op = "take" /\ Head(q).who = q[k].who)
    BY <1>2, <1>3, <1>4, <1>5, <1>10, <2>1, <2>3
  <2> QED
    BY <2>2, <2>3
<1>11. CASE /\ q[k].op = "replace" /\ ~HasOp(q, "wipe")
            /\ q[k].who \in own \/ HasBefore(q, k, "add", q[k].who)
  BY <1>2, <1>3, <1>4, <1>11
<1> QED
  BY <1>3, <1>6, <1>8, <1>9, <1>10, <1>11

-----------------------------------------------------------------------------
(* One step of a task.                                                     *)

(* What Ready says of the first step.                                      *)
LEMMA FirstIs ==
  ASSUME NEW q, IsOps(q), q # <<>>, NEW taken, NEW own, Ready(q, taken, own)
  PROVE  LET o == Head(q) IN
         /\ o.op = "take" => o.who \notin taken /\ ~Has(Tail(q), "take", o.who)
         /\ o.op = "add" => /\ o.who \in taken /\ ~Has(q, "take", o.who) /\ ~HasOp(q, "wipe")
                            /\ ~Has(Tail(q), "add", o.who)
         /\ o.op = "replace" => o.who \in own /\ ~HasOp(q, "wipe")
         /\ o.op = "reset" => /\ HasOp(q, "wipe") /\ ~HasOp(Tail(q), "reset")
                              /\ \A h : Has(q, "add", h) => Has(q, "take", h)
<1>1. /\ Len(q) \in Nat /\ Len(q) >= 1 /\ Head(q) = q[1] /\ 1 \in 1 .. Len(q)
      /\ Len(Tail(q)) = Len(q) - 1
      /\ \A j \in 1 .. Len(Tail(q)) : Tail(q)[j] = q[j + 1]
  BY TailIs
<1>2. \A op, h : ~HasBefore(q, 1, op, h)
  BY <1>1 DEF HasBefore
<1>3. ASSUME Head(q).op = "take"
      PROVE  Head(q).who \notin taken /\ ~Has(Tail(q), "take", Head(q).who)
  <2>1. OnceOnly(q, 1) /\ Head(q).who \notin taken
    BY <1>1, <1>3 DEF Ready
  <2> QED
    BY <1>3, <2>1, FirstOnce
<1>4. ASSUME Head(q).op = "add"
      PROVE  /\ Head(q).who \in taken /\ ~Has(q, "take", Head(q).who) /\ ~HasOp(q, "wipe")
             /\ ~Has(Tail(q), "add", Head(q).who)
  <2>1. OnceOnly(q, 1) /\ Head(q).who \in taken /\ ~Has(q, "take", Head(q).who)
    BY <1>1, <1>2, <1>4 DEF Ready
  <2>2. \A j \in 1 .. Len(q) : q[j].op = "wipe" => j < 1
    BY <1>1, <1>4 DEF Ready
  <2>3. ~HasOp(q, "wipe")
    BY <1>1, <2>2 DEF HasOp
  <2> QED
    BY <1>4, <2>1, <2>3, FirstOnce
<1>5. ASSUME Head(q).op = "replace" PROVE Head(q).who \in own /\ ~HasOp(q, "wipe")
  BY <1>1, <1>2, <1>5 DEF Ready
<1>6. ASSUME Head(q).op = "reset"
      PROVE  /\ HasOp(q, "wipe") /\ ~HasOp(Tail(q), "reset")
             /\ \A h : Has(q, "add", h) => Has(q, "take", h)
  <2>1. HasOp(q, "wipe") /\ \A j \in 1 .. Len(q) : q[j].op = "add" => Has(q, "take", q[j].who)
    BY <1>1, <1>6 DEF Ready
  <2>2. ASSUME NEW j \in 1 .. Len(Tail(q)), Tail(q)[j].op = "reset" PROVE FALSE
    <3>1. j + 1 \in 1 .. Len(q) /\ q[j + 1].op = "reset" /\ j + 1 # 1
      BY <1>1, <2>2
    <3> QED
      BY <3>1 DEF Ready
  <2> QED
    BY <2>1, <2>2 DEF HasOp, Has
<1> QED
  BY <1>3, <1>4, <1>5, <1>6

(* What is left, for task t and for the other one, when t has taken the    *)
(* first step of its list, an x for the entry h.                           *)
Popped(t, x, h) ==
  /\ DOMAIN todo' = Task /\ todo'[t] = Tail(todo[t])
  /\ \A u \in Task : u # t => todo'[u] = todo[u]
  /\ \A u \in Task : IsOps(todo'[u])
  /\ \A op, k : Has(todo[t], op, k) <=> (x = op /\ h = k) \/ Has(todo'[t], op, k)
  /\ \A op : HasOp(todo[t], op) <=> x = op \/ HasOp(todo'[t], op)
  /\ Ready(todo[t], DOMAIN idx[t], Owned(t)) /\ IsOps(todo[t])

(* What every step of a task does to what is still to do.                  *)
LEMMA StepFacts ==
  ASSUME Apart, NEW t \in Task, todo[t] # <<>>, todo' = [todo EXCEPT ![t] = Tail(@)]
  PROVE  Popped(t, Head(todo[t]).op, Head(todo[t]).who)
<1>1. DOMAIN todo' = Task /\ todo'[t] = Tail(todo[t]) /\ \A u \in Task : u # t => todo'[u] = todo[u]
  BY DEF Apart, Shape
<1>2. IsOps(todo[t]) /\ Ready(todo[t], DOMAIN idx[t], Owned(t))
  BY DEF Apart, Shape, TodoReady
<1>3. \A u \in Task : IsOps(todo'[u])
  <2>1. \A u \in Task : IsOps(todo[u])
    BY DEF Apart, Shape
  <2>2. IsOps(Tail(todo[t]))
    BY <1>2, TailIs
  <2> QED
    BY <1>1, <2>1, <2>2
<1>4. /\ \A op, k : Has(todo[t], op, k) <=> (Head(todo[t]).op = op /\ Head(todo[t]).who = k) \/ Has(todo'[t], op, k)
      /\ \A op : HasOp(todo[t], op) <=> Head(todo[t]).op = op \/ HasOp(todo'[t], op)
  BY <1>1, <1>2, HasTail
<1> QED
  BY <1>1, <1>2, <1>3, <1>4 DEF Popped

(* EntryIndexProvider::next: the index taken is above all that are in use. *)
LEMMA StepTake ==
  ASSUME Apart, NEW t \in Task, todo[t] # <<>>, todo' = [todo EXCEPT ![t] = Tail(@)],
         UNCHANGED <<agent, st, err>>, TakeIndex(t, Head(todo[t]))
  PROVE  Apart'
<1> DEFINE h == Head(todo[t]).who
           q == todo[t]
<1>0. Head(q).op = "take"
  BY DEF TakeIndex
<1>p. Popped(t, "take", h)
  BY <1>0, StepFacts
<1>1. /\ DOMAIN todo' = Task /\ todo'[t] = Tail(q)
      /\ \A u \in Task : u # t => todo'[u] = todo[u]
      /\ \A u \in Task : IsOps(todo'[u])
      /\ \A op, k : Has(q, op, k) <=> ("take" = op /\ h = k) \/ Has(todo'[t], op, k)
      /\ \A op : HasOp(q, op) <=> "take" = op \/ HasOp(todo'[t], op)
      /\ Ready(q, DOMAIN idx[t], Owned(t)) /\ IsOps(q)
  BY <1>p DEF Popped
<1>2. h \notin DOMAIN idx[t] /\ ~Has(todo'[t], "take", h)
  BY <1>0, <1>1, FirstIs
<1>3. /\ next' = next + 1 /\ doc' = doc /\ stray' = stray
      /\ DOMAIN idx' = Task /\ \A u \in Task : u # t => idx'[u] = idx[u]
      /\ DOMAIN idx'[t] = DOMAIN idx[t] \cup {h}
      /\ idx'[t][h] = next /\ \A k \in DOMAIN idx[t] : idx'[t][k] = idx[t][k]
  BY <1>2 DEF TakeIndex, Apart, Shape
<1> HIDE DEF h, q
<1>4. Shape'
  BY <1>1, <1>3 DEF Apart, Shape
<1>5. \A u \in Task : \A k : Own(u, k) => Own(u, k)'
  BY <1>2, <1>3 DEF Own
<1>6. \A u \in Task : Owned(u) \subseteq Owned(u)'
  BY <1>5 DEF Owned, Own
<1>7. HandlesBelow'
  BY <1>1, <1>3 DEF Apart, HandlesBelow, LastHandle, q
<1>8. TodoReady'
  <2>1. Ready(todo'[t], DOMAIN idx'[t], Owned(t)')
    <3>1. q # <<>> /\ Owned(t) \subseteq Owned(t)' /\ DOMAIN idx[t] \subseteq DOMAIN idx'[t]
      BY <1>3, <1>6 DEF q
    <3>2. Head(q).who \in DOMAIN idx'[t] /\ \A k \in DOMAIN idx'[t] \ DOMAIN idx[t] : k = Head(q).who
      BY <1>3 DEF h, q
    <3> QED
      BY <1>0, <1>1, <3>1, <3>2, ReadyTail
  <2>2. ASSUME NEW u \in Task, u # t PROVE Ready(todo'[u], DOMAIN idx'[u], Owned(u)')
    <3>1. Ready(todo[u], DOMAIN idx[u], Owned(u))
      BY DEF Apart, TodoReady
    <3> QED
      BY <1>1, <1>3, <1>6, <2>2, <3>1, ReadyMore
  <2> QED
    BY <2>1, <2>2 DEF TodoReady
<1>9. LiveOwned'
  BY <1>1, <1>5 DEF Apart, LiveOwned, Live, q
<1>10. \A u \in Task : \A k : Reserved(u, k)' => (u = t /\ k = h) \/ (Reserved(u, k) /\ idx'[u][k] = idx[u][k])
  BY <1>1, <1>3 DEF Reserved, q
<1>11. \A u \in Task : \A k : Reserved(u, k) => idx[u][k] < next /\ idx[u][k] \in Nat /\ k \in DOMAIN idx[u]
  BY DEF Apart, ReservedApart, Shape, Reserved
<1>12. next \in Nat
  BY DEF Apart, Shape
<1>13. ReservedApart'
  <2>1. \A u \in Task : \A k \in DOMAIN idx'[u] : Reserved(u, k)' => idx'[u][k] < next'
    BY <1>3, <1>10, <1>11, <1>12
  <2>2. ASSUME NEW u \in Task, NEW v \in Task, NEW j, NEW k, Reserved(u, j)', Reserved(v, k)',
               idx'[u][j] = idx'[v][k]
        PROVE  u = v /\ j = k
    <3>1. CASE (u = t /\ j = h) \/ (v = t /\ k = h)
      BY <1>3, <1>10, <1>11, <1>12, <2>2, <3>1
    <3>2. CASE ~(u = t /\ j = h) /\ ~(v = t /\ k = h)
      <4>1. Reserved(u, j) /\ Reserved(v, k) /\ idx[u][j] = idx[v][k]
        BY <1>10, <2>2, <3>2
      <4> QED
        BY <1>11, <4>1 DEF Apart, ReservedApart
    <3> QED
      BY <3>1, <3>2
  <2> QED
    BY <2>1, <2>2 DEF ReservedApart
<1>14. Replaying' <=> Replaying
  BY <1>1 DEF Replaying, q, Task
<1>15. BelowNext'
  BY <1>3, <1>10, <1>12, <1>14 DEF Apart, BelowNext, Shape, Reserved
<1>16. ErrInReplay'
  <2> SUFFICES ASSUME Replaying'
               PROVE  /\ \A k \in DOMAIN idx'["err"] : idx'["err"][k] < next'
                      /\ \A j, k \in DOMAIN idx'["err"] :
                           Reserved("err", j)' /\ j # k => idx'["err"][k] < idx'["err"][j]
    BY DEF ErrInReplay
  <2>1. /\ \A k \in DOMAIN idx["err"] : idx["err"][k] < next /\ idx["err"][k] \in Nat
        /\ \A j, k \in DOMAIN idx["err"] : Reserved("err", j) /\ j # k => idx["err"][k] < idx["err"][j]
    BY <1>14 DEF Apart, ErrInReplay, Shape, Task
  <2>2. CASE t = "out"
    <3>1. idx'["err"] = idx["err"] /\ todo'["err"] = todo["err"]
      BY <1>1, <1>3, <2>2 DEF Task
    <3> QED
      BY <1>3, <1>12, <2>1, <3>1 DEF Reserved
  <2>3. CASE t = "err"
    <3>1. \A k \in DOMAIN idx'["err"] : idx'["err"][k] < next'
      BY <1>3, <1>12, <2>1, <2>3
    <3>2. ASSUME NEW j, Reserved("err", j)' PROVE j = h
      <4>1. Has(q, "add", j) /\ Has(q, "take", h)
        BY <1>1, <2>3, <3>2 DEF Reserved, q
      <4>2. Has(q, "add", h)
        BY <2>3, <4>1 DEF Apart, WipeAlone, q
      <4> QED
        BY <2>3, <4>1, <4>2 DEF Apart, WipeAlone, q
    <3>3. ASSUME NEW k \in DOMAIN idx'["err"], k # h PROVE idx'["err"][k] < idx'["err"][h]
      BY <1>3, <1>12, <2>1, <2>3, <3>3
    <3> QED
      BY <3>1, <3>2, <3>3
  <2> QED
    BY <2>2, <2>3 DEF Task
<1>17. WipeAlone'
  <2>1. \A u \in Task : \A op : op # "take" => (HasOp(todo'[u], op) <=> HasOp(todo[u], op))
    BY <1>1 DEF q
  <2>2. \A u \in Task : \A k : Has(todo'[u], "add", k) <=> Has(todo[u], "add", k)
    BY <1>1 DEF q
  <2>3. \A u \in Task : \A k : Has(todo'[u], "take", k) => Has(todo[u], "take", k)
    BY <1>1 DEF q
  <2>4. Live("out")' = Live("out")
    BY DEF Live
  <2> QED
    BY <2>1, <2>2, <2>3, <2>4 DEF Apart, WipeAlone, Task
<1> QED
  BY <1>3, <1>4, <1>7, <1>8, <1>9, <1>13, <1>15, <1>16, <1>17 DEF Apart

(* A list with a wipe asks for no entry that is there before.              *)
LEMMA ReadyWipe ==
  ASSUME NEW q, NEW taken, NEW own, NEW own2, HasOp(q, "wipe"), Ready(q, taken, own)
  PROVE  Ready(q, taken, own2)
BY DEF Ready

(* r is d with the entry e at i, which has moved no entry before i.        *)
Inserted(d, r, i, e) ==
  /\ DOMAIN r \subseteq Nat /\ i \in DOMAIN r /\ r[i] = e
  /\ \A j \in DOMAIN d : j < i => j \in DOMAIN r /\ r[j] = d[j]
  /\ i \notin DOMAIN d => DOMAIN r = DOMAIN d \cup {i} /\ \A j \in DOMAIN d : r[j] = d[j]

(* What DocAdd does to the conversation.                                   *)
LEMMA DocAddIs ==
  ASSUME NEW d, DOMAIN d \subseteq Nat, NEW i \in Nat, NEW e
  PROVE  Inserted(d, DocAdd(d, i, e), i, e)
<1> DEFINE r == DocAdd(d, i, e)
<1>1. CASE i \in DOMAIN d
  <2> DEFINE S == {k \in DOMAIN d : k < i} \cup {i} \cup {k + 1 : k \in {k \in DOMAIN d : k >= i}}
  <2>1. r = [j \in S |-> IF j < i THEN d[j] ELSE IF j = i THEN e ELSE d[j - 1]]
    BY <1>1 DEF DocAdd
  <2>2. S \subseteq Nat /\ i \in S /\ \A j \in DOMAIN d : j < i => j \in S
    OBVIOUS
  <2> HIDE DEF S
  <2> QED
    BY <1>1, <2>1, <2>2 DEF Inserted
<1>2. CASE i \notin DOMAIN d
  BY <1>2 DEF DocAdd, Inserted
<1> QED
  BY <1>1, <1>2

(* An add goes to a free index and moves no entry; while Amp replays it    *)
(* may meet an entry that is about to be removed.                          *)
LEMMA StepAdd ==
  ASSUME Apart, NEW t \in Task, todo[t] # <<>>, todo' = [todo EXCEPT ![t] = Tail(@)],
         UNCHANGED <<agent, st, err>>, PushAdd(t, Head(todo[t]))
  PROVE  Apart'
<1>h. PICK h : h = Head(todo[t]).who
  OBVIOUS
<1>i. PICK i : i = idx[t][h]
  OBVIOUS
<1>e. PICK e : e = Entry(t, Head(todo[t]))
  OBVIOUS
<1> DEFINE q == todo[t]
<1>0. Head(q).op = "add"
  BY DEF PushAdd
<1>p. Popped(t, "add", h)
  BY <1>0, <1>h, StepFacts
<1>1. /\ DOMAIN todo' = Task /\ todo'[t] = Tail(q)
      /\ \A u \in Task : u # t => todo'[u] = todo[u]
      /\ \A u \in Task : IsOps(todo'[u])
      /\ \A op, k : Has(q, op, k) <=> ("add" = op /\ h = k) \/ Has(todo'[t], op, k)
      /\ \A op : HasOp(q, op) <=> "add" = op \/ HasOp(todo'[t], op)
      /\ Ready(q, DOMAIN idx[t], Owned(t)) /\ IsOps(q)
  BY <1>p DEF Popped
<1>2. h \in DOMAIN idx[t] /\ ~Has(q, "take", h) /\ ~HasOp(q, "wipe") /\ ~Has(todo'[t], "add", h)
  BY <1>0, <1>1, <1>h, FirstIs
<1>3. next' = next /\ idx' = idx /\ stray' = stray /\ doc' = DocAdd(doc, i, e)
  BY <1>h, <1>i, <1>e DEF PushAdd
<1> HIDE DEF q
<1>4. Reserved(t, h)
  BY <1>1, <1>2 DEF Reserved, q
<1>5. i \in Nat /\ i < next /\ DOMAIN doc \subseteq Nat /\ next \in Nat
  BY <1>2, <1>4, <1>i DEF Apart, Shape, ReservedApart
<1>6. /\ DOMAIN doc' \subseteq Nat /\ i \in DOMAIN doc' /\ doc'[i] = e
      /\ \A j \in DOMAIN doc : j < i => j \in DOMAIN doc' /\ doc'[j] = doc[j]
      /\ i \notin DOMAIN doc => DOMAIN doc' = DOMAIN doc \cup {i} /\ \A j \in DOMAIN doc : doc'[j] = doc[j]
  <2>1. doc' = DocAdd(doc, i, e) /\ i \in Nat /\ DOMAIN doc \subseteq Nat
    BY <1>3, <1>5
  <2>2. Inserted(doc, doc', i, e)
    BY <2>1, DocAddIs, Zenon
  <2> QED
    BY <2>2 DEF Inserted
<1>7. e.task = t /\ e.who = h
  BY <1>h, <1>e DEF Entry
<1>8. Own(t, h)'
  BY <1>2, <1>3, <1>6, <1>7, <1>i DEF Own
<1>9. Shape'
  BY <1>1, <1>3, <1>6 DEF Apart, Shape
<1>10. HandlesBelow'
  BY <1>1, <1>3 DEF Apart, HandlesBelow, LastHandle, q
<1>11. \A u \in Task : \A k : Reserved(u, k)' => Reserved(u, k) /\ ~(u = t /\ k = h)
  BY <1>1, <1>2, <1>3 DEF Reserved, q
<1>12. ReservedApart'
  BY <1>3, <1>11 DEF Apart, ReservedApart
<1>13. Replaying' <=> Replaying
  BY <1>1 DEF Replaying, q, Task
<1>14. ErrInReplay'
  BY <1>3, <1>11, <1>13 DEF Apart, ErrInReplay, Task
<1>15. WipeAlone'
  <2>1. \A u \in Task : \A op : op # "add" => (HasOp(todo'[u], op) <=> HasOp(todo[u], op))
    BY <1>1 DEF q
  <2>2. \A u \in Task : \A k : Has(todo'[u], "add", k) => Has(todo[u], "add", k)
    BY <1>1 DEF q
  <2>3. \A u \in Task : \A k : Has(todo'[u], "take", k) => Has(todo[u], "take", k) /\ ~(u = t /\ k = h)
    BY <1>1, <1>2 DEF q
  <2>4. \A u \in Task : \A k : Has(todo[u], "add", k) => Has(todo'[u], "add", k) \/ (u = t /\ k = h)
    BY <1>1 DEF q
  <2>5. Live("out")' = Live("out")
    BY DEF Live
  <2> QED
    BY <2>1, <2>2, <2>3, <2>4, <2>5 DEF Apart, WipeAlone, Task
<1>16. ASSUME \A u \in Task : \A k : Own(u, k) => Own(u, k)' \/ (u = "out" /\ Replaying)
       PROVE  TodoReady' /\ LiveOwned'
  <2>1. \A u \in Task : Owned(u) \subseteq Owned(u)' \/ (u = "out" /\ Replaying)
    BY <1>16 DEF Owned, Own
  <2>2. Replaying => t # "out"
    BY <1>2 DEF Replaying, q
  <2>3. h \in Owned(t)'
    BY <1>8 DEF Owned, Own
  <2>4. Ready(todo'[t], DOMAIN idx'[t], Owned(t)')
    <3>1. q # <<>> /\ Owned(t) \subseteq Owned(t)' /\ DOMAIN idx[t] = DOMAIN idx'[t] /\ Head(q).who \in Owned(t)'
      BY <1>3, <2>1, <2>2, <2>3, <1>h DEF q
    <3> QED
      BY <1>0, <1>1, <3>1, ReadyTail DEF q
  <2>5. ASSUME NEW u \in Task, u # t PROVE Ready(todo'[u], DOMAIN idx'[u], Owned(u)')
    <3>1. Ready(todo[u], DOMAIN idx[u], Owned(u)) /\ todo'[u] = todo[u] /\ idx'[u] = idx[u]
      BY <1>1, <1>3, <2>5 DEF Apart, TodoReady
    <3>2. CASE Owned(u) \subseteq Owned(u)'
      BY <3>1, <3>2, ReadyMore
    <3>3. CASE u = "out" /\ Replaying
      BY <3>1, <3>3, ReadyWipe DEF Replaying
    <3> QED
      BY <2>1, <3>2, <3>3
  <2>6. \A u \in Task : Live(u)' = Live(u)
    BY DEF Live
  <2>7. Replaying => Live("out") = {}
    BY DEF Apart, WipeAlone, Replaying
  <2>8. LiveOwned'
    BY <1>1, <1>8, <1>16, <2>6, <2>7 DEF Apart, LiveOwned, q
  <2> QED
    BY <2>4, <2>5, <2>8 DEF TodoReady
<1>17. CASE ~Replaying
  <2>1. i \notin DOMAIN doc
    BY <1>2, <1>4, <1>17, <1>i DEF Apart, BelowNext
  <2>2. \A u \in Task : \A k : Own(u, k) => Own(u, k)'
    BY <1>3, <1>6, <2>1 DEF Own
  <2>3. BelowNext'
    <3>1. \A j \in DOMAIN doc' : j < next'
      BY <1>3, <1>5, <1>6, <1>17, <2>1 DEF Apart, BelowNext
    <3>2. ASSUME NEW u \in Task, NEW k \in DOMAIN idx[u], Reserved(u, k)' PROVE idx[u][k] \notin DOMAIN doc'
      <4>1. Reserved(u, k) /\ ~(u = t /\ k = h)
        BY <1>11, <3>2
      <4>2. idx[u][k] \notin DOMAIN doc
        BY <1>17, <4>1 DEF Apart, BelowNext
      <4>3. idx[u][k] # i
        BY <1>2, <1>4, <4>1, <1>i DEF Apart, ReservedApart
      <4> QED
        BY <1>6, <2>1, <4>2, <4>3
    <3> QED
      BY <1>3, <3>1, <3>2 DEF BelowNext
  <2> QED
    BY <1>3, <1>9, <1>10, <1>12, <1>14, <1>15, <1>16, <2>2, <2>3 DEF Apart
<1>18. CASE Replaying
  <2>1. t = "err"
    BY <1>2, <1>18 DEF Replaying, q, Task
  <2>2. ASSUME NEW k, Own("err", k) PROVE Own("err", k)'
    <3>1. CASE k = h
      BY <1>8, <2>1, <3>1
    <3>2. CASE k # h
      <4>1. k \in DOMAIN idx["err"] /\ idx["err"][k] < i
        BY <1>2, <1>4, <1>18, <2>1, <2>2, <3>2, <1>i DEF Apart, ErrInReplay, Own
      <4> QED
        BY <1>3, <1>6, <2>2, <4>1 DEF Own
    <3> QED
      BY <3>1, <3>2
  <2>3. BelowNext'
    BY <1>13, <1>18 DEF BelowNext
  <2>4. \A u \in Task : \A k : Own(u, k) => Own(u, k)' \/ (u = "out" /\ Replaying)
    BY <1>18, <2>2 DEF Task
  <2> QED
    BY <1>3, <1>9, <1>10, <1>12, <1>14, <1>15, <1>16, <2>3, <2>4 DEF Apart
<1> QED
  BY <1>17, <1>18

(* A replace finds the entry of its handle: here stray could be set, and   *)
(* is not.                                                                 *)
LEMMA StepReplace ==
  ASSUME Apart, NEW t \in Task, todo[t] # <<>>, todo' = [todo EXCEPT ![t] = Tail(@)],
         UNCHANGED <<agent, st, err>>, PushReplace(t, Head(todo[t]))
  PROVE  Apart'
<1>h. PICK h : h = Head(todo[t]).who
  OBVIOUS
<1>i. PICK i : i = idx[t][h]
  OBVIOUS
<1>e. PICK e : e = Entry(t, Head(todo[t]))
  OBVIOUS
<1> DEFINE q == todo[t]
<1>0. Head(q).op = "replace"
  BY DEF PushReplace
<1>p. Popped(t, "replace", h)
  BY <1>0, <1>h, StepFacts
<1>1. /\ DOMAIN todo' = Task /\ todo'[t] = Tail(q)
      /\ \A u \in Task : u # t => todo'[u] = todo[u]
      /\ \A u \in Task : IsOps(todo'[u])
      /\ \A op, k : Has(q, op, k) <=> ("replace" = op /\ h = k) \/ Has(todo'[t], op, k)
      /\ \A op : HasOp(q, op) <=> "replace" = op \/ HasOp(todo'[t], op)
      /\ Ready(q, DOMAIN idx[t], Owned(t)) /\ IsOps(q)
  BY <1>p DEF Popped
<1>2. Own(t, h)
  <2>1. h \in Owned(t)
    BY <1>0, <1>1, <1>h, FirstIs
  <2> QED
    BY <2>1 DEF Owned
<1>3. i \in DOMAIN doc /\ doc[i].task = t /\ doc[i].who = h
  BY <1>2, <1>i DEF Own
<1>4. next' = next /\ idx' = idx /\ doc' = [doc EXCEPT ![i] = e] /\ ~stray'
  BY <1>3, <1>h, <1>i, <1>e DEF PushReplace, DocReplace, Apart
<1>5. e.task = t /\ e.who = h
  BY <1>h, <1>e DEF Entry
<1>6. DOMAIN doc' = DOMAIN doc /\ \A j \in DOMAIN doc : doc'[j].task = doc[j].task /\ doc'[j].who = doc[j].who
  BY <1>3, <1>4, <1>5
<1>7. \A u \in Task : \A k : Own(u, k)' <=> Own(u, k)
  BY <1>4, <1>6 DEF Own
<1>8. \A u \in Task : Owned(u)' = Owned(u)
  BY <1>4, <1>7 DEF Owned
<1> HIDE DEF q
<1>9. Shape'
  BY <1>1, <1>4, <1>6 DEF Apart, Shape
<1>10. \A u \in Task : \A op : \A k : op # "replace" => (Has(todo'[u], op, k) <=> Has(todo[u], op, k))
  BY <1>1 DEF q
<1>11. \A u \in Task : \A op : op # "replace" => (HasOp(todo'[u], op) <=> HasOp(todo[u], op))
  BY <1>1 DEF q
<1>12. \A u \in Task : \A k : Reserved(u, k)' <=> Reserved(u, k)
  BY <1>4, <1>10 DEF Reserved
<1>13. \A u \in Task : Live(u)' = Live(u) /\ LastHandle(u)' = LastHandle(u)
  BY DEF Live, LastHandle
<1>14. Replaying' <=> Replaying
  BY <1>11 DEF Replaying, Task
<1>15. HandlesBelow'
  BY <1>4, <1>10, <1>13 DEF Apart, HandlesBelow
<1>16. TodoReady'
  <2>1. Ready(todo'[t], DOMAIN idx'[t], Owned(t)')
    <3>1. q # <<>> /\ Owned(t) = Owned(t)' /\ DOMAIN idx[t] = DOMAIN idx'[t]
      BY <1>4, <1>8 DEF q
    <3> QED
      BY <1>0, <1>1, <3>1, ReadyTail DEF q
  <2>2. ASSUME NEW u \in Task, u # t PROVE Ready(todo'[u], DOMAIN idx'[u], Owned(u)')
    BY <1>1, <1>4, <1>8, <2>2 DEF Apart, TodoReady
  <2> QED
    BY <2>1, <2>2 DEF TodoReady
<1>17. LiveOwned'
  BY <1>7, <1>10, <1>13 DEF Apart, LiveOwned
<1>18. ReservedApart'
  BY <1>4, <1>12 DEF Apart, ReservedApart
<1>19. BelowNext' /\ ErrInReplay'
  BY <1>4, <1>6, <1>12, <1>14 DEF Apart, BelowNext, ErrInReplay, Task
<1>20. WipeAlone'
  BY <1>10, <1>11, <1>13 DEF Apart, WipeAlone, Task
<1> QED
  BY <1>4, <1>9, <1>15, <1>16, <1>17, <1>18, <1>19, <1>20 DEF Apart

(* Amp's reset of the provider, if the stderr task has taken no index.     *)
LEMMA StepReset ==
  ASSUME Apart, NEW t \in Task, todo[t] # <<>>, todo' = [todo EXCEPT ![t] = Tail(@)],
         UNCHANGED <<agent, st, err>>, ResetIndex(t, Head(todo[t])), ~moved'
  PROVE  Apart'
<1>h. PICK h : h = Head(todo[t]).who
  OBVIOUS
<1> DEFINE q == todo[t]
<1>0. Head(q).op = "reset"
  BY DEF ResetIndex
<1>p. Popped(t, "reset", h)
  BY <1>0, <1>h, StepFacts
<1>1. /\ DOMAIN todo' = Task /\ todo'[t] = Tail(q)
      /\ \A u \in Task : u # t => todo'[u] = todo[u]
      /\ \A u \in Task : IsOps(todo'[u])
      /\ \A op, k : Has(q, op, k) <=> ("reset" = op /\ h = k) \/ Has(todo'[t], op, k)
      /\ \A op : HasOp(q, op) <=> "reset" = op \/ HasOp(todo'[t], op)
      /\ Ready(q, DOMAIN idx[t], Owned(t)) /\ IsOps(q)
  BY <1>p DEF Popped
<1>2. HasOp(q, "wipe") /\ ~HasOp(todo'[t], "reset") /\ \A k : Has(q, "add", k) => Has(q, "take", k)
  BY <1>0, <1>1, FirstIs
<1>3. t = "out"
  BY <1>2 DEF Apart, WipeAlone, Task
<1>4. next' = 0 /\ idx' = idx /\ doc' = doc /\ stray' = stray /\ DOMAIN idx["err"] = {}
  BY DEF ResetIndex
<1>5. \A u \in Task : \A k : Own(u, k)' <=> Own(u, k)
  BY <1>4 DEF Own
<1>6. \A u \in Task : Owned(u)' = Owned(u)
  BY <1>4, <1>5 DEF Owned
<1> HIDE DEF q
<1>7. Shape'
  BY <1>1, <1>4 DEF Apart, Shape
<1>8. \A u \in Task : \A op : \A k : op # "reset" => (Has(todo'[u], op, k) <=> Has(todo[u], op, k))
  BY <1>1 DEF q
<1>9. \A u \in Task : \A op : op # "reset" => (HasOp(todo'[u], op) <=> HasOp(todo[u], op))
  BY <1>1 DEF q
<1>10. \A u \in Task : \A k : ~Reserved(u, k)'
  BY <1>2, <1>3, <1>4, <1>8 DEF Reserved, q, Task
<1>11. \A u \in Task : Live(u)' = Live(u) /\ LastHandle(u)' = LastHandle(u)
  BY DEF Live, LastHandle
<1>12. Replaying'
  BY <1>2, <1>3, <1>9 DEF Replaying, Task, q
<1>13. HandlesBelow'
  BY <1>4, <1>8, <1>11 DEF Apart, HandlesBelow
<1>14. TodoReady'
  <2>1. Ready(todo'[t], DOMAIN idx'[t], Owned(t)')
    <3>1. q # <<>> /\ Owned(t) = Owned(t)' /\ DOMAIN idx[t] = DOMAIN idx'[t]
      BY <1>4, <1>6 DEF q
    <3> QED
      BY <1>0, <1>1, <3>1, ReadyTail DEF q
  <2>2. ASSUME NEW u \in Task, u # t PROVE Ready(todo'[u], DOMAIN idx'[u], Owned(u)')
    BY <1>1, <1>4, <1>6, <2>2 DEF Apart, TodoReady
  <2> QED
    BY <2>1, <2>2 DEF TodoReady
<1>15. LiveOwned'
  BY <1>5, <1>8, <1>11 DEF Apart, LiveOwned
<1>16. ReservedApart' /\ BelowNext' /\ ErrInReplay'
  BY <1>4, <1>10, <1>12 DEF ReservedApart, BelowNext, ErrInReplay
<1>17. WipeAlone'
  BY <1>8, <1>9, <1>11 DEF Apart, WipeAlone, Task
<1> QED
  BY <1>4, <1>7, <1>13, <1>14, <1>15, <1>16, <1>17 DEF Apart

(* Amp's removal of all entries, if the stderr task has taken no index.    *)
LEMMA StepWipe ==
  ASSUME Apart, NEW t \in Task, todo[t] # <<>>, todo' = [todo EXCEPT ![t] = Tail(@)],
         UNCHANGED <<agent, st, err>>, PushWipe(t, Head(todo[t])), ~moved'
  PROVE  Apart'
<1>h. PICK h : h = Head(todo[t]).who
  OBVIOUS
<1> DEFINE q == todo[t]
<1>0. Head(q).op = "wipe"
  BY DEF PushWipe
<1>p. Popped(t, "wipe", h)
  BY <1>0, <1>h, StepFacts
<1>1. /\ DOMAIN todo' = Task /\ todo'[t] = Tail(q)
      /\ \A u \in Task : u # t => todo'[u] = todo[u]
      /\ \A u \in Task : IsOps(todo'[u])
      /\ \A op, k : Has(q, op, k) <=> ("wipe" = op /\ h = k) \/ Has(todo'[t], op, k)
      /\ \A op : HasOp(q, op) <=> "wipe" = op \/ HasOp(todo'[t], op)
      /\ Ready(q, DOMAIN idx[t], Owned(t)) /\ IsOps(q)
  BY <1>p DEF Popped
<1>2. HasOp(q, "wipe")
  BY <1>0, <1>1
<1>3. t = "out"
  BY <1>2 DEF Apart, WipeAlone, Task
<1>4. next' = next /\ idx' = idx /\ DOMAIN doc' = {} /\ stray' = stray /\ DOMAIN idx["err"] = {}
  BY DEF PushWipe, EmptyDoc
<1> HIDE DEF q
<1>5. Shape'
  BY <1>1, <1>4 DEF Apart, Shape
<1>6. \A u \in Task : \A op : \A k : op # "wipe" => (Has(todo'[u], op, k) <=> Has(todo[u], op, k))
  BY <1>1 DEF q
<1>7. \A u \in Task : \A op : HasOp(todo'[u], op) => HasOp(todo[u], op)
  BY <1>1 DEF q
<1>8. \A u \in Task : \A k : Reserved(u, k)' <=> Reserved(u, k)
  BY <1>4, <1>6 DEF Reserved
<1>9. \A u \in Task : Live(u)' = Live(u) /\ LastHandle(u)' = LastHandle(u)
  BY DEF Live, LastHandle
<1>10. HandlesBelow'
  BY <1>4, <1>6, <1>9 DEF Apart, HandlesBelow
<1>11. Owned("err") = {}
  BY <1>4 DEF Owned
<1>12. TodoReady'
  <2>1. Ready(todo'[t], DOMAIN idx'[t], Owned(t)')
    <3>1. q # <<>> /\ DOMAIN idx[t] = DOMAIN idx'[t]
      BY <1>4 DEF q
    <3> QED
      BY <1>0, <1>1, <1>2, <3>1, ReadyTail DEF q
  <2>2. ASSUME NEW u \in Task, u # t PROVE Ready(todo'[u], DOMAIN idx'[u], Owned(u)')
    <3>1. Ready(todo[u], DOMAIN idx[u], Owned(u)) /\ Owned(u) = {}
      BY <1>3, <1>11, <2>2 DEF Apart, TodoReady, Task
    <3>2. Owned(u) \subseteq Owned(u)'
      BY <3>1
    <3> QED
      BY <1>1, <1>4, <2>2, <3>1, <3>2, ReadyMore
  <2> QED
    BY <2>1, <2>2 DEF TodoReady
<1>13. LiveOwned'
  <2>1. Live("out") = {}
    BY <1>2, <1>3 DEF Apart, WipeAlone, q
  <2>2. \A k \in Live("err") : Has(todo["err"], "add", k)
    BY <1>4 DEF Apart, LiveOwned, Own, Task
  <2> QED
    BY <1>6, <1>9, <2>1, <2>2 DEF LiveOwned, Task
<1>14. ReservedApart'
  BY <1>4, <1>8 DEF Apart, ReservedApart
<1>15. BelowNext' /\ ErrInReplay'
  BY <1>4 DEF BelowNext, ErrInReplay
<1>16. WipeAlone'
  BY <1>6, <1>7, <1>9 DEF Apart, WipeAlone, Task
<1> QED
  BY <1>4, <1>5, <1>10, <1>12, <1>13, <1>14, <1>15, <1>16 DEF Apart

(* A step of either task keeps the tasks apart, or moves entries.          *)
LEMMA StepKeeps ==
  ASSUME moved \/ Apart, NEW t \in Task, Step(t)
  PROVE  (moved \/ Apart)'
<1> SUFFICES ASSUME ~moved' PROVE Apart'
  OBVIOUS
<1>1. /\ todo[t] # <<>> /\ todo' = [todo EXCEPT ![t] = Tail(@)] /\ UNCHANGED <<agent, st, err>>
      /\ LET o == Head(todo[t])
         IN  TakeIndex(t, o) \/ PushAdd(t, o) \/ PushReplace(t, o) \/ PushRemove(t, o)
             \/ ResetIndex(t, o) \/ PushWipe(t, o)
  BY DEF Step
<1>2. ~moved
  BY <1>1 DEF TakeIndex, PushAdd, PushReplace, PushRemove, ResetIndex, PushWipe
<1>3. ~PushRemove(t, Head(todo[t]))
  BY DEF PushRemove
<1> QED
  BY <1>1, <1>2, <1>3, StepTake, StepAdd, StepReplace, StepReset, StepWipe

-----------------------------------------------------------------------------
(* What a line adds to a task.  The handles n + 1 to m are new, those in   *)
(* own have an entry.                                                      *)
Fit(q, n, m, own) ==
  /\ IsOps(q) /\ n \in Nat /\ m \in Nat /\ n <= m
  /\ Ready(q, 1 .. n, own)
  /\ \A h : Has(q, "take", h) <=> h \in n + 1 .. m
  /\ \A h : Has(q, "add", h) <=> h \in n + 1 .. m
  /\ HasOp(q, "wipe") => HasOp(q, "reset")

(* A new line keeps the tasks apart, if what it asks for fits.             *)
LEMMA LineKeeps ==
  ASSUME Apart, NEW t \in Task, todo[t] = <<>>, NEW q, todo' = [todo EXCEPT ![t] = q],
         next' = next, idx' = idx, doc' = doc, stray' = stray,
         NEW m, LastHandle(t)' = m, Fit(q, LastHandle(t), m, Live(t)),
         Live(t)' \subseteq Live(t) \cup (LastHandle(t) + 1 .. m),
         HasOp(q, "wipe") => t = "out" /\ Live(t)' = {},
         t = "err" => \A h, k : Has(q, "add", h) /\ Has(q, "add", k) => h = k,
         \A u \in Task \ {t} : Live(u)' = Live(u) /\ LastHandle(u)' = LastHandle(u)
  PROVE  Apart'
<1>n. PICK n : n = LastHandle(t)
  OBVIOUS
<1>1. /\ IsOps(q) /\ n \in Nat /\ m \in Nat /\ n <= m /\ Ready(q, 1 .. n, Live(t))
      /\ \A h : Has(q, "take", h) <=> h \in n + 1 .. m
      /\ \A h : Has(q, "add", h) <=> h \in n + 1 .. m
      /\ HasOp(q, "wipe") => HasOp(q, "reset")
  BY <1>n DEF Fit
<1>2. DOMAIN todo' = Task /\ todo'[t] = q /\ \A u \in Task : u # t => todo'[u] = todo[u]
  BY DEF Apart, Shape
<1>3. \A op, h : ~Has(todo[t], op, h) /\ ~HasOp(todo[t], op)
  BY DEF Has, HasOp
<1>4. \A u \in Task : \A k : Own(u, k)' <=> Own(u, k)
  BY DEF Own
<1>5. \A u \in Task : Owned(u)' = Owned(u)
  BY <1>4 DEF Owned
<1>6. Live(t) \subseteq Owned(t)
  BY <1>3 DEF Apart, LiveOwned, Owned, Own
<1>7. Shape'
  BY <1>1, <1>2 DEF Apart, Shape
<1>8. HandlesBelow'
  <2>1. DOMAIN idx[t] \subseteq 1 .. n
    BY <1>n DEF Apart, HandlesBelow
  <2>2. \A h \in 1 .. n : h \in 1 .. m
    BY <1>1
  <2>3. \A h \in n + 1 .. m : h \in 1 .. m
    BY <1>1
  <2>4. DOMAIN idx'[t] \subseteq 1 .. LastHandle(t)' /\ \A h : Has(todo'[t], "take", h) => h \in 1 .. LastHandle(t)'
    BY <1>1, <1>2, <2>1, <2>2, <2>3
  <2>5. ASSUME NEW u \in Task, u # t
        PROVE  DOMAIN idx'[u] \subseteq 1 .. LastHandle(u)' /\ \A h : Has(todo'[u], "take", h) => h \in 1 .. LastHandle(u)'
    <3>1. LastHandle(u)' = LastHandle(u) /\ todo'[u] = todo[u]
      BY <1>2, <2>5
    <3>2. DOMAIN idx[u] \subseteq 1 .. LastHandle(u) /\ \A h : Has(todo[u], "take", h) => h \in 1 .. LastHandle(u)
      BY DEF Apart, HandlesBelow
    <3> QED
      BY <3>1, <3>2
  <2> QED
    BY <2>4, <2>5 DEF HandlesBelow
<1>9. TodoReady'
  <2>1. Ready(q, 1 .. n, Owned(t))
    BY <1>1, <1>6, ReadyMore
  <2>2. DOMAIN idx[t] \subseteq 1 .. n
    BY <1>n DEF Apart, HandlesBelow
  <2>3. Ready(q, DOMAIN idx[t], Owned(t))
    BY <1>1, <2>1, <2>2, ReadyLess
  <2>4. ASSUME NEW u \in Task PROVE Ready(todo'[u], DOMAIN idx'[u], Owned(u)')
    <3>1. Ready(todo[u], DOMAIN idx[u], Owned(u)) /\ Owned(u)' = Owned(u)
      BY <1>5 DEF Apart, TodoReady
    <3> QED
      BY <1>2, <2>3, <3>1
  <2> QED
    BY <2>4 DEF TodoReady
<1>10. LiveOwned'
  <2>1. ASSUME NEW h \in Live(t)' PROVE Own(t, h)' \/ Has(todo'[t], "add", h)
    <3>1. CASE h \in Live(t)
      BY <1>4, <1>6, <3>1 DEF Owned
    <3>2. CASE h \in n + 1 .. m
      BY <1>1, <1>2, <3>2
    <3> QED
      BY <1>n, <2>1, <3>1, <3>2
  <2>2. ASSUME NEW u \in Task, u # t, NEW h \in Live(u)' PROVE Own(u, h)' \/ Has(todo'[u], "add", h)
    BY <1>2, <1>4, <2>2 DEF Apart, LiveOwned
  <2> QED
    BY <2>1, <2>2 DEF LiveOwned
<1>11. \A u \in Task : \A k : Reserved(u, k)' => Reserved(u, k)
  BY <1>1, <1>2 DEF Reserved
<1>12. ReservedApart'
  BY <1>11 DEF Apart, ReservedApart
<1>13. Replaying' <=> Replaying
  <2>1. CASE t = "out"
    BY <1>1, <1>2, <1>3, <2>1 DEF Replaying
  <2>2. CASE t = "err"
    BY <1>2, <2>2 DEF Replaying, Task
  <2> QED
    BY <2>1, <2>2 DEF Task
<1>14. BelowNext' /\ ErrInReplay'
  BY <1>11, <1>13 DEF Apart, BelowNext, ErrInReplay, Task
<1>15. WipeAlone'
  <2>1. CASE t = "out"
    <3>1. todo'["out"] = q /\ todo'["err"] = todo["err"]
      BY <1>2, <2>1 DEF Task
    <3> QED
      BY <2>1, <3>1 DEF Apart, WipeAlone
  <2>2. CASE t = "err"
    <3>1. todo'["err"] = q /\ todo'["out"] = todo["out"] /\ Live("out")' = Live("out")
      BY <1>2, <2>2 DEF Task
    <3> QED
      BY <1>1, <2>2, <3>1 DEF Apart, WipeAlone
  <2> QED
    BY <2>1, <2>2 DEF Task
<1> QED
  BY <1>7, <1>8, <1>9, <1>10, <1>12, <1>14, <1>15 DEF Apart

-----------------------------------------------------------------------------
(* The forms of such lists.                                                *)

(* The steps of two lists one after the other.                             *)
LEMMA ConcatIs ==
  ASSUME NEW p, NEW q, IsOps(p), IsOps(q)
  PROVE  /\ IsOps(p \o q) /\ Len(p) \in Nat /\ Len(q) \in Nat /\ Len(p \o q) = Len(p) + Len(q)
         /\ \A i \in 1 .. Len(p) : i \in 1 .. Len(p \o q) /\ (p \o q)[i] = p[i]
         /\ \A i \in 1 .. Len(q) : Len(p) + i \in 1 .. Len(p \o q) /\ (p \o q)[Len(p) + i] = q[i]
         /\ \A i \in 1 .. Len(p \o q) :
              \/ i \in 1 .. Len(p) /\ (p \o q)[i] = p[i]
              \/ /\ i - Len(p) \in 1 .. Len(q) /\ (p \o q)[i] = q[i - Len(p)]
                 /\ i = Len(p) + (i - Len(p))
<1>1. PICK S : p \in Seq(S)
  BY DEF IsOps
<1>2. PICK T : q \in Seq(T)
  BY DEF IsOps
<1>3. p \in Seq(S \cup T) /\ q \in Seq(S \cup T)
  BY <1>1, <1>2
<1>4. p \o q \in Seq(S \cup T)
  BY <1>3
<1>5. IsOps(p \o q)
  BY <1>4 DEF IsOps
<1>6. Len(p) \in Nat /\ Len(q) \in Nat /\ Len(p \o q) = Len(p) + Len(q)
  BY <1>3
<1>7. \A i \in 1 .. Len(p) + Len(q) : (p \o q)[i] = IF i <= Len(p) THEN p[i] ELSE q[i - Len(p)]
  BY <1>3
<1>8. ASSUME NEW i \in 1 .. Len(q)
      PROVE  Len(p) + i \in 1 .. Len(p) + Len(q) /\ ~(Len(p) + i <= Len(p)) /\ (Len(p) + i) - Len(p) = i
  BY <1>6
<1>9. ASSUME NEW i \in 1 .. Len(q)
      PROVE  Len(p) + i \in 1 .. Len(p \o q) /\ (p \o q)[Len(p) + i] = q[i]
  BY <1>6, <1>7, <1>8
<1>10. ASSUME NEW i \in 1 .. Len(p) PROVE i \in 1 .. Len(p \o q) /\ (p \o q)[i] = p[i]
  BY <1>6, <1>7
<1>11. ASSUME NEW i \in 1 .. Len(p \o q)
       PROVE  \/ i \in 1 .. Len(p) /\ (p \o q)[i] = p[i]
              \/ /\ i - Len(p) \in 1 .. Len(q) /\ (p \o q)[i] = q[i - Len(p)]
                 /\ i = Len(p) + (i - Len(p))
  BY <1>6, <1>7
<1> QED
  BY <1>5, <1>6, <1>9, <1>10, <1>11

(* A step of two lists is a step of one of them.                           *)
LEMMA HasConcat ==
  ASSUME NEW p, NEW q, IsOps(p), IsOps(q)
  PROVE  /\ \A op, h : Has(p \o q, op, h) <=> Has(p, op, h) \/ Has(q, op, h)
         /\ \A op : HasOp(p \o q, op) <=> HasOp(p, op) \/ HasOp(q, op)
<1> DEFINE r == p \o q
<1>1. /\ \A i \in 1 .. Len(p) : i \in 1 .. Len(r) /\ r[i] = p[i]
      /\ \A i \in 1 .. Len(q) : Len(p) + i \in 1 .. Len(r) /\ r[Len(p) + i] = q[i]
      /\ \A i \in 1 .. Len(r) : \/ i \in 1 .. Len(p) /\ r[i] = p[i]
                                \/ i - Len(p) \in 1 .. Len(q) /\ r[i] = q[i - Len(p)]
  BY ConcatIs
<1> HIDE DEF r
<1>2. ASSUME NEW op, NEW h PROVE Has(r, op, h) <=> Has(p, op, h) \/ Has(q, op, h)
  <2>1. ASSUME NEW i \in 1 .. Len(q), q[i].op = op, q[i].who = h PROVE Has(r, op, h)
    <3>1. Len(p) + i \in 1 .. Len(r) /\ r[Len(p) + i] = q[i]
      BY <1>1
    <3> QED
      BY <2>1, <3>1 DEF Has
  <2>2. ASSUME NEW i \in 1 .. Len(r), r[i].op = op, r[i].who = h PROVE Has(p, op, h) \/ Has(q, op, h)
    BY <1>1, <2>2 DEF Has
  <2>3. ASSUME NEW i \in 1 .. Len(p), p[i].op = op, p[i].who = h PROVE Has(r, op, h)
    BY <1>1, <2>3 DEF Has
  <2> QED
    BY <2>1, <2>2, <2>3 DEF Has
<1>3. ASSUME NEW op PROVE HasOp(r, op) <=> HasOp(p, op) \/ HasOp(q, op)
  <2>1. ASSUME NEW i \in 1 .. Len(q), q[i].op = op PROVE HasOp(r, op)
    <3>1. Len(p) + i \in 1 .. Len(r) /\ r[Len(p) + i] = q[i]
      BY <1>1
    <3> QED
      BY <2>1, <3>1 DEF HasOp
  <2>2. ASSUME NEW i \in 1 .. Len(r), r[i].op = op PROVE HasOp(p, op) \/ HasOp(q, op)
    BY <1>1, <2>2 DEF HasOp
  <2>3. ASSUME NEW i \in 1 .. Len(p), p[i].op = op PROVE HasOp(r, op)
    BY <1>1, <2>3 DEF HasOp
  <2> QED
    BY <2>1, <2>2, <2>3 DEF HasOp
<1> QED
  BY <1>2, <1>3 DEF r

(* A line may ask for nothing.                                             *)
LEMMA FitNone ==
  ASSUME NEW n \in Nat, NEW own
  PROVE  Fit(<<>>, n, n, own) /\ ~HasOp(<<>>, "wipe")
<1>1. IsOps(<<>>)
  BY DEF IsOps
<1> QED
  BY <1>1 DEF Fit, Ready, Has, HasOp

(* Steps that touch only entries that are there.                           *)
LEMMA FitOld ==
  ASSUME NEW n \in Nat, NEW own, NEW q, IsOps(q),
         \A i \in 1 .. Len(q) : q[i].op = "remove" \/ (q[i].op = "replace" /\ q[i].who \in own)
  PROVE  Fit(q, n, n, own) /\ ~HasOp(q, "wipe")
<1>1. ~HasOp(q, "wipe") /\ ~HasOp(q, "reset") /\ \A h : ~Has(q, "take", h) /\ ~Has(q, "add", h)
  BY DEF HasOp, Has
<1>2. Ready(q, 1 .. n, own)
  BY <1>1 DEF Ready
<1>3. \A h : h \notin n + 1 .. n
  OBVIOUS
<1> QED
  BY <1>1, <1>2, <1>3 DEF Fit

(* Replacing an entry that is there.                                       *)
LEMMA FitReplace ==
  ASSUME NEW n \in Nat, NEW own, NEW h \in own, NEW v
  PROVE  Fit(<<ReplaceEntry(h, v)>>, n, n, own) /\ ~HasOp(<<ReplaceEntry(h, v)>>, "wipe")
<1> DEFINE o == ReplaceEntry(h, v)
           q == <<o>>
<1>1. q \in Seq({o}) /\ Len(q) = 1 /\ q[1] = o
  OBVIOUS
<1>2. o.op = "replace" /\ o.who = h
  BY DEF ReplaceEntry
<1> HIDE DEF o, q
<1>3. IsOps(q) /\ \A i \in 1 .. Len(q) : q[i].op = "replace" /\ q[i].who \in own
  BY <1>1, <1>2 DEF IsOps
<1>4. Fit(q, n, n, own) /\ ~HasOp(q, "wipe")
  BY <1>3, FitOld
<1> QED
  BY <1>4 DEF q, o

(* Taking the next index and adding an entry with it.                      *)
LEMMA FitNew ==
  ASSUME NEW n \in Nat, NEW own, NEW v
  PROVE  Fit(AddNew(n + 1, v), n, n + 1, own) /\ ~HasOp(AddNew(n + 1, v), "wipe")
<1> DEFINE a == Take(n + 1)
           b == AddNormalized(n + 1, v)
           q == <<a, b>>
<1>1. q \in Seq({a, b}) /\ Len(q) = 2 /\ q[1] = a /\ q[2] = b
  OBVIOUS
<1>2. a.op = "take" /\ a.who = n + 1 /\ b.op = "add" /\ b.who = n + 1
  BY DEF Take, AddNormalized
<1>3. AddNew(n + 1, v) = q
  BY DEF AddNew
<1> HIDE DEF a, b, q
<1>4. IsOps(q)
  BY <1>1 DEF IsOps
<1>5. 1 .. Len(q) = {1, 2}
  BY <1>1
<1>6. \A op, h : Has(q, op, h) <=> op \in {"take", "add"} /\ h = n + 1
  BY <1>1, <1>2, <1>5 DEF Has
<1>7. ~HasOp(q, "wipe") /\ ~HasOp(q, "reset")
  BY <1>1, <1>2, <1>5 DEF HasOp
<1>8. \A h : h \in n + 1 .. n + 1 <=> h = n + 1
  OBVIOUS
<1>9. OnceOnly(q, 1) /\ OnceOnly(q, 2) /\ HasBefore(q, 2, "take", n + 1)
  BY <1>1, <1>2, <1>5 DEF OnceOnly, HasBefore
<1>10. n + 1 \notin 1 .. n
  OBVIOUS
<1>11. Ready(q, 1 .. n, own)
  BY <1>1, <1>2, <1>5, <1>9, <1>10 DEF Ready
<1> QED
  BY <1>3, <1>4, <1>6, <1>7, <1>8, <1>11 DEF Fit

(* One list after the other.                                               *)
LEMMA FitThen ==
  ASSUME NEW p, NEW q, NEW n, NEW m, NEW k, NEW own, Fit(p, n, m, own), Fit(q, m, k, own),
         ~HasOp(p, "wipe"), ~HasOp(q, "wipe")
  PROVE  Fit(p \o q, n, k, own) /\ ~HasOp(p \o q, "wipe")
<1> DEFINE r == p \o q
<1>0. IsOps(p) /\ IsOps(q)
  BY DEF Fit
<1>1. /\ IsOps(r) /\ Len(p) \in Nat /\ Len(q) \in Nat
      /\ \A i \in 1 .. Len(p) : i \in 1 .. Len(r) /\ r[i] = p[i]
      /\ \A i \in 1 .. Len(q) : Len(p) + i \in 1 .. Len(r) /\ r[Len(p) + i] = q[i]
      /\ \A i \in 1 .. Len(r) : \/ i \in 1 .. Len(p) /\ r[i] = p[i]
                                \/ /\ i - Len(p) \in 1 .. Len(q) /\ r[i] = q[i - Len(p)]
                                   /\ i = Len(p) + (i - Len(p))
  BY <1>0, ConcatIs
<1>2. /\ \A op, h : Has(r, op, h) <=> Has(p, op, h) \/ Has(q, op, h)
      /\ \A op : HasOp(r, op) <=> HasOp(p, op) \/ HasOp(q, op)
  BY <1>0, HasConcat
<1> HIDE DEF r
<1>3. n \in Nat /\ m \in Nat /\ k \in Nat /\ n <= m /\ m <= k
  BY DEF Fit
<1>4. /\ \A h : Has(p, "take", h) <=> h \in n + 1 .. m
      /\ \A h : Has(p, "add", h) <=> h \in n + 1 .. m
      /\ \A h : Has(q, "take", h) <=> h \in m + 1 .. k
      /\ \A h : Has(q, "add", h) <=> h \in m + 1 .. k
  BY DEF Fit
<1>5. \A h : h \in n + 1 .. k <=> h \in n + 1 .. m \/ h \in m + 1 .. k
  BY <1>3
<1>6. \A h : ~(h \in n + 1 .. m /\ h \in m + 1 .. k)
  BY <1>3
<1>7. \A op \in {"take", "add"} : \A h : ~(Has(p, op, h) /\ Has(q, op, h))
  BY <1>4, <1>6
<1>8. ASSUME NEW i \in 1 .. Len(p), p[i].op \in {"take", "add"}, OnceOnly(p, i) PROVE OnceOnly(r, i)
  <2> SUFFICES ASSUME NEW j \in 1 .. Len(r), r[j].op = r[i].op, r[j].who = r[i].who PROVE j = i
    BY DEF OnceOnly
  <2>1. r[i] = p[i]
    BY <1>1
  <2>2. Has(p, p[i].op, p[i].who)
    BY DEF Has
  <2>3. CASE j \in 1 .. Len(p) /\ r[j] = p[j]
    BY <1>8, <2>1, <2>3 DEF OnceOnly
  <2>4. CASE j - Len(p) \in 1 .. Len(q) /\ r[j] = q[j - Len(p)]
    <3>1. Has(q, p[i].op, p[i].who)
      BY <2>1, <2>4 DEF Has
    <3> QED
      BY <1>7, <1>8, <2>2, <3>1
  <2> QED
    BY <1>1, <2>3, <2>4
<1>9. ASSUME NEW i \in 1 .. Len(q), q[i].op \in {"take", "add"}, OnceOnly(q, i)
      PROVE  OnceOnly(r, Len(p) + i)
  <2> SUFFICES ASSUME NEW j \in 1 .. Len(r), r[j].op = r[Len(p) + i].op, r[j].who = r[Len(p) + i].who
               PROVE  j = Len(p) + i
    BY DEF OnceOnly
  <2>1. r[Len(p) + i] = q[i]
    BY <1>1
  <2>2. Has(q, q[i].op, q[i].who)
    BY DEF Has
  <2>3. CASE j \in 1 .. Len(p) /\ r[j] = p[j]
    <3>1. Has(p, q[i].op, q[i].who)
      BY <2>1, <2>3 DEF Has
    <3> QED
      BY <1>7, <1>9, <2>2, <3>1
  <2>4. CASE j - Len(p) \in 1 .. Len(q) /\ r[j] = q[j - Len(p)] /\ j = Len(p) + (j - Len(p))
    BY <1>9, <2>1, <2>4 DEF OnceOnly
  <2> QED
    BY <1>1, <2>3, <2>4
<1>10. ASSUME NEW i \in 1 .. Len(p), NEW op, NEW h, HasBefore(p, i, op, h) PROVE HasBefore(r, i, op, h)
  BY <1>1, <1>10 DEF HasBefore
<1>11. ASSUME NEW i \in 1 .. Len(q), NEW op, NEW h, HasBefore(q, i, op, h) PROVE HasBefore(r, Len(p) + i, op, h)
  <2>1. PICK j \in 1 .. Len(q) : j < i /\ q[j].op = op /\ q[j].who = h
    BY <1>11 DEF HasBefore
  <2>2. Len(p) + j \in 1 .. Len(r) /\ r[Len(p) + j] = q[j] /\ Len(p) + j < Len(p) + i
    BY <1>1, <2>1
  <2> QED
    BY <2>1, <2>2 DEF HasBefore
<1>12. ~HasOp(r, "wipe") /\ ~HasOp(p, "wipe") /\ ~HasOp(q, "wipe")
  BY <1>2
<1>13. \A i \in 1 .. Len(r) : r[i].op # "wipe"
  BY <1>12 DEF HasOp
<1>14. ASSUME NEW i \in 1 .. Len(p)
       PROVE  \/ p[i].op = "take" /\ OnceOnly(p, i) /\ p[i].who \notin 1 .. n
              \/ p[i].op = "add" /\ OnceOnly(p, i) /\ HasBefore(p, i, "take", p[i].who)
              \/ p[i].op = "replace" /\ (p[i].who \in own \/ HasBefore(p, i, "add", p[i].who))
              \/ p[i].op = "remove"
  <2>1. p[i].op = "add" => Has(p, "take", p[i].who)
    BY <1>4 DEF Has
  <2>2. p[i].op # "wipe"
    BY <1>12 DEF HasOp
  <2>3. Ready(p, 1 .. n, own)
    BY DEF Fit
  <2> QED
    BY <1>12, <2>1, <2>2, <2>3 DEF Ready
<1>15. ASSUME NEW i \in 1 .. Len(q)
       PROVE  \/ q[i].op = "take" /\ OnceOnly(q, i) /\ q[i].who \notin 1 .. n
              \/ q[i].op = "add" /\ OnceOnly(q, i) /\ HasBefore(q, i, "take", q[i].who)
              \/ q[i].op = "replace" /\ (q[i].who \in own \/ HasBefore(q, i, "add", q[i].who))
              \/ q[i].op = "remove"
  <2>1. q[i].op = "add" => Has(q, "take", q[i].who)
    BY <1>4 DEF Has
  <2>2. q[i].op # "wipe"
    BY <1>12 DEF HasOp
  <2>3. Ready(q, 1 .. m, own)
    BY DEF Fit
  <2>4. \A h : h \notin 1 .. m => h \notin 1 .. n
    BY <1>3
  <2> QED
    BY <1>12, <2>1, <2>2, <2>3, <2>4 DEF Ready
<1>16. Ready(r, 1 .. n, own)
  <2> SUFFICES ASSUME NEW i \in 1 .. Len(r)
               PROVE  \/ r[i].op = "take" /\ OnceOnly(r, i) /\ r[i].who \notin 1 .. n
                      \/ r[i].op = "add" /\ OnceOnly(r, i) /\ HasBefore(r, i, "take", r[i].who)
                      \/ r[i].op = "replace" /\ (r[i].who \in own \/ HasBefore(r, i, "add", r[i].who))
                      \/ r[i].op = "remove"
    BY <1>12, <1>13 DEF Ready
  <2>1. CASE i \in 1 .. Len(p) /\ r[i] = p[i]
    BY <1>8, <1>10, <1>14, <2>1
  <2>2. CASE i - Len(p) \in 1 .. Len(q) /\ r[i] = q[i - Len(p)] /\ i = Len(p) + (i - Len(p))
    <3>1. PICK j \in 1 .. Len(q) : r[i] = q[j] /\ i = Len(p) + j
      BY <2>2
    <3> QED
      BY <1>9, <1>11, <1>15, <3>1
  <2> QED
    BY <1>1, <2>1, <2>2
<1>17. Fit(r, n, k, own)
  BY <1>1, <1>2, <1>3, <1>4, <1>5, <1>12, <1>16 DEF Fit
<1> QED
  BY <1>12, <1>17 DEF r

-----------------------------------------------------------------------------
(* Patches that are collected first and pushed as a batch.                 *)
Pushes(ps, n, m, own) ==
  /\ IsOps(ps) /\ n \in Nat /\ m \in Nat /\ n <= m
  /\ \A i \in 1 .. Len(ps) :
       \/ ps[i].op = "add" /\ OnceOnly(ps, i) /\ ps[i].who \in n + 1 .. m
       \/ ps[i].op = "replace" /\ ps[i].who \in own
  /\ \A h \in n + 1 .. m : Has(ps, "add", h)

(* A function on 1 .. k is a list of k steps.                              *)
LEMMA MadeIs ==
  ASSUME NEW k \in Nat, NEW q, DOMAIN q = 1 .. k, q = [i \in 1 .. k |-> q[i]]
  PROVE  IsOps(q) /\ Len(q) = k
<1> DEFINE S == {q[i] : i \in 1 .. k}
<1>1. q \in [1 .. k -> S]
  OBVIOUS
<1> HIDE DEF S
<1>2. q \in Seq(S) /\ Len(q) = k
  BY <1>1
<1> QED
  BY <1>2 DEF IsOps

(* No patches.                                                             *)
LEMMA PushesNone ==
  ASSUME NEW n \in Nat, NEW own
  PROVE  Pushes(<<>>, n, n, own)
<1>1. IsOps(<<>>)
  BY DEF IsOps
<1> QED
  BY <1>1 DEF Pushes

(* k new notes.                                                            *)
LEMMA PushesNotes ==
  ASSUME NEW n \in Nat, NEW own, NEW k \in Nat
  PROVE  Pushes([i \in 1 .. k |-> AddNormalized(n + i, Note)], n, n + k, own)
<1> DEFINE a(i) == AddNormalized(n + i, Note)
           q == [i \in 1 .. k |-> a(i)]
<1>1. IsOps(q) /\ Len(q) = k /\ \A i \in 1 .. k : q[i] = a(i)
  <2>1. DOMAIN q = 1 .. k /\ (\A i \in 1 .. k : q[i] = a(i)) /\ q = [i \in 1 .. k |-> q[i]]
    OBVIOUS
  <2> HIDE DEF q
  <2> QED
    BY <2>1, MadeIs
<1>2. \A i \in 1 .. k : a(i).op = "add" /\ a(i).who = n + i
  BY DEF AddNormalized
<1> HIDE DEF a, q
<1>3. IsOps(q)
  BY <1>1
<1>4. \A i \in 1 .. Len(q) : q[i].op = "add" /\ q[i].who = n + i
  BY <1>1, <1>2
<1>5. \A i \in 1 .. Len(q) : OnceOnly(q, i) /\ q[i].who \in n + 1 .. n + k
  BY <1>1, <1>4 DEF OnceOnly
<1>6. ASSUME NEW h \in n + 1 .. n + k PROVE Has(q, "add", h)
  <2>1. h - n \in 1 .. Len(q) /\ n + (h - n) = h
    BY <1>1
  <2> QED
    BY <1>4, <2>1 DEF Has
<1>7. Pushes(q, n, n + k, own)
  BY <1>3, <1>4, <1>5, <1>6 DEF Pushes
<1> QED
  BY <1>7 DEF q, a

(* One new entry.                                                          *)
LEMMA PushesNew ==
  ASSUME NEW n \in Nat, NEW own, NEW v
  PROVE  Pushes(<<AddNormalized(n + 1, v)>>, n, n + 1, own)
<1> DEFINE o == AddNormalized(n + 1, v)
           q == <<o>>
<1>1. q \in Seq({o}) /\ Len(q) = 1 /\ q[1] = o
  OBVIOUS
<1>2. o.op = "add" /\ o.who = n + 1
  BY DEF AddNormalized
<1> HIDE DEF o, q
<1>3. IsOps(q) /\ 1 .. Len(q) = {1}
  BY <1>1 DEF IsOps
<1>4. \A h : h \in n + 1 .. n + 1 <=> h = n + 1
  OBVIOUS
<1>5. Pushes(q, n, n + 1, own)
  BY <1>1, <1>2, <1>3, <1>4 DEF Pushes, OnceOnly, Has
<1> QED
  BY <1>5 DEF q, o

(* One entry replaced.                                                     *)
LEMMA PushesOld ==
  ASSUME NEW n \in Nat, NEW own, NEW h \in own, NEW v
  PROVE  Pushes(<<ReplaceEntry(h, v)>>, n, n, own)
<1> DEFINE o == ReplaceEntry(h, v)
           q == <<o>>
<1>1. q \in Seq({o}) /\ Len(q) = 1 /\ q[1] = o
  OBVIOUS
<1>2. o.op = "replace" /\ o.who = h
  BY DEF ReplaceEntry
<1> HIDE DEF o, q
<1>3. IsOps(q) /\ 1 .. Len(q) = {1}
  BY <1>1 DEF IsOps
<1>4. \A x : x \notin n + 1 .. n
  OBVIOUS
<1>5. Pushes(q, n, n, own)
  BY <1>1, <1>2, <1>3, <1>4 DEF Pushes
<1> QED
  BY <1>5 DEF q, o

(* Patches of two parts of a handler, one after the other.                 *)
LEMMA PushesThen ==
  ASSUME NEW p, NEW q, NEW n, NEW m, NEW k, NEW own, Pushes(p, n, m, own), Pushes(q, m, k, own)
  PROVE  Pushes(p \o q, n, k, own)
<1> DEFINE r == p \o q
<1>0. IsOps(p) /\ IsOps(q)
  BY DEF Pushes
<1>1. /\ IsOps(r) /\ Len(p) \in Nat /\ Len(q) \in Nat
      /\ \A i \in 1 .. Len(p) : i \in 1 .. Len(r) /\ r[i] = p[i]
      /\ \A i \in 1 .. Len(q) : Len(p) + i \in 1 .. Len(r) /\ r[Len(p) + i] = q[i]
      /\ \A i \in 1 .. Len(r) : \/ i \in 1 .. Len(p) /\ r[i] = p[i]
                                \/ /\ i - Len(p) \in 1 .. Len(q) /\ r[i] = q[i - Len(p)]
                                   /\ i = Len(p) + (i - Len(p))
  BY <1>0, ConcatIs
<1>2. \A op, h : Has(r, op, h) <=> Has(p, op, h) \/ Has(q, op, h)
  BY <1>0, HasConcat
<1> HIDE DEF r
<1>3. n \in Nat /\ m \in Nat /\ k \in Nat /\ n <= m /\ m <= k
  BY DEF Pushes
<1>4. \A h : h \in n + 1 .. k <=> h \in n + 1 .. m \/ h \in m + 1 .. k
  BY <1>3
<1>5. \A h : ~(h \in n + 1 .. m /\ h \in m + 1 .. k)
  BY <1>3
<1>6. \A h \in n + 1 .. k : Has(r, "add", h)
  BY <1>2, <1>4 DEF Pushes
<1>7. ASSUME NEW i \in 1 .. Len(p), p[i].op = "add" PROVE OnceOnly(r, i) /\ p[i].who \in n + 1 .. m
  <2>1. OnceOnly(p, i) /\ p[i].who \in n + 1 .. m /\ r[i] = p[i]
    BY <1>1, <1>7 DEF Pushes
  <2>2. ASSUME NEW j \in 1 .. Len(r), r[j].op = r[i].op, r[j].who = r[i].who PROVE j = i
    <3>1. CASE j \in 1 .. Len(p) /\ r[j] = p[j]
      BY <2>1, <2>2, <3>1 DEF OnceOnly
    <3>2. CASE j - Len(p) \in 1 .. Len(q) /\ r[j] = q[j - Len(p)]
      BY <1>5, <1>7, <2>1, <2>2, <3>2 DEF Pushes
    <3> QED
      BY <1>1, <3>1, <3>2
  <2> QED
    BY <2>1, <2>2 DEF OnceOnly
<1>8. ASSUME NEW i \in 1 .. Len(q), q[i].op = "add"
      PROVE  OnceOnly(r, Len(p) + i) /\ q[i].who \in m + 1 .. k
  <2>1. OnceOnly(q, i) /\ q[i].who \in m + 1 .. k /\ r[Len(p) + i] = q[i]
    BY <1>1, <1>8 DEF Pushes
  <2>2. ASSUME NEW j \in 1 .. Len(r), r[j].op = r[Len(p) + i].op, r[j].who = r[Len(p) + i].who
        PROVE  j = Len(p) + i
    <3>1. CASE j \in 1 .. Len(p) /\ r[j] = p[j]
      BY <1>5, <1>8, <2>1, <2>2, <3>1 DEF Pushes
    <3>2. CASE j - Len(p) \in 1 .. Len(q) /\ r[j] = q[j - Len(p)] /\ j = Len(p) + (j - Len(p))
      BY <2>1, <2>2, <3>2 DEF OnceOnly
    <3> QED
      BY <1>1, <3>1, <3>2
  <2> QED
    BY <2>1, <2>2 DEF OnceOnly
<1>9. ASSUME NEW i \in 1 .. Len(r)
      PROVE  \/ r[i].op = "add" /\ OnceOnly(r, i) /\ r[i].who \in n + 1 .. k
             \/ r[i].op = "replace" /\ r[i].who \in own
  <2>1. CASE i \in 1 .. Len(p) /\ r[i] = p[i]
    <3>1. p[i].op = "add" \/ (p[i].op = "replace" /\ p[i].who \in own)
      BY <2>1 DEF Pushes
    <3> QED
      BY <1>4, <1>7, <2>1, <3>1
  <2>2. CASE i - Len(p) \in 1 .. Len(q) /\ r[i] = q[i - Len(p)] /\ i = Len(p) + (i - Len(p))
    <3>1. PICK j \in 1 .. Len(q) : r[i] = q[j] /\ i = Len(p) + j
      BY <2>2
    <3>2. q[j].op = "add" \/ (q[j].op = "replace" /\ q[j].who \in own)
      BY DEF Pushes
    <3> QED
      BY <1>4, <1>8, <3>1, <3>2
  <2> QED
    BY <1>1, <2>1, <2>2
<1>10. Pushes(r, n, k, own)
  BY <1>1, <1>3, <1>6, <1>9 DEF Pushes
<1> QED
  BY <1>10 DEF r

(* The batch made of collected patches fits.                               *)
LEMMA FitBatch ==
  ASSUME NEW ps, NEW n, NEW m, NEW own, Pushes(ps, n, m, own)
  PROVE  Fit(Batch(n, m, ps), n, m, own) /\ ~HasOp(Batch(n, m, ps), "wipe")
<1> DEFINE a(i) == Take(n + i)
           takes == [i \in 1 .. m - n |-> a(i)]
           T == <<>> \o takes
           r == T \o ps
<1>0. n \in Nat /\ m \in Nat /\ n <= m /\ IsOps(ps) /\ m - n \in Nat
  BY DEF Pushes
<1>1. IsOps(takes) /\ Len(takes) = m - n /\ \A i \in 1 .. m - n : takes[i] = a(i)
  <2>1. DOMAIN takes = 1 .. m - n /\ (\A i \in 1 .. m - n : takes[i] = a(i)) /\ takes = [i \in 1 .. m - n |-> takes[i]]
    OBVIOUS
  <2> HIDE DEF takes
  <2> QED
    BY <1>0, <2>1, MadeIs
<1>2. \A i \in 1 .. m - n : a(i).op = "take" /\ a(i).who = n + i
  BY DEF Take
<1>3. Batch(n, m, ps) = r
  <2>1. ASSUME ps # <<>> PROVE Head(ps).op # "wipe"
    <3>1. 1 \in 1 .. Len(ps) /\ Head(ps) = ps[1]
      BY <1>0, <2>1, TailIs
    <3> QED
      BY <3>1 DEF Pushes
  <2> QED
    BY <2>1 DEF Batch
<1> HIDE DEF a, takes
<1>4. IsOps(<<>>)
  BY DEF IsOps
<1>5. IsOps(T) /\ Len(T) = m - n /\ \A i \in 1 .. m - n : T[i] = takes[i]
  <2>1. /\ IsOps(T) /\ Len(T) = Len(<<>>) + Len(takes)
        /\ \A i \in 1 .. Len(takes) : T[Len(<<>>) + i] = takes[i]
    BY <1>1, <1>4, ConcatIs
  <2>2. Len(<<>>) = 0 /\ \A i \in 1 .. m - n : 0 + i = i
    BY <1>0
  <2> QED
    BY <1>0, <1>1, <2>1, <2>2
<1> HIDE DEF T
<1>6. IsOps(T) /\ \A i \in 1 .. Len(T) : T[i].op = "take" /\ T[i].who = n + i
  BY <1>1, <1>2, <1>5
<1>7. /\ IsOps(r) /\ Len(T) \in Nat /\ Len(ps) \in Nat
      /\ \A i \in 1 .. Len(T) : i \in 1 .. Len(r) /\ r[i] = T[i]
      /\ \A i \in 1 .. Len(ps) : Len(T) + i \in 1 .. Len(r) /\ r[Len(T) + i] = ps[i]
      /\ \A i \in 1 .. Len(r) : \/ i \in 1 .. Len(T) /\ r[i] = T[i]
                                \/ /\ i - Len(T) \in 1 .. Len(ps) /\ r[i] = ps[i - Len(T)]
                                   /\ i = Len(T) + (i - Len(T))
  BY <1>0, <1>6, ConcatIs
<1>8. /\ \A op, h : Has(r, op, h) <=> Has(T, op, h) \/ Has(ps, op, h)
      /\ \A op : HasOp(r, op) <=> HasOp(T, op) \/ HasOp(ps, op)
  BY <1>0, <1>6, HasConcat
<1> HIDE DEF r
<1>9. \A h : Has(T, "take", h) <=> h \in n + 1 .. m
  <2>1. ASSUME NEW h \in n + 1 .. m PROVE Has(T, "take", h)
    <3>1. h - n \in 1 .. Len(T) /\ n + (h - n) = h
      BY <1>0, <1>5
    <3> QED
      BY <1>6, <3>1 DEF Has
  <2>2. ASSUME NEW i \in 1 .. Len(T) PROVE n + i \in n + 1 .. m
    BY <1>0, <1>5
  <2> QED
    BY <1>6, <2>1, <2>2 DEF Has
<1>10. /\ \A h : ~Has(T, "add", h) /\ ~Has(ps, "take", h)
       /\ ~HasOp(T, "wipe") /\ ~HasOp(ps, "wipe")
  BY <1>6 DEF Has, HasOp, Pushes
<1>11. \A h : Has(ps, "add", h) <=> h \in n + 1 .. m
  BY DEF Has, Pushes
<1>12. ASSUME NEW i \in 1 .. Len(T)
       PROVE  r[i].op = "take" /\ OnceOnly(r, i) /\ r[i].who \notin 1 .. n
  <2>1. r[i].op = "take" /\ r[i].who = n + i /\ n + i \notin 1 .. n
    BY <1>0, <1>6, <1>7
  <2>2. ASSUME NEW j \in 1 .. Len(r), r[j].op = r[i].op, r[j].who = r[i].who PROVE j = i
    <3>1. CASE j \in 1 .. Len(T) /\ r[j] = T[j]
      BY <1>0, <1>6, <2>1, <2>2, <3>1
    <3>2. CASE j - Len(T) \in 1 .. Len(ps) /\ r[j] = ps[j - Len(T)]
      BY <1>10, <2>1, <2>2, <3>2 DEF Has
    <3> QED
      BY <1>7, <3>1, <3>2
  <2> QED
    BY <2>1, <2>2 DEF OnceOnly
<1>13. ASSUME NEW j \in 1 .. Len(ps), NEW i, i = Len(T) + j
       PROVE  \/ r[i].op = "add" /\ OnceOnly(r, i) /\ HasBefore(r, i, "take", r[i].who)
              \/ r[i].op = "replace" /\ r[i].who \in own
  <2>1. r[i] = ps[j] /\ i \in 1 .. Len(r)
    BY <1>7, <1>13
  <2>2. CASE ps[j].op = "replace" /\ ps[j].who \in own
    BY <2>1, <2>2
  <2>3. CASE ps[j].op = "add" /\ OnceOnly(ps, j) /\ ps[j].who \in n + 1 .. m
    <3>1. PICK x \in 1 .. Len(T) : T[x].op = "take" /\ T[x].who = ps[j].who
      BY <1>9, <2>3 DEF Has
    <3>2. x \in 1 .. Len(r) /\ x < i /\ r[x] = T[x]
      BY <1>7, <1>13
    <3>3. HasBefore(r, i, "take", r[i].who)
      BY <2>1, <3>1, <3>2 DEF HasBefore
    <3>4. ASSUME NEW y \in 1 .. Len(r), r[y].op = r[i].op, r[y].who = r[i].who PROVE y = i
      <4>1. CASE y \in 1 .. Len(T) /\ r[y] = T[y]
        BY <1>6, <2>1, <2>3, <3>4, <4>1
      <4>2. CASE y - Len(T) \in 1 .. Len(ps) /\ r[y] = ps[y - Len(T)] /\ y = Len(T) + (y - Len(T))
        BY <1>13, <2>1, <2>3, <3>4, <4>2 DEF OnceOnly
      <4> QED
        BY <1>7, <4>1, <4>2
    <3> QED
      BY <2>1, <2>3, <3>3, <3>4 DEF OnceOnly
  <2> QED
    BY <2>2, <2>3 DEF Pushes
<1>14. ~HasOp(r, "wipe") /\ \A i \in 1 .. Len(r) : r[i].op # "wipe"
  BY <1>8, <1>10 DEF HasOp
<1>15. Ready(r, 1 .. n, own)
  <2> SUFFICES ASSUME NEW i \in 1 .. Len(r)
               PROVE  \/ r[i].op = "take" /\ OnceOnly(r, i) /\ r[i].who \notin 1 .. n
                      \/ r[i].op = "add" /\ OnceOnly(r, i) /\ HasBefore(r, i, "take", r[i].who)
                      \/ r[i].op = "replace" /\ r[i].who \in own
    BY <1>14 DEF Ready
  <2> QED
    BY <1>7, <1>12, <1>13
<1>16. Fit(r, n, m, own)
  BY <1>0, <1>7, <1>8, <1>9, <1>10, <1>11, <1>14, <1>15 DEF Fit
<1> QED
  BY <1>3, <1>14, <1>16

(* Amp's replay of a thread.                                               *)
LEMMA FitReplay ==
  ASSUME NEW n \in Nat, NEW own, NEW v
  PROVE  Fit(Batch(n, n + 1, <<Wipe, AddNormalized(n + 1, v)>>), n, n + 1, own)
<1> DEFINE b == AddNormalized(n + 1, v)
           w == <<Wipe, b>>
           takes == [i \in 1 .. ((n + 1) - n) |-> Take(n + i)]
           e == <<Reset>>
           T == e \o takes
           r == T \o w
<1>1. Batch(n, n + 1, w) = r
  <2>1. w # <<>> /\ Head(w) = Wipe /\ Wipe.op = "wipe"
    BY DEF Wipe
  <2> HIDE DEF b, w
  <2> QED
    BY <2>1 DEF Batch
<1>2. /\ Wipe.op = "wipe" /\ Reset.op = "reset" /\ b.op = "add" /\ b.who = n + 1
      /\ Take(n + 1).op = "take" /\ Take(n + 1).who = n + 1
  BY DEF Wipe, Reset, AddNormalized, Take
<1>3. IsOps(w) /\ Len(w) = 2 /\ w[1] = Wipe /\ w[2] = b
  <2>1. w \in Seq({Wipe, b})
    OBVIOUS
  <2> QED
    BY <2>1 DEF IsOps
<1>4. IsOps(e) /\ Len(e) = 1 /\ e[1] = Reset
  <2>1. e \in Seq({Reset})
    OBVIOUS
  <2> QED
    BY <2>1 DEF IsOps
<1>5. IsOps(takes) /\ Len(takes) = 1 /\ takes[1] = Take(n + 1)
  <2>1. (n + 1) - n = 1 /\ 1 \in Nat /\ 1 \in 1 .. 1
    OBVIOUS
  <2>2. DOMAIN takes = 1 .. 1 /\ takes[1] = Take(n + 1) /\ takes = [i \in 1 .. 1 |-> takes[i]]
    BY <2>1
  <2> HIDE DEF takes
  <2> QED
    BY <2>1, <2>2, MadeIs
<1> HIDE DEF b, w, takes, e
<1>6. IsOps(T) /\ Len(T) = 2 /\ T[1] = Reset /\ T[2] = Take(n + 1)
  <2>1. /\ IsOps(T) /\ Len(T) = Len(e) + Len(takes)
        /\ \A i \in 1 .. Len(e) : T[i] = e[i]
        /\ \A i \in 1 .. Len(takes) : T[Len(e) + i] = takes[i]
    <3>1. IsOps(e) /\ IsOps(takes)
      BY <1>4, <1>5
    <3> QED
      BY <3>1, ConcatIs
  <2> QED
    BY <1>4, <1>5, <2>1
<1> HIDE DEF T
<1>7. IsOps(r) /\ Len(r) = 4 /\ r[1] = Reset /\ r[2] = Take(n + 1) /\ r[3] = Wipe /\ r[4] = b
  <2>1. /\ IsOps(r) /\ Len(r) = Len(T) + Len(w)
        /\ \A i \in 1 .. Len(T) : r[i] = T[i]
        /\ \A i \in 1 .. Len(w) : r[Len(T) + i] = w[i]
    <3>1. IsOps(T) /\ IsOps(w)
      BY <1>3, <1>6
    <3> QED
      BY <3>1, ConcatIs
  <2>2. r[2 + 1] = w[1] /\ r[2 + 2] = w[2]
    BY <1>3, <1>6, <2>1
  <2> QED
    BY <1>3, <1>6, <2>1, <2>2
<1> HIDE DEF r
<1>8. 1 .. Len(r) = {1, 2, 3, 4}
  BY <1>7
<1>9. /\ r[1].op = "reset" /\ r[2].op = "take" /\ r[2].who = n + 1 /\ r[3].op = "wipe"
      /\ r[4].op = "add" /\ r[4].who = n + 1
  BY <1>2, <1>7
<1>10. /\ \A h : Has(r, "take", h) <=> h = n + 1
       /\ \A h : Has(r, "add", h) <=> h = n + 1
       /\ HasOp(r, "wipe") /\ HasOp(r, "reset")
  BY <1>8, <1>9 DEF Has, HasOp
<1>11. OnceOnly(r, 2) /\ OnceOnly(r, 4) /\ HasBefore(r, 4, "take", n + 1)
  BY <1>8, <1>9 DEF OnceOnly, HasBefore
<1>12. n + 1 \notin 1 .. n /\ \A h : h \in n + 1 .. n + 1 <=> h = n + 1
  OBVIOUS
<1>13. \A j \in 1 .. Len(r) : r[j].op = "wipe" => j < 4
  BY <1>8, <1>9
<1>14. \A j \in 1 .. Len(r) : r[j].op = "add" => Has(r, "take", r[j].who)
  BY <1>8, <1>9, <1>10
<1>15. Ready(r, 1 .. n, own)
  <2> SUFFICES ASSUME NEW i \in {1, 2, 3, 4}
               PROVE  \/ r[i].op = "take" /\ OnceOnly(r, i) /\ r[i].who \notin 1 .. n
                      \/ /\ r[i].op = "add" /\ OnceOnly(r, i)
                         /\ \A j \in 1 .. Len(r) : r[j].op = "wipe" => j < i
                         /\ HasBefore(r, i, "take", r[i].who)
                      \/ /\ r[i].op = "reset" /\ i = 1 /\ HasOp(r, "wipe")
                         /\ \A j \in 1 .. Len(r) : r[j].op = "add" => Has(r, "take", r[j].who)
                      \/ r[i].op = "wipe"
    BY <1>8 DEF Ready
  <2> QED
    BY <1>9, <1>10, <1>11, <1>12, <1>13, <1>14
<1>16. Fit(r, n, n + 1, own)
  BY <1>7, <1>10, <1>12, <1>15 DEF Fit
<1> QED
  BY <1>1, <1>16 DEF w, b

-----------------------------------------------------------------------------
(* The plain text processor.                                               *)
PlainOK(p) == /\ DOMAIN p = {"buf", "cur", "n", "ops"}
              /\ p.n \in Nat

(* Appending to the empty list.                                            *)
LEMMA EmptyFirst ==
  ASSUME NEW x
  PROVE  <<>> \o <<x>> = <<x>>
OBVIOUS

(* One chunk makes one entry, changes the current one, or neither.         *)
Chunk(p, r) ==
  /\ PlainOK(r)
  /\ \/ r.n = p.n /\ r.ops = <<>> /\ r.cur \in {0, p.cur}
     \/ r.n = p.n + 1 /\ r.cur \in {0, p.n + 1} /\ \E v : r.ops = <<AddNormalized(p.n + 1, v)>>
     \/ r.n = p.n /\ p.cur # 0 /\ r.cur \in {0, p.cur} /\ \E v : r.ops = <<ReplaceEntry(p.cur, v)>>

(* create_patch adds an entry or replaces the current one.                 *)
LEMMA CreatePatch ==
  ASSUME NEW p, PlainOK(p), p.ops = <<>>, NEW t
  PROVE  LET r == create_patch(p, t) IN
         /\ PlainOK(r)
         /\ \/ r.n = p.n + 1 /\ r.cur = p.n + 1 /\ r.ops = <<AddNormalized(p.n + 1, Text(t))>>
            \/ r.n = p.n /\ p.cur # 0 /\ r.cur = p.cur /\ r.ops = <<ReplaceEntry(p.cur, Text(t))>>
<1> DEFINE r == create_patch(p, t)
<1>1. CASE p.cur = 0
  <2>1. r = [p EXCEPT !.n = @ + 1, !.cur = p.n + 1, !.ops = @ \o <<AddNormalized(p.n + 1, Text(t))>>]
    BY <1>1 DEF create_patch
  <2>2. r.n = p.n + 1 /\ r.cur = p.n + 1 /\ r.ops = <<>> \o <<AddNormalized(p.n + 1, Text(t))>> /\ DOMAIN r = DOMAIN p
    BY <2>1 DEF PlainOK
  <2> QED
    BY <2>2, EmptyFirst DEF PlainOK
<1>2. CASE p.cur # 0
  <2>1. r = [p EXCEPT !.ops = @ \o <<ReplaceEntry(p.cur, Text(t))>>]
    BY <1>2 DEF create_patch
  <2>2. r.n = p.n /\ r.cur = p.cur /\ r.ops = <<>> \o <<ReplaceEntry(p.cur, Text(t))>> /\ DOMAIN r = DOMAIN p
    BY <2>1 DEF PlainOK
  <2> QED
    BY <1>2, <2>2, EmptyFirst DEF PlainOK
<1> QED
  BY <1>1, <1>2

(* process makes at most one entry or replaces the current one.            *)
LEMMA ProcessIs ==
  ASSUME NEW p0, PlainOK(p0), NEW line, NEW gap, NEW limit
  PROVE  Chunk(p0, process(p0, line, gap, limit))
<1> DEFINE p == [p0 EXCEPT !.ops = <<>>]
           a == [p EXCEPT !.buf = Append(@, line)]
           b == SplitBySize(a, limit)
<1>1. PlainOK(p) /\ p.ops = <<>> /\ p.n = p0.n /\ p.cur = p0.cur
  BY DEF PlainOK
<1>2. PlainOK(a) /\ a.ops = <<>> /\ a.n = p0.n /\ a.cur = p0.cur
  BY <1>1 DEF PlainOK
<1> HIDE DEF p, a
<1>3. CASE p.buf # <<>> /\ gap
  <2> DEFINE c == create_patch(p, p.buf)
             r == [c EXCEPT !.buf = <<>>]
  <2>1. process(p0, line, gap, limit) = r
    BY <1>3 DEF process, p
  <2>2. /\ PlainOK(c)
        /\ \/ c.n = p.n + 1 /\ c.cur = p.n + 1 /\ c.ops = <<AddNormalized(p.n + 1, Text(p.buf))>>
           \/ c.n = p.n /\ p.cur # 0 /\ c.cur = p.cur /\ c.ops = <<ReplaceEntry(p.cur, Text(p.buf))>>
    BY <1>1, CreatePatch
  <2> HIDE DEF c
  <2>3. PlainOK(r) /\ r.n = c.n /\ r.cur = c.cur /\ r.ops = c.ops
    BY <2>2 DEF PlainOK
  <2> HIDE DEF r
  <2> QED
    BY <1>1, <2>1, <2>2, <2>3 DEF Chunk
<1>4. CASE ~(p.buf # <<>> /\ gap)
  <2>1. process(p0, line, gap, limit) = PartialUpdate(b)
    BY <1>4 DEF process, p, a
  <2> DEFINE c == create_patch(a, a.buf)
             d == [c EXCEPT !.buf = <<>>, !.cur = 0]
  <2>2. /\ PlainOK(c)
        /\ \/ c.n = a.n + 1 /\ c.cur = a.n + 1 /\ c.ops = <<AddNormalized(a.n + 1, Text(a.buf))>>
           \/ c.n = a.n /\ a.cur # 0 /\ c.cur = a.cur /\ c.ops = <<ReplaceEntry(a.cur, Text(a.buf))>>
    BY <1>2, CreatePatch
  <2>3. b = a \/ b = d
    BY DEF SplitBySize
  <2>4. b = a => PartialUpdate(b) \in {a, c}
    BY DEF PartialUpdate
  <2> HIDE DEF c
  <2>5. PlainOK(d) /\ d.n = c.n /\ d.cur = 0 /\ d.ops = c.ops /\ d.buf = <<>>
    BY <2>2 DEF PlainOK
  <2> HIDE DEF d, b
  <2>6. PartialUpdate(d) = d
    BY <2>5 DEF PartialUpdate
  <2>7. Chunk(p0, a) /\ Chunk(p0, c) /\ Chunk(p0, d)
    BY <1>2, <2>2, <2>5 DEF Chunk
  <2> QED
    BY <2>1, <2>3, <2>4, <2>6, <2>7
<1> QED
  BY <1>3, <1>4

(* The batch of a chunk fits and takes at most one index.                  *)
LEMMA ChunkFits ==
  ASSUME NEW p, PlainOK(p), NEW r, Chunk(p, r)
  PROVE  /\ PlainOK(r)
         /\ Fit(Batch(p.n, r.n, r.ops), p.n, r.n, PlainLive(p)) /\ ~HasOp(Batch(p.n, r.n, r.ops), "wipe")
         /\ PlainLive(r) \subseteq PlainLive(p) \cup (p.n + 1 .. r.n)
         /\ \A h, k \in p.n + 1 .. r.n : h = k
<1>0. PlainOK(r) /\ p.n \in Nat
  BY DEF Chunk, PlainOK
<1>1. Pushes(r.ops, p.n, r.n, PlainLive(p))
  BY <1>0, PushesNone, PushesNew, PushesOld DEF Chunk, PlainLive
<1>2. PlainLive(r) \subseteq PlainLive(p) \cup (p.n + 1 .. r.n)
  BY <1>0 DEF Chunk, PlainLive
<1>3. \A h, k \in p.n + 1 .. r.n : h = k
  BY <1>0 DEF Chunk
<1> QED
  BY <1>0, <1>1, <1>2, <1>3, FitBatch

(* What the handling of a line promises: q is what it asks for, when the   *)
(* handles go up from n to m and those in live are replaced by live2.      *)
Moves(q, n, m, live, live2) ==
  /\ Fit(q, n, m, live)
  /\ live2 \subseteq live \cup (n + 1 .. m)
  /\ HasOp(q, "wipe") => live2 = {}

(* A line that asks for nothing.                                           *)
LEMMA MovesNone ==
  ASSUME NEW n \in Nat, NEW live, NEW live2, live2 \subseteq live
  PROVE  Moves(<<>>, n, n, live, live2)
BY FitNone DEF Moves

(* A line that shows one new entry.                                        *)
LEMMA MovesNew ==
  ASSUME NEW n \in Nat, NEW v, NEW live, NEW live2, live2 \subseteq live \cup {n + 1}
  PROVE  Moves(AddNew(n + 1, v), n, n + 1, live, live2)
<1>1. n + 1 \in n + 1 .. n + 1
  OBVIOUS
<1> QED
  BY <1>1, FitNew DEF Moves

(* A line that replaces an entry.                                          *)
LEMMA MovesOld ==
  ASSUME NEW n \in Nat, NEW live, NEW h \in live, NEW v, NEW live2, live2 \subseteq live
  PROVE  Moves(<<ReplaceEntry(h, v)>>, n, n, live, live2)
BY FitReplace DEF Moves

(* A line whose patches are pushed as a batch.                             *)
LEMMA MovesBatch ==
  ASSUME NEW ps, NEW n, NEW m, NEW live, Pushes(ps, n, m, live),
         NEW live2, live2 \subseteq live \cup (n + 1 .. m)
  PROVE  Moves(Batch(n, m, ps), n, m, live, live2)
BY FitBatch DEF Moves

(* An error line of OpenCode is one new entry.                             *)
LEMMA ErrorLine ==
  ASSUME NEW p, PlainOK(p)
  PROVE  LET r == OpencodeErrorLine(p) IN
         PlainOK(r) /\ r.n = p.n + 1 /\ r.ops = AddNew(p.n + 1, Note) /\ PlainLive(r) = PlainLive(p)
BY DEF OpencodeErrorLine, PlainOK, PlainLive

-----------------------------------------------------------------------------
(* Copilot.                                                                *)
CopilotOK(s) == /\ DOMAIN s = {"n", "p", "said", "expect", "outcome"}
                /\ PlainOK(s.p) /\ s.n = s.p.n

(* Every line of Copilot.                                                  *)
LEMMA CopilotLine ==
  ASSUME NEW s, CopilotOK(s), NEW l
  PROVE  LET r == CopilotProcess(s, l) IN
         CopilotOK(r.st) /\ Moves(r.ops, s.n, r.st.n, PlainLive(s.p), PlainLive(r.st.p))
<1>0. s.n \in Nat /\ PlainOK(s.p) /\ s.n = s.p.n
  BY DEF CopilotOK, PlainOK
<1>1. CASE l.t = "session"
  <2>1. CopilotProcess(s, l).st = s /\ CopilotProcess(s, l).ops = <<>>
    BY <1>1 DEF CopilotProcess, Done
  <2> QED
    BY <1>0, <2>1, MovesNone
<1>2. CASE l.t # "session"
  <2> DEFINE p == process(s.p, s.said + 1, FALSE, SizeThreshold)
             t == [s EXCEPT !.p = p, !.n = p.n, !.said = @ + 1, !.expect = @ \cup {s.said + 1}]
             q == Batch(s.n, p.n, p.ops)
  <2>1. CopilotProcess(s, l).st = t /\ CopilotProcess(s, l).ops = q
    BY <1>2 DEF CopilotProcess, Done
  <2>2. Chunk(s.p, p)
    BY <1>0, ProcessIs
  <2> HIDE DEF p
  <2>3. t.p = p /\ t.n = p.n /\ DOMAIN t = DOMAIN s
    BY DEF CopilotOK
  <2>4. /\ PlainOK(p) /\ Fit(q, s.n, p.n, PlainLive(s.p)) /\ ~HasOp(q, "wipe")
        /\ PlainLive(p) \subseteq PlainLive(s.p) \cup (s.n + 1 .. p.n)
    BY <1>0, <2>2, ChunkFits
  <2> HIDE DEF t, q
  <2>5. CopilotOK(t)
    BY <2>3, <2>4 DEF CopilotOK
  <2>6. Moves(q, s.n, t.n, PlainLive(s.p), PlainLive(t.p))
    BY <2>3, <2>4 DEF Moves
  <2> QED
    BY <2>1, <2>5, <2>6
<1> QED
  BY <1>1, <1>2

-----------------------------------------------------------------------------
(* Cursor and ACP.                                                         *)
ChatOK(s) ==
  /\ DOMAIN s = {"n", "named", "asst", "abuf", "think", "tbuf", "tools", "status", "kind",
                 "said", "expect", "outcome"}
  /\ s.n \in Nat /\ DOMAIN s.tools = Call

ChatMoves(s, r) == ChatOK(r.st) /\ Moves(r.ops, s.n, r.st.n, ChatLive(s), ChatLive(r.st))

(* The state r keeps what ChatLive looks at, or forgets texts.             *)
ChatSame(s, r) == /\ ChatOK(r) /\ r.n = s.n /\ r.tools = s.tools
                  /\ r.asst \in {0, s.asst} /\ r.think \in {0, s.think}

(* Closing collected texts only forgets handles.                           *)
LEMMA ChatDrops ==
  ASSUME NEW s, ChatOK(s)
  PROVE  /\ ChatSame(s, DropAssistant(s)) /\ ChatSame(s, DropThinking(s))
         /\ ChatSame(s, DropThinking(DropAssistant(s))) /\ \A t : ChatSame(s, CursorFlush(s, t))
<1>1. \A r : ChatOK(r) => ChatSame(r, DropAssistant(r)) /\ ChatSame(r, DropThinking(r))
  BY DEF ChatOK, ChatSame, DropAssistant, DropThinking
<1>2. ChatSame(s, DropThinking(DropAssistant(s)))
  BY <1>1 DEF ChatSame
<1>3. ASSUME NEW t PROVE ChatSame(s, CursorFlush(s, t))
  <2> DEFINE a == IF t # "assistant" /\ s.asst # 0 THEN DropAssistant(s) ELSE s
  <2>1. ChatSame(s, a)
    BY <1>1 DEF ChatSame
  <2> HIDE DEF a
  <2>2. CursorFlush(s, t) \in {a, DropThinking(a)}
    BY DEF CursorFlush, a
  <2> QED
    BY <1>1, <2>1, <2>2 DEF ChatSame
<1> QED
  BY <1>1, <1>2, <1>3

(* A handler may start by closing texts.                                   *)
LEMMA ChatAfter ==
  ASSUME NEW s, ChatOK(s), NEW f, ChatSame(s, f), NEW r, ChatMoves(f, r)
  PROVE  ChatMoves(s, r)
<1>1. ChatLive(f) \subseteq ChatLive(s) /\ f.n = s.n
  BY DEF ChatSame, ChatLive
<1>2. Fit(r.ops, s.n, r.st.n, ChatLive(s))
  BY <1>1, ReadyMore DEF ChatMoves, Moves, Fit
<1> QED
  BY <1>1, <1>2 DEF ChatMoves, Moves

(* A line that only closes texts.                                          *)
LEMMA ChatKeep ==
  ASSUME NEW s, ChatOK(s), NEW f, ChatSame(s, f)
  PROVE  ChatMoves(s, Done(f, <<>>))
<1>1. ChatLive(f) \subseteq ChatLive(s) /\ f.n = s.n /\ s.n \in Nat /\ ChatOK(f)
  BY DEF ChatSame, ChatLive, ChatOK
<1> QED
  BY <1>1, MovesNone DEF ChatMoves, Done

(* A note.                                                                 *)
LEMMA ChatNoteMoves ==
  ASSUME NEW s, ChatOK(s)
  PROVE  ChatMoves(s, ChatNote(s))
<1> DEFINE t == [s EXCEPT !.n = @ + 1]
<1>1. ChatNote(s).st = t /\ ChatNote(s).ops = AddNew(s.n + 1, Note)
  BY DEF ChatNote, Done
<1>2. ChatOK(t) /\ t.n = s.n + 1 /\ t.asst = s.asst /\ t.think = s.think /\ t.tools = s.tools
  BY DEF ChatOK
<1> HIDE DEF t
<1>3. ChatLive(t) = ChatLive(s) /\ s.n \in Nat
  BY <1>2 DEF ChatLive, ChatOK
<1> QED
  BY <1>1, <1>2, <1>3, MovesNew DEF ChatMoves

(* A new entry is shown, or one that is there replaced.                    *)
LEMMA ChatNew ==
  ASSUME NEW s, ChatOK(s), NEW r, ChatOK(r.st), NEW v, r.ops = AddNew(s.n + 1, v),
         r.st.n = s.n + 1, ChatLive(r.st) \subseteq ChatLive(s) \cup {s.n + 1}
  PROVE  ChatMoves(s, r)
<1>1. s.n \in Nat
  BY DEF ChatOK
<1> QED
  BY <1>1, MovesNew DEF ChatMoves

(* An entry that is there is replaced.                                     *)
LEMMA ChatOld ==
  ASSUME NEW s, ChatOK(s), NEW r, ChatOK(r.st), NEW h \in ChatLive(s), NEW v,
         r.ops = <<ReplaceEntry(h, v)>>, r.st.n = s.n, ChatLive(r.st) \subseteq ChatLive(s)
  PROVE  ChatMoves(s, r)
<1>1. s.n \in Nat
  BY DEF ChatOK
<1> QED
  BY <1>1, MovesOld DEF ChatMoves

(* Collect adds an entry if there is none, and else replaces it.           *)
LEMMA CollectIs ==
  ASSUME NEW s, ChatOK(s), NEW cur, NEW buf
  PROVE  LET r == Collect(s, cur, buf)
             v == Text(Append(buf, s.said + 1))
         IN  /\ ChatOK(r.st) /\ r.st.asst = s.asst /\ r.st.think = s.think /\ r.st.tools = s.tools
             /\ cur = 0 => r.h = s.n + 1 /\ r.st.n = s.n + 1 /\ r.ops = AddNew(s.n + 1, v)
             /\ cur # 0 => r.h = cur /\ r.st.n = s.n /\ r.ops = <<ReplaceEntry(cur, v)>>
<1> DEFINE r == Collect(s, cur, buf)
           v == Text(Append(buf, s.said + 1))
           t == [s EXCEPT !.n = IF cur = 0 THEN @ + 1 ELSE @,
                          !.said = @ + 1, !.expect = @ \cup {s.said + 1}]
<1>1. /\ r.st = t /\ r.h = (IF cur = 0 THEN s.n + 1 ELSE cur)
      /\ r.ops = (IF cur = 0 THEN AddNew(s.n + 1, v) ELSE <<ReplaceEntry(cur, v)>>)
  BY DEF Collect
<1>2. /\ ChatOK(t) /\ t.asst = s.asst /\ t.think = s.think /\ t.tools = s.tools
      /\ t.n = (IF cur = 0 THEN s.n + 1 ELSE s.n)
  BY DEF ChatOK
<1> HIDE DEF r, v, t
<1> QED
  BY <1>1, <1>2 DEF r, v

(* Both kinds of collected texts.                                          *)
LEMMA CollectMoves ==
  ASSUME NEW s, ChatOK(s)
  PROVE  ChatMoves(s, CollectAssistant(s)) /\ ChatMoves(s, CollectThinking(s))
<1>2. ChatMoves(s, CollectAssistant(s))
  <2> DEFINE c == Collect(s, s.asst, s.abuf)
             r == CollectAssistant(s)
             t == [c.st EXCEPT !.asst = c.h, !.abuf = c.t]
             v == Text(Append(s.abuf, s.said + 1))
  <2>1. r.st = t /\ r.ops = c.ops
    BY DEF CollectAssistant, Done
  <2>2. /\ ChatOK(c.st) /\ c.st.think = s.think /\ c.st.tools = s.tools
        /\ s.asst = 0 => c.h = s.n + 1 /\ c.st.n = s.n + 1 /\ c.ops = AddNew(s.n + 1, v)
        /\ s.asst # 0 => c.h = s.asst /\ c.st.n = s.n /\ c.ops = <<ReplaceEntry(s.asst, v)>>
    BY CollectIs
  <2> HIDE DEF c, v
  <2>3. ChatOK(t) /\ t.n = c.st.n /\ t.asst = c.h /\ t.think = s.think /\ t.tools = s.tools
    BY <2>2 DEF ChatOK
  <2> HIDE DEF t, r
  <2>4. CASE s.asst = 0
    <3>1. ChatLive(t) \subseteq ChatLive(s) \cup {s.n + 1}
      BY <2>2, <2>3, <2>4 DEF ChatLive
    <3>2. ChatMoves(s, r)
      BY <2>1, <2>2, <2>3, <2>4, <3>1, ChatNew
    <3> QED
      BY <3>2 DEF r
  <2>5. CASE s.asst # 0
    <3>1. ChatLive(t) \subseteq ChatLive(s) /\ s.asst \in ChatLive(s)
      BY <2>2, <2>3, <2>5 DEF ChatLive
    <3>2. ChatMoves(s, r)
      BY <2>1, <2>2, <2>3, <2>5, <3>1, ChatOld
    <3> QED
      BY <3>2 DEF r
  <2> QED
    BY <2>4, <2>5
<1>3. ChatMoves(s, CollectThinking(s))
  <2> DEFINE c == Collect(s, s.think, s.tbuf)
             r == CollectThinking(s)
             t == [c.st EXCEPT !.think = c.h, !.tbuf = c.t]
             v == Text(Append(s.tbuf, s.said + 1))
  <2>1. r.st = t /\ r.ops = c.ops
    BY DEF CollectThinking, Done
  <2>2. /\ ChatOK(c.st) /\ c.st.asst = s.asst /\ c.st.tools = s.tools
        /\ s.think = 0 => c.h = s.n + 1 /\ c.st.n = s.n + 1 /\ c.ops = AddNew(s.n + 1, v)
        /\ s.think # 0 => c.h = s.think /\ c.st.n = s.n /\ c.ops = <<ReplaceEntry(s.think, v)>>
    BY CollectIs
  <2> HIDE DEF c, v
  <2>3. ChatOK(t) /\ t.n = c.st.n /\ t.think = c.h /\ t.asst = s.asst /\ t.tools = s.tools
    BY <2>2 DEF ChatOK
  <2> HIDE DEF t, r
  <2>4. CASE s.think = 0
    <3>1. ChatLive(t) \subseteq ChatLive(s) \cup {s.n + 1}
      BY <2>2, <2>3, <2>4 DEF ChatLive
    <3>2. ChatMoves(s, r)
      BY <2>1, <2>2, <2>3, <2>4, <3>1, ChatNew
    <3> QED
      BY <3>2 DEF r
  <2>5. CASE s.think # 0
    <3>1. ChatLive(t) \subseteq ChatLive(s) /\ s.think \in ChatLive(s)
      BY <2>2, <2>3, <2>5 DEF ChatLive
    <3>2. ChatMoves(s, r)
      BY <2>1, <2>2, <2>3, <2>5, <3>1, ChatOld
    <3> QED
      BY <3>2 DEF r
  <2> QED
    BY <2>4, <2>5
<1> QED
  BY <1>2, <1>3

(* The start and the end of a call.                                        *)
LEMMA CursorToolMoves ==
  ASSUME NEW s, ChatOK(s), NEW c \in Call
  PROVE  /\ \A k : ChatMoves(s, CursorStarted(s, c, k))
         /\ s.tools[c] # 0 => ChatMoves(s, CursorCompleted(s, c))
<1>1. ASSUME NEW k PROVE ChatMoves(s, CursorStarted(s, c, k))
  <2> DEFINE t == [s EXCEPT !.n = @ + 1, !.tools[c] = s.n + 1, !.kind[c] = CursorAction[k]]
             r == CursorStarted(s, c, k)
             v == Tool(c, CursorAction[k], "created")
  <2>1. r.st = t /\ r.ops = AddNew(s.n + 1, v)
    BY DEF CursorStarted, Done
  <2>2. /\ ChatOK(t) /\ t.n = s.n + 1 /\ t.asst = s.asst /\ t.think = s.think
        /\ \A d \in Call : t.tools[d] \in {s.tools[d], s.n + 1}
    BY DEF ChatOK
  <2> HIDE DEF t, r, v
  <2>3. ChatLive(t) \subseteq ChatLive(s) \cup {s.n + 1}
    BY <2>2 DEF ChatLive
  <2>4. ChatMoves(s, r)
    BY <2>1, <2>2, <2>3, ChatNew
  <2> QED
    BY <2>4 DEF r
<1>2. ASSUME s.tools[c] # 0 PROVE ChatMoves(s, CursorCompleted(s, c))
  <2> DEFINE t == [s EXCEPT !.outcome[c] = "success"]
             r == CursorCompleted(s, c)
             v == Tool(c, s.kind[c], "success")
  <2>1. r.st = t /\ r.ops = <<ReplaceEntry(s.tools[c], v)>>
    BY DEF CursorCompleted, Done
  <2>2. ChatOK(t) /\ t.n = s.n /\ t.asst = s.asst /\ t.think = s.think /\ t.tools = s.tools
    BY DEF ChatOK
  <2> HIDE DEF t, r, v
  <2>3. ChatLive(t) = ChatLive(s) /\ s.tools[c] \in ChatLive(s)
    BY <1>2, <2>2 DEF ChatLive
  <2>4. ChatMoves(s, r)
    BY <2>1, <2>2, <2>3, ChatOld
  <2> QED
    BY <2>4 DEF r
<1> QED
  BY <1>1, <1>2

(* Every line of Cursor.                                                   *)
LEMMA CursorLine ==
  ASSUME NEW s, ChatOK(s), NEW l \in CursorLines(s)
  PROVE  ChatMoves(s, CursorProcess(s, l))
<1> DEFINE f == CursorFlush(s, l.t)
<1>1. ChatSame(s, f) /\ ChatOK(f)
  BY ChatDrops DEF ChatSame
<1>2. \/ l.t \in {"assistant", "thinking", "system", "raw", "unknown", "other"}
      \/ l.t = "started" /\ l.c \in Call
      \/ l.t = "completed" /\ l.c \in Call /\ s.tools[l.c] # 0
  BY DEF CursorLines
<1>3. f.tools = s.tools
  BY <1>1 DEF ChatSame
<1> HIDE DEF f
<1>4. CASE l.t = "raw"
  <2>1. CursorProcess(s, l) = ChatNote(s)
    BY <1>4 DEF CursorProcess
  <2> QED
    BY <2>1, ChatNoteMoves
<1>5. CASE l.t = "assistant"
  <2>1. CursorProcess(s, l) = CollectAssistant(f)
    BY <1>5 DEF CursorProcess, f
  <2> QED
    BY <1>1, <2>1, CollectMoves, ChatAfter
<1>6. CASE l.t = "thinking"
  <2>1. CursorProcess(s, l) = CollectThinking(f)
    BY <1>6 DEF CursorProcess, f
  <2> QED
    BY <1>1, <2>1, CollectMoves, ChatAfter
<1>7. CASE l.t = "system"
  <2> DEFINE g == [f EXCEPT !.named = TRUE]
  <2>1. CursorProcess(s, l) = IF f.named THEN Done(f, <<>>) ELSE ChatNote(g)
    BY <1>7 DEF CursorProcess, f
  <2>2. ChatSame(s, g) /\ ChatOK(g)
    BY <1>1 DEF ChatSame, ChatOK
  <2> HIDE DEF g
  <2> QED
    BY <1>1, <2>1, <2>2, ChatNoteMoves, ChatAfter, ChatKeep
<1>8. CASE l.t = "unknown"
  <2>1. CursorProcess(s, l) = ChatNote(f)
    BY <1>8 DEF CursorProcess, f
  <2> QED
    BY <1>1, <2>1, ChatNoteMoves, ChatAfter
<1>9. CASE l.t = "other"
  <2>1. CursorProcess(s, l) = Done(f, <<>>)
    BY <1>9 DEF CursorProcess, f
  <2> QED
    BY <1>1, <2>1, ChatKeep
<1>10. CASE l.t = "started" /\ l.c \in Call
  <2>1. CursorProcess(s, l) = CursorStarted(f, l.c, l.k)
    BY <1>10 DEF CursorProcess, f
  <2> QED
    BY <1>1, <1>10, <2>1, CursorToolMoves, ChatAfter
<1>11. CASE l.t = "completed" /\ l.c \in Call /\ s.tools[l.c] # 0
  <2>1. CursorProcess(s, l) = CursorCompleted(f, l.c)
    BY <1>11 DEF CursorProcess, f
  <2> QED
    BY <1>1, <1>3, <1>11, <2>1, CursorToolMoves, ChatAfter
<1> QED
  BY <1>2, <1>4, <1>5, <1>6, <1>7, <1>8, <1>9, <1>10, <1>11

(* handle_tool_call adds the entry of a call or replaces it.               *)
LEMMA AcpToolMoves ==
  ASSUME NEW s0, ChatOK(s0), NEW c \in Call, NEW k, NEW to
  PROVE  ChatMoves(s0, handle_tool_call(s0, c, k, to))
<1> DEFINE s == DropThinking(DropAssistant(s0))
           r == handle_tool_call(s0, c, k, to)
<1>1. ChatSame(s0, s) /\ ChatOK(s)
  BY ChatDrops DEF ChatSame
<1> DEFINE x == AcpExtend(s.status[c], to, "created")
           y == AcpExtend(s.kind[c], k, "Other")
           v == Tool(c, map_to_action_type[y], x)
           new == s.tools[c] = 0
           h == IF new THEN s.n + 1 ELSE s.tools[c]
           t == [s EXCEPT !.n = IF new THEN h ELSE @, !.tools[c] = h, !.status[c] = x, !.kind[c] = y,
                          !.outcome[c] = IF to = "created" THEN @ ELSE to]
<1>2. r.st = t /\ r.ops = IF new THEN AddNew(h, v) ELSE <<ReplaceEntry(h, v)>>
  BY DEF handle_tool_call, Done
<1> HIDE DEF s, r, x, y, v
<1>3. /\ ChatOK(t) /\ t.n = (IF new THEN s.n + 1 ELSE s.n) /\ t.asst = s.asst /\ t.think = s.think
      /\ t.tools = [s.tools EXCEPT ![c] = h]
  BY <1>1 DEF ChatOK
<1> HIDE DEF t
<1>4. \A d \in Call : t.tools[d] \in {s.tools[d], h}
  BY <1>1, <1>3 DEF ChatOK
<1>5. CASE new
  <2>1. ChatLive(t) \subseteq ChatLive(s) \cup {h}
    BY <1>3, <1>4, <1>5 DEF ChatLive
  <2>2. ChatMoves(s, r)
    BY <1>1, <1>2, <1>3, <1>5, <2>1, ChatNew
  <2> QED
    BY <1>1, <2>2, ChatAfter DEF r
<1>6. CASE ~new
  <2>1. ChatLive(t) \subseteq ChatLive(s) /\ h \in ChatLive(s)
    BY <1>3, <1>4, <1>6 DEF ChatLive
  <2>2. ChatMoves(s, r)
    BY <1>1, <1>2, <1>3, <1>6, <2>1, ChatOld
  <2> QED
    BY <1>1, <2>2, ChatAfter DEF r
<1> QED
  BY <1>5, <1>6

(* Every line of Gemini and Qwen.                                          *)
LEMMA AcpLine ==
  ASSUME NEW s, ChatOK(s), NEW l \in AcpLines(s)
  PROVE  ChatMoves(s, AcpProcess(s, l))
<1>1. /\ ChatSame(s, DropAssistant(s)) /\ ChatSame(s, DropThinking(s))
      /\ ChatSame(s, DropThinking(DropAssistant(s)))
  BY ChatDrops
<1>2. ChatOK(DropAssistant(s)) /\ ChatOK(DropThinking(s)) /\ ChatOK(DropThinking(DropAssistant(s)))
  BY <1>1 DEF ChatSame
<1>3. l.t \in {"message", "thought", "image", "done", "plan", "note"} \/ (l.t = "tool" /\ l.c \in Call)
  <2> DEFINE A == {[t |-> k] : k \in {"message", "thought", "image", "done", "plan", "note"}}
             B(c) == {[t |-> "tool", c |-> c, k |-> k, to |-> to] :
                        k \in IF s.kind[c] = "Other" THEN DOMAIN map_to_action_type
                              ELSE {s.kind[c], "Other"},
                        to \in {"created", "success", "failed"}}
             C == {[t |-> "tool", c |-> c, k |-> "Other", to |-> "created"] :
                     c \in {d \in Call : s.outcome[d] # NoCall}}
             D == {d \in Call : s.outcome[d] = NoCall}
  <2>1. l \in A \/ (\E c \in Call : l \in B(c)) \/ l \in C
    <3>1. AcpLines(s) = A \cup (UNION {B(c) : c \in D}) \cup C
      BY DEF AcpLines
    <3>2. D \subseteq Call
      OBVIOUS
    <3> HIDE DEF A, B, C, D
    <3> QED
      BY <3>1, <3>2
  <2>2. l \in A => l.t \in {"message", "thought", "image", "done", "plan", "note"}
    OBVIOUS
  <2>3. ASSUME NEW c \in Call, l \in B(c) PROVE l.t = "tool" /\ l.c \in Call
    BY <2>3
  <2>4. l \in C => l.t = "tool" /\ l.c \in Call
    OBVIOUS
  <2> QED
    BY <2>1, <2>2, <2>3, <2>4
<1>4. CASE l.t = "message"
  <2>1. AcpProcess(s, l) = CollectAssistant(DropThinking(s))
    BY <1>4 DEF AcpProcess
  <2> QED
    BY <1>1, <1>2, <2>1, CollectMoves, ChatAfter
<1>5. CASE l.t = "thought"
  <2>1. AcpProcess(s, l) = CollectThinking(DropAssistant(s))
    BY <1>5 DEF AcpProcess
  <2> QED
    BY <1>1, <1>2, <2>1, CollectMoves, ChatAfter
<1>6. CASE l.t = "image"
  <2>1. AcpProcess(s, l) = Done(DropThinking(s), <<>>)
    BY <1>6 DEF AcpProcess
  <2> QED
    BY <1>1, <2>1, ChatKeep
<1>7. CASE l.t = "done"
  <2>1. AcpProcess(s, l) = Done(DropThinking(DropAssistant(s)), <<>>)
    BY <1>7 DEF AcpProcess
  <2> QED
    BY <1>1, <2>1, ChatKeep
<1>8. CASE l.t = "plan"
  <2>1. AcpProcess(s, l) = ChatNote(DropThinking(DropAssistant(s)))
    BY <1>8 DEF AcpProcess
  <2> QED
    BY <1>1, <1>2, <2>1, ChatNoteMoves, ChatAfter
<1>9. CASE l.t = "note"
  <2>1. AcpProcess(s, l) = ChatNote(s)
    BY <1>9 DEF AcpProcess
  <2> QED
    BY <2>1, ChatNoteMoves
<1>10. CASE l.t = "tool" /\ l.c \in Call
  <2>1. AcpProcess(s, l) = handle_tool_call(s, l.c, l.k, l.to)
    BY <1>10 DEF AcpProcess
  <2> QED
    BY <1>10, <2>1, AcpToolMoves
<1> QED
  BY <1>3, <1>4, <1>5, <1>6, <1>7, <1>8, <1>9, <1>10

-----------------------------------------------------------------------------
(* OpenCode.                                                               *)
OpencodeOK(s) ==
  /\ DOMAIN s = {"n", "role", "seg", "brk", "order", "texts", "shown", "tools", "kind", "sent", "shut",
                 "said", "expect", "outcome"}
  /\ s.n \in Nat /\ DOMAIN s.shown = Segment /\ DOMAIN s.tools = Call
  /\ DOMAIN s.brk = Msg /\ s.seg \in [Msg -> 0 .. MaxSegment]

OpencodeMoves(s, r) ==
  OpencodeOK(r.st) /\ Moves(r.ops, s.n, r.st.n, OpencodeLive(s), OpencodeLive(r.st))

(* r differs from s in nothing OpencodeLive looks at.                      *)
OpencodeSame(s, r) == OpencodeOK(r) /\ r.n = s.n /\ r.shown = s.shown /\ r.tools = s.tools

(* Equal maps hold equal handles.                                          *)
LEMMA OpencodeSameLive ==
  ASSUME NEW s, NEW r, OpencodeSame(s, r)
  PROVE  OpencodeLive(r) = OpencodeLive(s)
BY DEF OpencodeSame, OpencodeLive

(* A handler may start by changing what holds no handle.                   *)
LEMMA OpencodeAfter ==
  ASSUME NEW s, NEW f, OpencodeSame(s, f), NEW r, OpencodeMoves(f, r)
  PROVE  OpencodeMoves(s, r)
BY OpencodeSameLive DEF OpencodeMoves, OpencodeSame

(* A line that shows nothing.                                              *)
LEMMA OpencodeKeep ==
  ASSUME NEW s, NEW f, OpencodeSame(s, f)
  PROVE  OpencodeMoves(s, Done(f, <<>>))
<1>1. OpencodeLive(f) = OpencodeLive(s) /\ f.n = s.n /\ OpencodeOK(f) /\ f.n \in Nat
  BY OpencodeSameLive DEF OpencodeSame, OpencodeOK
<1> QED
  BY <1>1, MovesNone DEF OpencodeMoves, Done

(* The text of a segment goes to the entry of that segment.                *)
LEMMA UpsertMoves ==
  ASSUME NEW s, OpencodeOK(s), NEW k \in Segment
  PROVE  OpencodeMoves(s, UpsertMessage(s, k))
<1> DEFINE v == Text(Aggregated(s, k))
           r == UpsertMessage(s, k)
<1>0. s.n \in Nat
  BY DEF OpencodeOK
<1>1. CASE s.shown[k] # 0
  <2>1. r.st = s /\ r.ops = <<ReplaceEntry(s.shown[k], v)>>
    BY <1>1 DEF UpsertMessage, Done
  <2>2. s.shown[k] \in OpencodeLive(s)
    BY <1>1 DEF OpencodeLive
  <2> HIDE DEF r, v
  <2>3. OpencodeMoves(s, r)
    BY <1>0, <2>1, <2>2, MovesOld DEF OpencodeMoves
  <2> QED
    BY <2>3 DEF r
<1>2. CASE s.shown[k] = 0
  <2> DEFINE h == s.n + 1
             t == [s EXCEPT !.n = h, !.shown[k] = h]
  <2>1. r.st = t /\ r.ops = AddNew(s.n + 1, v)
    BY <1>2 DEF UpsertMessage, Done
  <2>2. OpencodeOK(t) /\ t.n = s.n + 1 /\ t.tools = s.tools /\ t.shown = [s.shown EXCEPT ![k] = s.n + 1]
    BY <1>0 DEF OpencodeOK
  <2> HIDE DEF r, v, t
  <2>3. \A j \in Segment : t.shown[j] \in {s.shown[j], s.n + 1}
    BY <2>2 DEF OpencodeOK
  <2>4. OpencodeLive(t) \subseteq OpencodeLive(s) \cup {s.n + 1}
    BY <2>2, <2>3 DEF OpencodeLive
  <2>5. OpencodeMoves(s, r)
    BY <1>0, <2>1, <2>2, <2>4, MovesNew DEF OpencodeMoves
  <2> QED
    BY <2>5 DEF r
<1> QED
  BY <1>1, <1>2

(* session/message.                                                        *)
LEMMA OpencodeRoleMoves ==
  ASSUME NEW s0, OpencodeOK(s0), NEW m \in Msg, NEW x
  PROVE  OpencodeMoves(s0, OpencodeRole(s0, m, x))
<1> DEFINE s == [s0 EXCEPT !.role[m] = x]
           k == <<m, s.seg[m]>>
<1>1. OpencodeSame(s0, s) /\ s.seg = s0.seg
  BY DEF OpencodeSame, OpencodeOK
<1>2. OpencodeRole(s0, m, x) \in {UpsertMessage(s, k), Done(s, <<>>)}
  BY DEF OpencodeRole
<1> HIDE DEF s
<1>3. k \in Segment /\ OpencodeOK(s)
  BY <1>1 DEF OpencodeSame, OpencodeOK, Segment
<1> HIDE DEF k
<1>4. OpencodeMoves(s, UpsertMessage(s, k))
  BY <1>3, UpsertMoves
<1> QED
  BY <1>1, <1>2, <1>4, OpencodeAfter, OpencodeKeep

(* session/part with a text.                                               *)
LEMMA OpencodeTextMoves ==
  ASSUME NEW s0, OpencodeOK(s0), NEW m \in Msg, NEW p, s0.brk[m] => s0.seg[m] < MaxSegment
  PROVE  OpencodeMoves(s0, OpencodeText(s0, m, p))
<1> DEFINE g == IF s0.brk[m] THEN s0.seg[m] + 1 ELSE s0.seg[m]
           t == Append(s0.sent[<<m, p>>], s0.said + 1)
           k == <<m, g>>
           s == [s0 EXCEPT !.brk[m] = FALSE, !.seg[m] = g, !.said = @ + 1,
                        !.sent[<<m, p>>] = t, !.texts[<<m, g, p>>] = t,
                        !.order[k] = IF p \in Range(@) THEN @ ELSE Append(@, p)]
<1>1. g \in 0 .. MaxSegment
  BY DEF OpencodeOK, MaxSegment
<1>2. OpencodeText(s0, m, p) \in {UpsertMessage(s, k), Done(s, <<>>)}
  BY DEF OpencodeText
<1> HIDE DEF g, t
<1>3. k \in Segment
  BY <1>1 DEF Segment
<1> HIDE DEF k
<1>4. OpencodeSame(s0, s)
  BY <1>1 DEF OpencodeSame, OpencodeOK
<1> HIDE DEF s
<1>5. OpencodeMoves(s, UpsertMessage(s, k))
  BY <1>3, <1>4, UpsertMoves DEF OpencodeSame
<1> QED
  BY <1>2, <1>4, <1>5, OpencodeAfter, OpencodeKeep

(* session/part with a tool.                                               *)
LEMMA OpencodeToolMoves ==
  ASSUME NEW s0, OpencodeOK(s0), NEW m \in Msg, NEW c \in Call, NEW x, NEW fin
  PROVE  OpencodeMoves(s0, OpencodeTool(s0, m, c, x, fin))
<1> DEFINE k == <<m, s0.seg[m]>>
           new == s0.tools[c] = 0
           h == IF new THEN s0.n + 1 ELSE s0.tools[c]
           full == Aggregated(s0, k) # <<>>
           S == {p \in Part : s0.sent[<<m, p>>] # <<>>}
           s == [s0 EXCEPT !.brk[m] = @ \/ full,
                        !.n = IF new THEN h ELSE @, !.tools[c] = h,
                        !.kind[c] = x, !.outcome[c] = IF fin THEN "success" ELSE @,
                        !.shut[m] = @ \cup S]
           v == Tool(c, derive_action_type(x, fin), "success")
           r == OpencodeTool(s0, m, c, x, fin)
<1>0. s0.n \in Nat
  BY DEF OpencodeOK
<1>1. r.st = s /\ r.ops = IF new THEN AddNew(h, v) ELSE <<ReplaceEntry(h, v)>>
  BY DEF OpencodeTool, Done
<1> HIDE DEF k, full, S, v, r
<1>2. /\ OpencodeOK(s) /\ s.n = (IF new THEN s0.n + 1 ELSE s0.n) /\ s.shown = s0.shown
      /\ s.tools = [s0.tools EXCEPT ![c] = h]
  BY <1>0 DEF OpencodeOK
<1> HIDE DEF s
<1>3. \A d \in Call : s.tools[d] \in {s0.tools[d], h}
  BY <1>2 DEF OpencodeOK
<1>4. CASE new
  <2>1. OpencodeLive(s) \subseteq OpencodeLive(s0) \cup {s0.n + 1}
    BY <1>2, <1>3, <1>4 DEF OpencodeLive
  <2>2. OpencodeMoves(s0, r)
    BY <1>0, <1>1, <1>2, <1>4, <2>1, MovesNew DEF OpencodeMoves
  <2> QED
    BY <2>2 DEF r
<1>5. CASE ~new
  <2>1. OpencodeLive(s) \subseteq OpencodeLive(s0) /\ h \in OpencodeLive(s0)
    BY <1>2, <1>3, <1>5 DEF OpencodeLive
  <2>2. OpencodeMoves(s0, r)
    BY <1>0, <1>1, <1>2, <1>5, <2>1, MovesOld DEF OpencodeMoves
  <2> QED
    BY <2>2 DEF r
<1> QED
  BY <1>4, <1>5

(* Every line of OpenCode.                                                 *)
LEMMA OpencodeLine ==
  ASSUME NEW s, OpencodeOK(s), NEW l \in OpencodeLines(s)
  PROVE  OpencodeMoves(s, OpencodeProcess(s, l))
<1>1. \/ l.t = "role" /\ l.m \in Msg
      \/ l.t = "text" /\ l.m \in Msg /\ (s.brk[l.m] => s.seg[l.m] < MaxSegment)
      \/ l.t = "tool" /\ l.m \in Msg /\ l.c \in Call
  <2> DEFINE A == {[t |-> "role", m |-> m, r |-> r] :
                     m \in {k \in Msg : s.role[k] = "unknown"}, r \in {"user", "assistant"}}
             P == {j \in Msg \X Part : /\ j[2] \notin s.shut[j[1]]
                                       /\ s.brk[j[1]] => s.seg[j[1]] < MaxSegment}
             B == {[t |-> "text", m |-> k[1], p |-> k[2]] : k \in P}
             C(c) == {[t |-> "tool", m |-> m, c |-> c, k |-> k, fin |-> fin] :
                        m \in {j \in Msg : s.role[j] # "unknown"},
                        k \in IF s.tools[c] = 0 THEN OpencodeTools ELSE {s.kind[c]},
                        fin \in BOOLEAN}
             D == {d \in Call : s.outcome[d] = NoCall}
  <2>1. l \in A \/ l \in B \/ (\E c \in Call : l \in C(c))
    <3>1. OpencodeLines(s) = A \cup B \cup (UNION {C(c) : c \in D})
      BY DEF OpencodeLines
    <3>2. D \subseteq Call
      OBVIOUS
    <3> HIDE DEF A, B, C, D
    <3> QED
      BY <3>1, <3>2
  <2>2. l \in A => l.t = "role" /\ l.m \in Msg
    OBVIOUS
  <2>3. l \in B => l.t = "text" /\ l.m \in Msg /\ (s.brk[l.m] => s.seg[l.m] < MaxSegment)
    <3> SUFFICES ASSUME l \in B PROVE l.t = "text" /\ l.m \in Msg /\ (s.brk[l.m] => s.seg[l.m] < MaxSegment)
      OBVIOUS
    <3>1. PICK k \in P : l = [t |-> "text", m |-> k[1], p |-> k[2]]
      OBVIOUS
    <3>2. k[1] \in Msg /\ (s.brk[k[1]] => s.seg[k[1]] < MaxSegment)
      OBVIOUS
    <3> HIDE DEF P
    <3> QED
      BY <3>1, <3>2
  <2>4. ASSUME NEW c \in Call, l \in C(c) PROVE l.t = "tool" /\ l.m \in Msg /\ l.c \in Call
    BY <2>4
  <2> QED
    BY <2>1, <2>2, <2>3, <2>4
<1> DEFINE r == CASE l.t = "role" -> OpencodeRole(s, l.m, l.r)
                  [] l.t = "text" -> OpencodeText(s, l.m, l.p)
                  [] l.t = "tool" -> OpencodeTool(s, l.m, l.c, l.k, l.fin)
           f == [r.st EXCEPT !.expect = OpencodeExpect(r.st)]
<1>2. OpencodeMoves(s, r)
  BY <1>1, OpencodeRoleMoves, OpencodeTextMoves, OpencodeToolMoves
<1>3. OpencodeProcess(s, l).st = f /\ OpencodeProcess(s, l).ops = r.ops
  BY DEF OpencodeProcess, Done
<1> HIDE DEF r
<1>4. OpencodeSame(r.st, f)
  BY <1>2 DEF OpencodeMoves, OpencodeSame, OpencodeOK
<1> HIDE DEF f
<1>5. OpencodeLive(f) = OpencodeLive(r.st) /\ OpencodeOK(f) /\ f.n = r.st.n
  BY <1>4, OpencodeSameLive DEF OpencodeSame
<1> QED
  BY <1>2, <1>3, <1>5 DEF OpencodeMoves

-----------------------------------------------------------------------------
(* Codex.                                                                  *)
CodexOK(s) ==
  /\ DOMAIN s = {"n", "asst", "think", "buf", "held", "patches", "open", "text", "said", "expect",
                 "phase", "kind", "outcome"}
  /\ s.n \in Nat /\ DOMAIN s.held = Call
  /\ s.patches \in [Call -> Seq(Nat \ {0})]
  /\ s.kind \in [Call -> {"cmd", "mcp", "search", "patch"}]

CodexMoves(s, r) == CodexOK(r.st) /\ Moves(r.ops, s.n, r.st.n, CodexLive(s), CodexLive(r.st))

(* The state r keeps what CodexLive looks at, or forgets texts.            *)
CodexSame(s, r) == /\ CodexOK(r) /\ r.n = s.n /\ r.held = s.held /\ r.patches = s.patches
                   /\ r.asst \in {0, s.asst} /\ r.think \in {0, s.think}

(* The handles in LogState.                                                *)
LEMMA CodexLiveIs ==
  ASSUME NEW s, NEW h
  PROVE  h \in CodexLive(s) <=>
           /\ h # 0
           /\ \/ h = s.asst \/ h = s.think \/ \E c \in Call : h = s.held[c]
              \/ \E c \in Call : \E i \in 1 .. Len(s.patches[c]) : h = s.patches[c][i]
BY DEF CodexLive

(* The state r holds handles that s holds, and those in N.                 *)
LEMMA CodexLiveSub ==
  ASSUME NEW s, NEW r, NEW N, r.asst \in {0, s.asst} \cup N, r.think \in {0, s.think} \cup N,
         \A c \in Call : r.held[c] \in {0, s.held[c]} \cup N,
         \A c \in Call : \A i \in 1 .. Len(r.patches[c]) :
           r.patches[c][i] \in N \/ \E j \in 1 .. Len(s.patches[c]) : r.patches[c][i] = s.patches[c][j]
  PROVE  CodexLive(r) \subseteq CodexLive(s) \cup N
<1> SUFFICES ASSUME NEW h \in CodexLive(r), h \notin N PROVE h \in CodexLive(s)
  OBVIOUS
<1>1. /\ h # 0
      /\ \/ h = r.asst \/ h = r.think \/ \E c \in Call : h = r.held[c]
         \/ \E c \in Call : \E i \in 1 .. Len(r.patches[c]) : h = r.patches[c][i]
  BY CodexLiveIs
<1>2. /\ h # 0
      /\ \/ h = s.asst \/ h = s.think \/ \E c \in Call : h = s.held[c]
         \/ \E c \in Call : \E i \in 1 .. Len(s.patches[c]) : h = s.patches[c][i]
  BY <1>1
<1> QED
  BY <1>2, CodexLiveIs

(* The same, when only commands, mcp_tools or web_searches change.         *)
LEMMA CodexHeldSub ==
  ASSUME NEW s, NEW r, NEW N, r.asst = s.asst, r.think = s.think, r.patches = s.patches,
         \A c \in Call : r.held[c] \in {0, s.held[c]} \cup N
  PROVE  CodexLive(r) \subseteq CodexLive(s) \cup N
BY CodexLiveSub

(* A state that forgets texts holds no new handle.                         *)
LEMMA CodexSameLive ==
  ASSUME NEW s, NEW r, CodexSame(s, r)
  PROVE  CodexLive(r) \subseteq CodexLive(s) /\ r.n = s.n /\ CodexOK(r) /\ r.n \in Nat
<1>1. CodexLive(r) \subseteq CodexLive(s) \cup {}
  BY CodexLiveSub DEF CodexSame
<1> QED
  BY <1>1 DEF CodexSame, CodexOK

(* A handler may start by closing texts.                                   *)
LEMMA CodexAfter ==
  ASSUME NEW s, NEW f, CodexSame(s, f), NEW r, CodexMoves(f, r)
  PROVE  CodexMoves(s, r)
<1>1. CodexLive(f) \subseteq CodexLive(s) /\ f.n = s.n
  BY CodexSameLive
<1>2. Fit(r.ops, s.n, r.st.n, CodexLive(s))
  BY <1>1, ReadyMore DEF CodexMoves, Moves, Fit
<1> QED
  BY <1>1, <1>2 DEF CodexMoves, Moves

(* What is done to the state after the handler's entry is settled.         *)
LEMMA CodexThen ==
  ASSUME NEW s, NEW r, CodexMoves(s, r), NEW f, CodexSame(r.st, f)
  PROVE  CodexMoves(s, Done(f, r.ops))
<1>1. CodexLive(f) \subseteq CodexLive(r.st) /\ f.n = r.st.n /\ CodexOK(f)
  BY CodexSameLive
<1>2. Done(f, r.ops).st = f /\ Done(f, r.ops).ops = r.ops
  BY DEF Done
<1> QED
  BY <1>1, <1>2 DEF CodexMoves, Moves

(* A line that only closes texts.                                          *)
LEMMA CodexKeep ==
  ASSUME NEW s, NEW f, CodexSame(s, f)
  PROVE  CodexMoves(s, Done(f, <<>>))
BY CodexSameLive, MovesNone DEF CodexMoves, Done

(* Closing the texts only forgets handles.                                 *)
LEMMA NoTextSame ==
  ASSUME NEW s, CodexOK(s)
  PROVE  CodexSame(s, NoText(s)) /\ CodexOK(NoText(s))
BY DEF CodexOK, CodexSame, NoText

(* Entries that are not touched again.                                     *)
LEMMA CodexNoteMoves ==
  ASSUME NEW s, CodexOK(s)
  PROVE  CodexMoves(s, CodexNote(s)) /\ CodexMoves(s, CodexOutside(s))
<1> DEFINE t == [s EXCEPT !.n = @ + 1]
<1>1. /\ CodexNote(s).st = t /\ CodexNote(s).ops = AddNew(s.n + 1, Note)
      /\ CodexOutside(s).st = t /\ CodexOutside(s).ops = AddNew(s.n + 1, Note)
  BY DEF CodexNote, CodexOutside, Done
<1>2. /\ CodexOK(t) /\ t.n = s.n + 1 /\ t.asst = s.asst /\ t.think = s.think /\ t.held = s.held
      /\ t.patches = s.patches /\ s.n \in Nat
  BY DEF CodexOK
<1> HIDE DEF t
<1>3. CodexLive(t) \subseteq CodexLive(s) \cup {s.n + 1}
  BY <1>2, CodexLiveSub
<1> QED
  BY <1>1, <1>2, <1>3, MovesNew DEF CodexMoves

(* streaming_text_update adds the entry of a text or replaces it.          *)
LEMMA StreamingMoves ==
  ASSUME NEW s, CodexOK(s), NEW k \in {"asst", "think"}, NEW t
  PROVE  CodexMoves(s, streaming_text_update(s, k, t))
<1> DEFINE cur == IF k = "asst" THEN s.asst ELSE s.think
           h == IF cur = 0 THEN s.n + 1 ELSE cur
           f == [s EXCEPT !.n = IF cur = 0 THEN h ELSE @, !.buf = t,
                          !.asst = IF k = "asst" THEN h ELSE 0,
                          !.think = IF k = "think" THEN h ELSE 0]
           r == streaming_text_update(s, k, t)
<1>0. s.n \in Nat
  BY DEF CodexOK
<1>1. r.st = f /\ r.ops = IF cur = 0 THEN AddNew(h, Text(t)) ELSE <<ReplaceEntry(h, Text(t))>>
  BY DEF streaming_text_update, Done
<1>2. /\ CodexOK(f) /\ f.n = (IF cur = 0 THEN s.n + 1 ELSE s.n) /\ f.held = s.held /\ f.patches = s.patches
      /\ f.asst = (IF k = "asst" THEN h ELSE 0) /\ f.think = (IF k = "think" THEN h ELSE 0)
  BY <1>0 DEF CodexOK
<1> HIDE DEF f, r
<1>3. CASE cur = 0
  <2>0. f.asst \in {0, s.n + 1} /\ f.think \in {0, s.n + 1}
    BY <1>2, <1>3
  <2>1. CodexLive(f) \subseteq CodexLive(s) \cup {s.n + 1}
    BY <1>2, <2>0, CodexLiveSub
  <2>2. CodexMoves(s, r)
    BY <1>0, <1>1, <1>2, <1>3, <2>1, MovesNew DEF CodexMoves
  <2> QED
    BY <2>2 DEF r
<1>4. CASE cur # 0
  <2>1. f.asst \in {0, s.asst} /\ f.think \in {0, s.think}
    BY <1>2, <1>4
  <2>2. CodexLive(f) \subseteq CodexLive(s) \cup {}
    BY <1>2, <2>1, CodexLiveSub
  <2>3. h \in CodexLive(s)
    BY <1>4, CodexLiveIs
  <2>4. CodexMoves(s, r)
    BY <1>0, <1>1, <1>2, <1>4, <2>2, <2>3, MovesOld DEF CodexMoves
  <2> QED
    BY <2>4 DEF r
<1> QED
  BY <1>3, <1>4

(* A piece of a text, and the whole of it.                                 *)
LEMMA CodexTextMoves ==
  ASSUME NEW s, CodexOK(s), NEW k \in {"asst", "think"}
  PROVE  CodexMoves(s, CodexDelta(s, k)) /\ CodexMoves(s, CodexText(s, k))
<1>1. CodexMoves(s, CodexDelta(s, k))
  <2> DEFINE piece == s.said + 1
             mine == IF k = "asst" THEN s.asst # 0 ELSE s.think # 0
             r == streaming_text_update(s, k, IF mine THEN Append(s.buf, piece) ELSE <<piece>>)
             f == [r.st EXCEPT !.said = piece, !.expect = @ \cup {piece},
                               !.open = k, !.text = Append(@, piece)]
  <2>1. CodexMoves(s, r)
    BY StreamingMoves
  <2>2. CodexDelta(s, k) = Done(f, r.ops)
    BY DEF CodexDelta
  <2> HIDE DEF r
  <2>3. CodexSame(r.st, f)
    BY <2>1 DEF CodexMoves, CodexSame, CodexOK
  <2> HIDE DEF f
  <2> QED
    BY <2>1, <2>2, <2>3, CodexThen
<1>2. CodexMoves(s, CodexText(s, k))
  <2> DEFINE streamed == s.open = k
             t == IF streamed THEN s.text ELSE <<s.said + 1>>
             r == streaming_text_update(s, k, t)
             g == NoText(r.st)
             f == [g EXCEPT !.said = IF streamed THEN @ ELSE @ + 1,
                            !.expect = @ \cup Range(t), !.open = "none", !.text = <<>>]
  <2>1. CodexMoves(s, r)
    BY StreamingMoves
  <2>2. CodexText(s, k) = Done(f, r.ops)
    BY DEF CodexText
  <2> HIDE DEF r, t
  <2>3. CodexSame(r.st, g) /\ CodexOK(g)
    BY <2>1, NoTextSame DEF CodexMoves
  <2> HIDE DEF g
  <2>4. CodexSame(r.st, f)
    BY <2>3 DEF CodexSame, CodexOK
  <2> HIDE DEF f
  <2> QED
    BY <2>1, <2>2, <2>4, CodexThen
<1> QED
  BY <1>1, <1>2

(* ExecApprovalRequest.                                                    *)
LEMMA ExecApprovalMoves ==
  ASSUME NEW s0, CodexOK(s0), NEW c \in Call
  PROVE  CodexMoves(s0, ExecApprovalRequest(s0, c))
<1> DEFINE u == NoText(s0)
           s == [u EXCEPT !.phase[c] = "asked", !.kind[c] = "cmd"]
           v == CommandState(NoCall, "created")
           r == ExecApprovalRequest(s0, c)
<1>1. CodexSame(s0, u) /\ CodexOK(u)
  BY NoTextSame
<1>2. r = IF s.held[c] # 0 THEN Done(s, <<ReplaceEntry(s.held[c], v)>>)
          ELSE Done([s EXCEPT !.n = @ + 1, !.held[c] = s.n + 1], AddNew(s.n + 1, v))
  BY DEF ExecApprovalRequest
<1> HIDE DEF u, v, r
<1>3. CodexSame(s0, s) /\ CodexOK(s) /\ s.n \in Nat
  BY <1>1 DEF CodexSame, CodexOK
<1> HIDE DEF s
<1>4. CASE s.held[c] # 0
  <2>1. r.st = s /\ r.ops = <<ReplaceEntry(s.held[c], v)>>
    BY <1>2, <1>4 DEF Done
  <2>2. s.held[c] \in CodexLive(s)
    BY <1>4, CodexLiveIs
  <2>3. CodexMoves(s, r)
    BY <1>3, <2>1, <2>2, MovesOld DEF CodexMoves
  <2>4. CodexMoves(s0, r)
    BY <1>3, <2>3, CodexAfter
  <2> QED
    BY <2>4 DEF r
<1>5. CASE s.held[c] = 0
  <2> DEFINE t == [s EXCEPT !.n = @ + 1, !.held[c] = s.n + 1]
  <2>1. r.st = t /\ r.ops = AddNew(s.n + 1, v)
    BY <1>2, <1>5 DEF Done
  <2>2. /\ CodexOK(t) /\ t.n = s.n + 1 /\ t.asst = s.asst /\ t.think = s.think /\ t.patches = s.patches
        /\ t.held = [s.held EXCEPT ![c] = s.n + 1]
    BY <1>3 DEF CodexOK
  <2> HIDE DEF t
  <2>3. \A d \in Call : t.held[d] \in {0, s.held[d]} \cup {s.n + 1}
    BY <1>3, <2>2 DEF CodexOK
  <2>4. CodexLive(t) \subseteq CodexLive(s) \cup {s.n + 1}
    BY <2>2, <2>3, CodexHeldSub
  <2>5. CodexMoves(s, r)
    BY <1>3, <2>1, <2>2, <2>4, MovesNew DEF CodexMoves
  <2>6. CodexMoves(s0, r)
    BY <1>3, <2>5, CodexAfter
  <2> QED
    BY <2>6 DEF r
<1> QED
  BY <1>4, <1>5

(* The beginning of a command, an MCP tool or a search.                    *)
LEMMA CodexBeginMoves ==
  ASSUME NEW s0, CodexOK(s0), NEW c \in Call, NEW k \in {"cmd", "mcp", "search"}
  PROVE  CodexMoves(s0, CodexBegin(s0, c, k))
<1> DEFINE u == NoText(s0)
           s == [u EXCEPT !.phase[c] = "begun", !.kind[c] = k]
           v == CodexEntry(k, c, "created")
           t == [s EXCEPT !.n = @ + 1, !.held[c] = s.n + 1]
           r == CodexBegin(s0, c, k)
<1>1. CodexSame(s0, u) /\ CodexOK(u)
  BY NoTextSame
<1>2. r.st = t /\ r.ops = AddNew(s.n + 1, v)
  BY DEF CodexBegin, Done
<1> HIDE DEF u, v, r
<1>3. CodexSame(s0, s) /\ CodexOK(s) /\ s.n \in Nat
  BY <1>1 DEF CodexSame, CodexOK
<1> HIDE DEF s
<1>4. /\ CodexOK(t) /\ t.n = s.n + 1 /\ t.asst = s.asst /\ t.think = s.think /\ t.patches = s.patches
      /\ t.held = [s.held EXCEPT ![c] = s.n + 1]
  BY <1>3 DEF CodexOK
<1> HIDE DEF t
<1>5. \A d \in Call : t.held[d] \in {0, s.held[d]} \cup {s.n + 1}
  BY <1>3, <1>4 DEF CodexOK
<1>6. CodexLive(t) \subseteq CodexLive(s) \cup {s.n + 1}
  BY <1>4, <1>5, CodexHeldSub
<1>7. CodexMoves(s, r)
  BY <1>2, <1>3, <1>4, <1>6, MovesNew DEF CodexMoves
<1>8. CodexMoves(s0, r)
  BY <1>3, <1>7, CodexAfter
<1> QED
  BY <1>8 DEF r

(* ExecCommandOutputDelta.                                                 *)
LEMMA CodexOutputMoves ==
  ASSUME NEW s, CodexOK(s), NEW c \in Call
  PROVE  CodexMoves(s, CodexOutput(s, c))
<1>0. s.n \in Nat
  BY DEF CodexOK
<1>1. CASE s.held[c] # 0 /\ s.kind[c] = "cmd"
  <2>1. CodexOutput(s, c).st = s /\ CodexOutput(s, c).ops = <<ReplaceEntry(s.held[c], CommandState(c, "created"))>>
    BY <1>1 DEF CodexOutput, Done
  <2>2. s.held[c] \in CodexLive(s)
    BY <1>1, CodexLiveIs
  <2> QED
    BY <1>0, <2>1, <2>2, MovesOld DEF CodexMoves
<1>2. CASE ~(s.held[c] # 0 /\ s.kind[c] = "cmd")
  <2>1. CodexOutput(s, c).st = s /\ CodexOutput(s, c).ops = <<>>
    BY <1>2 DEF CodexOutput, Done
  <2> QED
    BY <1>0, <2>1, MovesNone DEF CodexMoves
<1> QED
  BY <1>1, <1>2

(* The end of a call: its entry is replaced and its handle forgotten.      *)
LEMMA ExecCommandEndMoves ==
  ASSUME NEW s, CodexOK(s), NEW c \in Call, NEW ok
  PROVE  CodexMoves(s, ExecCommandEnd(s, c, ok))
<1> DEFINE t == [s EXCEPT !.held[c] = 0, !.phase[c] = "ended", !.outcome[c] = ok]
           v == CodexEntry(s.kind[c], c, ok)
           r == ExecCommandEnd(s, c, ok)
<1>1. r.st = t /\ r.ops = IF s.held[c] # 0 THEN <<ReplaceEntry(s.held[c], v)>> ELSE <<>>
  BY DEF ExecCommandEnd, Done
<1>2. /\ CodexOK(t) /\ t.n = s.n /\ t.asst = s.asst /\ t.think = s.think /\ t.patches = s.patches
      /\ t.held = [s.held EXCEPT ![c] = 0] /\ s.n \in Nat
  BY DEF CodexOK
<1> HIDE DEF r, v, t
<1>3. \A d \in Call : t.held[d] \in {s.held[d], 0}
  BY <1>2 DEF CodexOK
<1>4. CodexLive(t) \subseteq CodexLive(s) \cup {}
  BY <1>2, <1>3, CodexLiveSub
<1>5. CASE s.held[c] # 0
  <2>1. s.held[c] \in CodexLive(s)
    BY <1>5, CodexLiveIs
  <2>2. CodexMoves(s, r)
    BY <1>1, <1>2, <1>4, <1>5, <2>1, MovesOld DEF CodexMoves
  <2> QED
    BY <2>2 DEF r
<1>6. CASE s.held[c] = 0
  <2>2. CodexMoves(s, r)
    BY <1>1, <1>2, <1>4, <1>6, MovesNone DEF CodexMoves
  <2> QED
    BY <2>2 DEF r
<1> QED
  BY <1>5, <1>6

(* Patches: one entry per changed file.                                    *)
LEMMA PatchEntriesFit ==
  ASSUME NEW s, s.n \in Nat, NEW c, NEW f \in 0 .. 2, NEW own
  PROVE  Fit(PatchEntries(s, c, f), s.n, s.n + f, own) /\ ~HasOp(PatchEntries(s, c, f), "wipe")
<1> DEFINE v == CodexPatchEntry(c, "created")
           a == IF f >= 1 THEN AddNew(s.n + 1, v) ELSE <<>>
           b == IF f >= 2 THEN AddNew(s.n + 2, v) ELSE <<>>
           m == IF f >= 1 THEN s.n + 1 ELSE s.n
<1>1. PatchEntries(s, c, f) = a \o b
  BY DEF PatchEntries
<1> HIDE DEF v
<1>2. Fit(a, s.n, m, own) /\ ~HasOp(a, "wipe")
  BY FitNone, FitNew
<1>3. Fit(b, m, s.n + f, own) /\ ~HasOp(b, "wipe")
  <2>1. CASE f = 2
    <3>1. m \in Nat /\ m + 1 = s.n + 2 /\ m + 1 = s.n + f
      BY <2>1
    <3>2. b = AddNew(m + 1, v)
      BY <2>1, <3>1
    <3> HIDE DEF m, b
    <3> QED
      BY <3>1, <3>2, FitNew
  <2>2. CASE f # 2
    <3>1. m \in Nat /\ m = s.n + f /\ b = <<>>
      BY <2>2
    <3> HIDE DEF m, b
    <3> QED
      BY <3>1, FitNone
  <2> QED
    BY <2>1, <2>2
<1> HIDE DEF a, b, m
<1> QED
  BY <1>1, <1>2, <1>3, FitThen

(* The same step for each entry of a patch.                                *)
LEMMA PatchOld ==
  ASSUME NEW s, CodexOK(s), NEW c \in Call, NEW q, q = [i \in DOMAIN s.patches[c] |-> q[i]],
         \/ \A i \in DOMAIN s.patches[c] : q[i] = RemoveEntry(s.patches[c][i])
         \/ \E v : \A i \in DOMAIN s.patches[c] : q[i] = ReplaceEntry(s.patches[c][i], v)
  PROVE  Fit(q, s.n, s.n, CodexLive(s)) /\ ~HasOp(q, "wipe")
<1> DEFINE p == s.patches[c]
<1>1. p \in Seq(Nat \ {0}) /\ s.n \in Nat
  BY DEF CodexOK
<1> HIDE DEF p
<1>2. DOMAIN p = 1 .. Len(p) /\ Len(p) \in Nat /\ \A i \in 1 .. Len(p) : p[i] # 0
  BY <1>1
<1>3. IsOps(q) /\ Len(q) = Len(p)
  BY <1>2, MadeIs DEF p
<1>4. \A i \in 1 .. Len(p) : p[i] \in CodexLive(s)
  BY <1>2, CodexLiveIs DEF p
<1>5. \A i \in 1 .. Len(q) : q[i].op = "remove" \/ (q[i].op = "replace" /\ q[i].who \in CodexLive(s))
  <2>1. CASE \A i \in DOMAIN p : q[i] = RemoveEntry(p[i])
    <3>1. \A h : RemoveEntry(h).op = "remove"
      BY DEF RemoveEntry
    <3> QED
      <4> TAKE i \in 1 .. Len(q)
      <4>1. i \in DOMAIN p
        BY <1>2, <1>3
      <4>2. q[i] = RemoveEntry(p[i])
        BY <2>1, <4>1
      <4> QED
        BY <3>1, <4>2
  <2>2. ASSUME NEW v, \A i \in DOMAIN p : q[i] = ReplaceEntry(p[i], v)
        PROVE \A i \in 1 .. Len(q) : q[i].op = "replace" /\ q[i].who \in CodexLive(s)
    <3>1. \A h : ReplaceEntry(h, v).op = "replace" /\ ReplaceEntry(h, v).who = h
      BY DEF ReplaceEntry
    <3> QED
      <4> TAKE i \in 1 .. Len(q)
      <4>1. i \in DOMAIN p /\ p[i] \in CodexLive(s)
        BY <1>2, <1>3, <1>4
      <4>2. q[i] = ReplaceEntry(p[i], v)
        BY <2>2, <4>1
      <4> QED
        BY <3>1, <4>1, <4>2
  <2> QED
    BY <2>1, <2>2 DEF p
<1> QED
  BY <1>1, <1>3, <1>5, FitOld

(* ApplyPatchApprovalRequest.                                              *)
LEMMA PatchAskMoves ==
  ASSUME NEW s0, CodexOK(s0), NEW c \in Call, NEW f \in 1 .. 2
  PROVE  CodexMoves(s0, ApplyPatchApprovalRequest(s0, c, f))
<1> DEFINE u == NoText(s0)
           s == [u EXCEPT !.phase[c] = "asked", !.kind[c] = "patch"]
           new == [i \in 1 .. f |-> s.n + i]
           t == [s EXCEPT !.n = @ + f, !.patches[c] = new]
           p == [i \in DOMAIN s.patches[c] |-> RemoveEntry(s.patches[c][i])]
           q == PatchEntries(s, c, f)
           r == ApplyPatchApprovalRequest(s0, c, f)
<1>1. CodexSame(s0, u) /\ CodexOK(u)
  BY NoTextSame
<1>2. r.st = t /\ r.ops = p \o q
  BY DEF ApplyPatchApprovalRequest, Done
<1> HIDE DEF u, r
<1>3. CodexSame(s0, s) /\ CodexOK(s) /\ s.n \in Nat
  BY <1>1 DEF CodexSame, CodexOK
<1> HIDE DEF s
<1>4. new \in Seq(Nat \ {0}) /\ Len(new) = f /\ \A i \in 1 .. f : new[i] = s.n + i /\ new[i] \in s.n + 1 .. s.n + f
  <2>1. new \in [1 .. f -> Nat \ {0}] /\ \A i \in 1 .. f : new[i] = s.n + i
    BY <1>3
  <2> HIDE DEF new
  <2> QED
    BY <1>3, <2>1
<1> HIDE DEF new
<1>5. /\ CodexOK(t) /\ t.n = s.n + f /\ t.asst = s.asst /\ t.think = s.think /\ t.held = s.held
      /\ t.patches = [s.patches EXCEPT ![c] = new]
  BY <1>3, <1>4 DEF CodexOK
<1> HIDE DEF t
<1>6. CodexLive(t) \subseteq CodexLive(s) \cup (s.n + 1 .. s.n + f)
  <2>1. \A d \in Call : t.patches[d] = IF d = c THEN new ELSE s.patches[d]
    BY <1>3, <1>5 DEF CodexOK
  <2>2. \A d \in Call : \A i \in 1 .. Len(t.patches[d]) :
          \/ t.patches[d][i] \in s.n + 1 .. s.n + f
          \/ \E j \in 1 .. Len(s.patches[d]) : t.patches[d][i] = s.patches[d][j]
    BY <1>4, <2>1
  <2> QED
    BY <1>5, <2>2, CodexLiveSub
<1>7. Fit(p, s.n, s.n, CodexLive(s)) /\ ~HasOp(p, "wipe")
  <2>1. p = [i \in DOMAIN s.patches[c] |-> p[i]] /\ \A i \in DOMAIN s.patches[c] : p[i] = RemoveEntry(s.patches[c][i])
    OBVIOUS
  <2> HIDE DEF p
  <2> QED
    BY <1>3, <2>1, PatchOld
<1>8. Fit(q, s.n, s.n + f, CodexLive(s)) /\ ~HasOp(q, "wipe")
  BY <1>3, PatchEntriesFit
<1> HIDE DEF p, q
<1>9. CodexMoves(s, r)
  BY <1>2, <1>5, <1>6, <1>7, <1>8, FitThen DEF CodexMoves, Moves
<1>10. CodexMoves(s0, r)
  BY <1>3, <1>9, CodexAfter
<1> QED
  BY <1>10 DEF r

(* PatchApplyBegin.                                                        *)
LEMMA PatchBeginMoves ==
  ASSUME NEW s0, CodexOK(s0), NEW c \in Call, NEW f \in 1 .. 2
  PROVE  CodexMoves(s0, PatchApplyBegin(s0, c, f))
<1> DEFINE u == NoText(s0)
           s == [u EXCEPT !.phase[c] = "begun", !.kind[c] = "patch"]
           old == s.patches[c]
           more == IF f > Len(old) THEN f - Len(old) ELSE 0
           add == [i \in 1 .. more |-> s.n + i]
           new == old \o add
           t == [s EXCEPT !.n = @ + more, !.patches[c] = new]
           v == CodexPatchEntry(c, "created")
           p == [i \in DOMAIN s.patches[c] |-> ReplaceEntry(s.patches[c][i], v)]
           q == PatchEntries(s, c, more)
           r == PatchApplyBegin(s0, c, f)
<1>1. CodexSame(s0, u) /\ CodexOK(u)
  BY NoTextSame
<1>2. r.st = t /\ r.ops = p \o q
  BY DEF PatchApplyBegin, Done
<1> HIDE DEF u, r
<1>3. CodexSame(s0, s) /\ CodexOK(s) /\ s.n \in Nat
  BY <1>1 DEF CodexSame, CodexOK
<1> HIDE DEF s
<1>o. old \in Seq(Nat \ {0}) /\ Len(old) \in Nat
  BY <1>3 DEF CodexOK
<1>m. more \in 0 .. 2
  BY <1>o
<1> HIDE DEF more
<1>a. add \in Seq(Nat \ {0}) /\ Len(add) = more /\ \A i \in 1 .. more : add[i] \in s.n + 1 .. s.n + more
  <2>1. add \in [1 .. more -> Nat \ {0}] /\ \A i \in 1 .. more : add[i] = s.n + i
    BY <1>3, <1>m
  <2> HIDE DEF add
  <2> QED
    BY <1>3, <1>m, <2>1
<1> HIDE DEF add, old
<1>4. /\ new \in Seq(Nat \ {0})
      /\ \A i \in 1 .. Len(new) : \/ new[i] \in s.n + 1 .. s.n + more
                                  \/ \E j \in 1 .. Len(old) : new[i] = old[j]
  <2>1. /\ new \in Seq(Nat \ {0}) /\ Len(new) = Len(old) + Len(add)
        /\ \A i \in 1 .. Len(old) + Len(add) : new[i] = IF i <= Len(old) THEN old[i] ELSE add[i - Len(old)]
    <3>1. old \in Seq(Nat \ {0}) /\ add \in Seq(Nat \ {0})
      BY <1>o, <1>a
    <3> QED
      BY <3>1
  <2> HIDE DEF new
  <2>2. ASSUME NEW i \in 1 .. Len(new)
        PROVE new[i] \in s.n + 1 .. s.n + more \/ \E j \in 1 .. Len(old) : new[i] = old[j]
    <3>1. CASE i <= Len(old)
      BY <1>o, <2>1, <3>1
    <3>2. CASE i > Len(old)
      <4>1. i - Len(old) \in 1 .. more /\ new[i] = add[i - Len(old)]
        BY <1>o, <1>a, <1>m, <2>1, <3>2
      <4> QED
        BY <1>a, <4>1
    <3> QED
      BY <1>o, <1>a, <1>m, <2>1, <3>1, <3>2
  <2> QED
    BY <2>1, <2>2
<1> HIDE DEF new
<1>5. /\ CodexOK(t) /\ t.n = s.n + more /\ t.asst = s.asst /\ t.think = s.think /\ t.held = s.held
      /\ t.patches = [s.patches EXCEPT ![c] = new]
  BY <1>3, <1>4, <1>m DEF CodexOK
<1> HIDE DEF t
<1>6. CodexLive(t) \subseteq CodexLive(s) \cup (s.n + 1 .. s.n + more)
  <2>1. \A d \in Call : t.patches[d] = IF d = c THEN new ELSE s.patches[d]
    BY <1>3, <1>5 DEF CodexOK
  <2>2. \A d \in Call : \A i \in 1 .. Len(t.patches[d]) :
          \/ t.patches[d][i] \in s.n + 1 .. s.n + more
          \/ \E j \in 1 .. Len(s.patches[d]) : t.patches[d][i] = s.patches[d][j]
    BY <1>4, <2>1 DEF old
  <2> QED
    BY <1>5, <2>2, CodexLiveSub
<1>7. Fit(p, s.n, s.n, CodexLive(s)) /\ ~HasOp(p, "wipe")
  <2>1. p = [i \in DOMAIN s.patches[c] |-> p[i]] /\ \A i \in DOMAIN s.patches[c] : p[i] = ReplaceEntry(s.patches[c][i], v)
    OBVIOUS
  <2> HIDE DEF p, v
  <2> QED
    BY <1>3, <2>1, PatchOld
<1>8. Fit(q, s.n, s.n + more, CodexLive(s)) /\ ~HasOp(q, "wipe")
  BY <1>3, <1>m, PatchEntriesFit
<1> HIDE DEF p, q
<1>9. CodexMoves(s, r)
  BY <1>2, <1>5, <1>6, <1>7, <1>8, FitThen DEF CodexMoves, Moves
<1>10. CodexMoves(s0, r)
  BY <1>3, <1>9, CodexAfter
<1> QED
  BY <1>10 DEF r

(* PatchApplyEnd.                                                          *)
LEMMA PatchEndMoves ==
  ASSUME NEW s, CodexOK(s), NEW c \in Call, NEW ok
  PROVE  CodexMoves(s, PatchApplyEnd(s, c, ok))
<1> DEFINE t == [s EXCEPT !.patches[c] = <<>>, !.phase[c] = "ended", !.outcome[c] = ok]
           v == CodexPatchEntry(c, ok)
           p == [i \in DOMAIN s.patches[c] |-> ReplaceEntry(s.patches[c][i], v)]
           r == PatchApplyEnd(s, c, ok)
<1>1. r.st = t /\ r.ops = p
  BY DEF PatchApplyEnd, Done
<1> HIDE DEF r
<1>2. /\ CodexOK(t) /\ t.n = s.n /\ t.asst = s.asst /\ t.think = s.think /\ t.held = s.held
      /\ t.patches = [s.patches EXCEPT ![c] = <<>>] /\ s.n \in Nat
  BY DEF CodexOK
<1> HIDE DEF t
<1>3. CodexLive(t) \subseteq CodexLive(s) \cup {}
  <2>1. \A d \in Call : t.patches[d] = IF d = c THEN <<>> ELSE s.patches[d]
    BY <1>2 DEF CodexOK
  <2>2. \A d \in Call : \A i \in 1 .. Len(t.patches[d]) :
          t.patches[d][i] \in {} \/ \E j \in 1 .. Len(s.patches[d]) : t.patches[d][i] = s.patches[d][j]
    BY <2>1
  <2>3. t.asst = s.asst /\ t.think = s.think /\ t.held = s.held
    BY <1>2
  <2> QED
    BY <2>2, <2>3, CodexLiveSub
<1>4. Fit(p, s.n, s.n, CodexLive(s)) /\ ~HasOp(p, "wipe")
  <2>1. p = [i \in DOMAIN s.patches[c] |-> p[i]] /\ \A i \in DOMAIN s.patches[c] : p[i] = ReplaceEntry(s.patches[c][i], v)
    OBVIOUS
  <2> HIDE DEF p, v
  <2> QED
    BY <2>1, PatchOld
<1> HIDE DEF p
<1>5. CodexMoves(s, r)
  BY <1>1, <1>2, <1>3, <1>4 DEF CodexMoves, Moves
<1> QED
  BY <1>5 DEF r

(* Every event of Codex.                                                   *)
LEMMA CodexLine ==
  ASSUME NEW s, CodexOK(s), NEW l \in CodexLines(s)
  PROVE  CodexMoves(s, CodexProcess(s, l))
<1>k. \A c \in Call : s.kind[c] \in {"cmd", "mcp", "search", "patch"}
  BY DEF CodexOK
<1>1. \/ l.t \in {"delta", "text"} /\ l.k \in {"asst", "think"}
      \/ l.t \in {"note", "outside", "plan", "break", "image"}
      \/ l.t = "ask" /\ l.c \in Call /\ l.f \in 0 .. 2
      \/ l.t = "begin" /\ l.c \in Call /\ l.k \in {"cmd", "mcp", "search", "patch"} /\ l.f \in 1 .. 2
      \/ l.t \in {"output", "end"} /\ l.c \in Call
  BY <1>k DEF CodexLines, CodexKind
<1>2. CodexSame(s, NoText(s)) /\ CodexOK(NoText(s))
  BY NoTextSame
<1>3. CASE l.t = "delta" /\ l.k \in {"asst", "think"}
  BY <1>3, CodexTextMoves DEF CodexProcess
<1>4. CASE l.t = "text" /\ l.k \in {"asst", "think"}
  BY <1>4, CodexTextMoves DEF CodexProcess
<1>5. CASE l.t \in {"note", "outside", "plan"}
  <2>1. CodexProcess(s, l) \in {CodexNote(s), CodexOutside(s)}
    BY <1>5 DEF CodexProcess, PlanUpdate
  <2> QED
    BY <2>1, CodexNoteMoves
<1>6. CASE l.t = "image"
  <2>1. CodexProcess(s, l) = CodexNote(NoText(s))
    BY <1>6 DEF CodexProcess, ViewImageToolCall
  <2> QED
    BY <1>2, <2>1, CodexNoteMoves, CodexAfter
<1>7. CASE l.t = "break"
  <2>1. CodexProcess(s, l) = Done(NoText(s), <<>>)
    BY <1>7 DEF CodexProcess
  <2> QED
    BY <1>2, <2>1, CodexKeep
<1>8. CASE l.t = "ask" /\ l.c \in Call /\ l.f \in 0 .. 2
  <2>1. CodexProcess(s, l) = IF l.f = 0 THEN ExecApprovalRequest(s, l.c)
                             ELSE ApplyPatchApprovalRequest(s, l.c, l.f)
    BY <1>8 DEF CodexProcess
  <2>2. l.f # 0 => l.f \in 1 .. 2
    BY <1>8
  <2> QED
    BY <1>8, <2>1, <2>2, ExecApprovalMoves, PatchAskMoves
<1>9. CASE l.t = "begin" /\ l.c \in Call /\ l.k \in {"cmd", "mcp", "search", "patch"} /\ l.f \in 1 .. 2
  <2>1. CodexProcess(s, l) = IF l.k = "patch" THEN PatchApplyBegin(s, l.c, l.f) ELSE CodexBegin(s, l.c, l.k)
    BY <1>9 DEF CodexProcess, McpToolCallBegin, WebSearchBegin
  <2> QED
    BY <1>9, <2>1, CodexBeginMoves, PatchBeginMoves
<1>10. CASE l.t = "output" /\ l.c \in Call
  <2>1. CodexProcess(s, l) = CodexOutput(s, l.c)
    BY <1>10 DEF CodexProcess
  <2> QED
    BY <1>10, <2>1, CodexOutputMoves
<1>11. CASE l.t = "end" /\ l.c \in Call
  <2>1. \/ CodexProcess(s, l) = PatchApplyEnd(s, l.c, l.ok)
        \/ CodexProcess(s, l) = ExecCommandEnd(s, l.c, l.ok)
        \/ CodexProcess(s, l) = ExecCommandEnd(NoText(s), l.c, "success")
    <3>1. s.kind[l.c] \in {"cmd", "mcp", "search", "patch"}
      BY <1>k, <1>11
    <3> QED
      BY <1>11, <3>1 DEF CodexProcess, McpToolCallEnd, WebSearchEnd
  <2>2. CodexMoves(s, ExecCommandEnd(NoText(s), l.c, "success"))
    BY <1>2, <1>11, ExecCommandEndMoves, CodexAfter
  <2> QED
    BY <1>11, <2>1, <2>2, ExecCommandEndMoves, PatchEndMoves
<1> QED
  BY <1>1, <1>3, <1>4, <1>5, <1>6, <1>7, <1>8, <1>9, <1>10, <1>11

-----------------------------------------------------------------------------
(* Claude Code and Amp.  Amp does not stream.                              *)
ClaudeOK(s) ==
  /\ DOMAIN s = {"n", "amp", "named", "tools", "kind", "live", "cur", "blocks", "open", "text", "whole",
                 "said", "expect", "used", "outcome"}
  /\ s.n \in Nat /\ DOMAIN s.tools = Call /\ DOMAIN s.blocks = Block
  /\ s.live \in BOOLEAN /\ s.cur \in BOOLEAN /\ s.used \subseteq Call
  /\ s.amp => ~s.live /\ ~s.cur /\ \A b \in Block : s.blocks[b].h = 0

(* The patches of a line before they become a batch.                       *)
ClaudeGives(s, r) ==
  /\ ClaudeOK(r.st) /\ Pushes(r.ops, s.n, r.st.n, ClaudeLive(s))
  /\ ClaudeLive(r.st) \subseteq ClaudeLive(s) \cup (s.n + 1 .. r.st.n)

ClaudeMoves(s, r) == ClaudeOK(r.st) /\ Moves(r.ops, s.n, r.st.n, ClaudeLive(s), ClaudeLive(r.st))

(* r differs from s in nothing that decides where a text goes.             *)
ClaudeSame(s, r) == /\ ClaudeOK(r) /\ r.tools = s.tools /\ r.blocks = s.blocks
                    /\ r.live = s.live /\ r.cur = s.cur /\ r.amp = s.amp

(* Patches that change no handle the processor has.                        *)
ClaudeShows(s, r, own) == ClaudeSame(s, r.st) /\ Pushes(r.ops, s.n, r.st.n, own)

(* Equal maps hold equal handles.                                          *)
LEMMA ClaudeSameLive ==
  ASSUME NEW s, NEW r, r.tools = s.tools, r.blocks = s.blocks
  PROVE  ClaudeLive(r) = ClaudeLive(s)
BY DEF ClaudeLive

(* Patches that change no map are patches of a line.                       *)
LEMMA ClaudeShown ==
  ASSUME NEW s, NEW r, ClaudeShows(s, r, ClaudeLive(s))
  PROVE  ClaudeGives(s, r)
<1>1. ClaudeLive(r.st) = ClaudeLive(s)
  BY ClaudeSameLive DEF ClaudeShows, ClaudeSame
<1> QED
  BY <1>1 DEF ClaudeShows, ClaudeSame, ClaudeGives

(* A line without patches.                                                 *)
LEMMA ClaudeKeep ==
  ASSUME NEW s, ClaudeOK(s), NEW f, ClaudeOK(f), f.n = s.n, ClaudeLive(f) \subseteq ClaudeLive(s)
  PROVE  ClaudeGives(s, Done(f, <<>>))
<1>1. s.n \in Nat
  BY DEF ClaudeOK
<1> QED
  BY <1>1, PushesNone DEF ClaudeGives, Done

(* extract_model_name.                                                     *)
LEMMA ModelNameShows ==
  ASSUME NEW s, ClaudeOK(s), NEW own
  PROVE  ClaudeShows(s, extract_model_name(s), own)
<1> DEFINE r == extract_model_name(s)
           t == [s EXCEPT !.named = TRUE, !.n = @ + 1]
<1>0. s.n \in Nat
  BY DEF ClaudeOK
<1>1. CASE s.named
  <2>1. r.st = s /\ r.ops = <<>>
    BY <1>1 DEF extract_model_name, Done
  <2> QED
    BY <1>0, <2>1, PushesNone DEF ClaudeShows, ClaudeSame
<1>2. CASE ~s.named
  <2>1. r.st = t /\ r.ops = <<AddNormalized(s.n + 1, Note)>>
    BY <1>2 DEF extract_model_name, Done
  <2>2. ClaudeSame(s, t) /\ t.n = s.n + 1
    BY DEF ClaudeSame, ClaudeOK
  <2> HIDE DEF t, r
  <2>3. ClaudeShows(s, r, own)
    BY <1>0, <2>1, <2>2, PushesNew DEF ClaudeShows
  <2> QED
    BY <2>3 DEF r
<1> QED
  BY <1>1, <1>2

(* Notes.                                                                  *)
LEMMA SystemGives ==
  ASSUME NEW s, ClaudeOK(s), NEW k \in Nat
  PROVE  ClaudeGives(s, ClaudeSystem(s, k))
<1> DEFINE r == ClaudeSystem(s, k)
           t == [s EXCEPT !.n = @ + k]
<1>0. s.n \in Nat
  BY DEF ClaudeOK
<1>1. r.st = t /\ r.ops = [i \in 1 .. k |-> AddNormalized(s.n + i, Note)]
  BY DEF ClaudeSystem, Done
<1>2. ClaudeSame(s, t) /\ t.n = s.n + k
  BY DEF ClaudeSame, ClaudeOK
<1>3. Pushes([i \in 1 .. k |-> AddNormalized(s.n + i, Note)], s.n, s.n + k, ClaudeLive(s))
  BY <1>0, PushesNotes
<1> HIDE DEF t, r
<1>4. ClaudeShows(s, r, ClaudeLive(s))
  BY <1>1, <1>2, <1>3 DEF ClaudeShows
<1> QED
  BY <1>4, ClaudeShown DEF r

(* MessageStart forgets the blocks of the message before.                  *)
LEMMA MessageStartGives ==
  ASSUME NEW s, ClaudeOK(s), ~s.amp, NEW id \in BOOLEAN
  PROVE  ClaudeGives(s, ClaudeMessageStart(s, id))
<1> DEFINE a == extract_model_name(s)
           e == [b \in Block |-> [buf |-> <<>>, h |-> 0]]
           t == [a.st EXCEPT !.live = id, !.cur = id, !.blocks = e,
                             !.open = TRUE, !.text = [b \in Block |-> <<>>], !.whole = {}]
           r == ClaudeMessageStart(s, id)
<1>1. r.st = t /\ r.ops = a.ops
  BY DEF ClaudeMessageStart, Done
<1>2. ClaudeShows(s, a, ClaudeLive(s))
  BY ModelNameShows
<1>3. DOMAIN e = Block /\ \A b \in Block : e[b].h = 0
  OBVIOUS
<1> HIDE DEF a, e, r
<1>4. ClaudeOK(t) /\ t.n = a.st.n /\ t.tools = s.tools /\ t.blocks = e
  BY <1>2, <1>3 DEF ClaudeShows, ClaudeSame, ClaudeOK
<1> HIDE DEF t
<1>5. ClaudeLive(t) \subseteq ClaudeLive(s)
  BY <1>3, <1>4 DEF ClaudeLive
<1>6. ClaudeGives(s, r)
  BY <1>1, <1>2, <1>4, <1>5 DEF ClaudeGives, ClaudeShows
<1> QED
  BY <1>6 DEF r

(* A piece of a block adds its entry or replaces it.                       *)
LEMMA DeltaGives ==
  ASSUME NEW s, ClaudeOK(s), NEW b \in Block
  PROVE  ClaudeGives(s, ClaudeDelta(s, b))
<1> DEFINE piece == s.said + 1
           buf == BlockText(s, b)
           new == s.blocks[b].h = 0
           h == IF new THEN s.n + 1 ELSE s.blocks[b].h
           t == [s EXCEPT !.said = piece, !.text[b] = Append(@, piece)]
           e == [buf |-> buf, h |-> h]
           u == [t EXCEPT !.blocks[b] = e, !.n = IF new THEN h ELSE @]
           v == content_item_to_normalized_entry(buf)
           r == ClaudeDelta(s, b)
<1>0. s.n \in Nat
  BY DEF ClaudeOK
<1>1. r = IF ~(s.cur /\ s.live) THEN Done(t, <<>>)
          ELSE Done(u, IF new THEN <<AddNormalized(h, v)>> ELSE <<ReplaceEntry(h, v)>>)
  BY DEF ClaudeDelta
<1>2. ClaudeSame(s, t) /\ t.n = s.n
  BY DEF ClaudeSame, ClaudeOK
<1>e. e.h = h
  OBVIOUS
<1> HIDE DEF t, v, r, e
<1>3. CASE ~(s.cur /\ s.live)
  <2>1. ClaudeLive(t) = ClaudeLive(s) /\ ClaudeOK(t) /\ t.n = s.n
    BY <1>2, ClaudeSameLive DEF ClaudeSame
  <2>2. ClaudeGives(s, r)
    BY <1>1, <1>3, <2>1, ClaudeKeep
  <2> QED
    BY <2>2 DEF r
<1>4. CASE s.cur /\ s.live
  <2>1. r.st = u /\ r.ops = IF new THEN <<AddNormalized(h, v)>> ELSE <<ReplaceEntry(h, v)>>
    BY <1>1, <1>4 DEF Done
  <2>2. /\ ClaudeOK(u) /\ u.n = (IF new THEN s.n + 1 ELSE s.n) /\ u.tools = s.tools
        /\ u.blocks = [s.blocks EXCEPT ![b] = e]
    <3>1. ~s.amp /\ ClaudeOK(t) /\ t.blocks = s.blocks /\ t.tools = s.tools /\ t.n = s.n /\ t.amp = s.amp
      BY <1>2, <1>4 DEF ClaudeSame, ClaudeOK
    <3>2. /\ DOMAIN u = DOMAIN t /\ u.n = (IF new THEN s.n + 1 ELSE s.n) /\ u.tools = s.tools
          /\ u.blocks = [s.blocks EXCEPT ![b] = e] /\ u.amp = t.amp /\ u.live = t.live /\ u.cur = t.cur
          /\ u.used = t.used
      BY <3>1 DEF ClaudeOK
    <3>3. DOMAIN u.blocks = Block
      BY <3>1, <3>2 DEF ClaudeOK
    <3> HIDE DEF u
    <3> QED
      BY <1>0, <3>1, <3>2, <3>3 DEF ClaudeOK
  <2> HIDE DEF u
  <2>3. \A c \in Block : u.blocks[c].h \in {s.blocks[c].h, h}
    BY <1>e, <2>2 DEF ClaudeOK
  <2>4. CASE new
    <3>1. ClaudeLive(u) \subseteq ClaudeLive(s) \cup {s.n + 1}
      BY <2>2, <2>3, <2>4 DEF ClaudeLive
    <3>2. s.n + 1 \in s.n + 1 .. s.n + 1
      BY <1>0
    <3>3. ClaudeGives(s, r)
      BY <1>0, <2>1, <2>2, <2>4, <3>1, <3>2, PushesNew DEF ClaudeGives
    <3> QED
      BY <3>3 DEF r
  <2>5. CASE ~new
    <3>1. ClaudeLive(u) \subseteq ClaudeLive(s) /\ h \in ClaudeLive(s)
      BY <2>2, <2>3, <2>5 DEF ClaudeLive
    <3>3. ClaudeGives(s, r)
      BY <1>0, <2>1, <2>2, <2>5, <3>1, PushesOld DEF ClaudeGives
    <3> QED
      BY <3>3 DEF r
  <2> QED
    BY <2>4, <2>5
<1> QED
  BY <1>3, <1>4

(* A final text goes to the entry of its block, or to a new one.           *)
LEMMA AssistantTextShows ==
  ASSUME NEW s, ClaudeOK(s), NEW i, NEW t, NEW own, ClaudeLive(s) \subseteq own
  PROVE  ClaudeShows(s, AssistantText(s, i, t), own)
<1> DEFINE h == IF s.live /\ i \in Block THEN s.blocks[i].h ELSE 0
           v == content_item_to_normalized_entry(t)
           u == [s EXCEPT !.n = @ + 1]
           r == AssistantText(s, i, t)
<1>0. s.n \in Nat
  BY DEF ClaudeOK
<1>1. r = IF h # 0 THEN Done(s, <<ReplaceEntry(h, v)>>) ELSE Done(u, <<AddNormalized(s.n + 1, v)>>)
  BY DEF AssistantText
<1>2. ClaudeSame(s, u) /\ u.n = s.n + 1 /\ ClaudeSame(s, s)
  BY DEF ClaudeSame, ClaudeOK
<1>3. h # 0 => h \in own
  BY DEF ClaudeLive
<1> HIDE DEF h, v, u, r
<1>4. CASE h # 0
  <2>1. r.st = s /\ r.ops = <<ReplaceEntry(h, v)>>
    BY <1>1, <1>4 DEF Done
  <2>2. ClaudeShows(s, r, own)
    BY <1>0, <1>2, <1>3, <1>4, <2>1, PushesOld DEF ClaudeShows
  <2> QED
    BY <2>2 DEF r
<1>5. CASE h = 0
  <2>1. r.st = u /\ r.ops = <<AddNormalized(s.n + 1, v)>>
    BY <1>1, <1>5 DEF Done
  <2>2. ClaudeShows(s, r, own)
    BY <1>0, <1>2, <2>1, PushesNew DEF ClaudeShows
  <2> QED
    BY <2>2 DEF r
<1> QED
  BY <1>4, <1>5

(* An assistant message of one or two texts.                               *)
LEMMA AssistantGives ==
  ASSUME NEW s, ClaudeOK(s), NEW ts, NEW mine \in BOOLEAN
  PROVE  ClaudeGives(s, AssistantMessage(s, ts, mine))
<1> DEFINE own == ClaudeLive(s)
           a == extract_model_name(s)
           f == [a.st EXCEPT !.live = @ /\ mine]
           b == AssistantText(f, 0, ts[1])
           c == IF Len(ts) = 1 THEN Done(b.st, <<>>) ELSE AssistantText(b.st, 1, ts[2])
           g == [c.st EXCEPT !.live = s.live /\ ~mine]
           r == AssistantMessage(s, ts, mine)
<1>1. r.st = g /\ r.ops = (a.ops \o b.ops) \o c.ops
  BY DEF AssistantMessage, Done
<1>2. ClaudeShows(s, a, own)
  BY ModelNameShows
<1> HIDE DEF r, a
<1>3. ClaudeOK(f) /\ f.n = a.st.n /\ f.tools = s.tools /\ f.blocks = s.blocks /\ f.amp = s.amp
  BY <1>2 DEF ClaudeShows, ClaudeSame, ClaudeOK
<1> HIDE DEF f
<1>4. ClaudeLive(f) = own
  BY <1>3, ClaudeSameLive
<1>5. ClaudeShows(f, b, own)
  BY <1>3, <1>4, AssistantTextShows
<1> HIDE DEF b
<1>6. ClaudeOK(b.st) /\ b.st.tools = s.tools /\ b.st.blocks = s.blocks /\ b.st.amp = s.amp
  BY <1>3, <1>5 DEF ClaudeShows, ClaudeSame
<1>7. ClaudeLive(b.st) = own /\ b.st.n \in Nat
  BY <1>6, ClaudeSameLive DEF ClaudeOK
<1>8. ClaudeShows(b.st, c, own)
  <2>1. CASE Len(ts) = 1
    <3>1. c.st = b.st /\ c.ops = <<>>
      BY <2>1 DEF Done
    <3> HIDE DEF c
    <3> QED
      BY <1>6, <1>7, <3>1, PushesNone DEF ClaudeShows, ClaudeSame
  <2>2. CASE Len(ts) # 1
    BY <1>6, <1>7, <2>2, AssistantTextShows
  <2> QED
    BY <2>1, <2>2
<1> HIDE DEF c
<1>9. Pushes((a.ops \o b.ops) \o c.ops, s.n, c.st.n, own)
  <2>1. Pushes(a.ops, s.n, a.st.n, own) /\ Pushes(b.ops, a.st.n, b.st.n, own) /\ Pushes(c.ops, b.st.n, c.st.n, own)
    BY <1>2, <1>3, <1>5, <1>8 DEF ClaudeShows
  <2> QED
    BY <2>1, PushesThen
<1>10. ClaudeOK(g) /\ g.n = c.st.n /\ g.tools = s.tools /\ g.blocks = s.blocks
  BY <1>6, <1>8 DEF ClaudeShows, ClaudeSame, ClaudeOK
<1> HIDE DEF g
<1>11. ClaudeLive(g) = own
  BY <1>10, ClaudeSameLive
<1>12. ClaudeGives(s, r)
  BY <1>1, <1>9, <1>10, <1>11 DEF ClaudeGives
<1> QED
  BY <1>12 DEF r

(* The whole of a streamed message, and a message that was not streamed.   *)
LEMMA WholeGives ==
  ASSUME NEW s, ClaudeOK(s)
  PROVE  ClaudeGives(s, ClaudeMessage(s)) /\ \A bs : ClaudeGives(s, ClaudeWhole(s, bs))
<1>1. ASSUME NEW f, ClaudeSame(s, f), f.n = s.n, NEW ts, NEW mine \in BOOLEAN
      PROVE ClaudeGives(s, AssistantMessage(f, ts, mine))
  <2>1. ClaudeLive(f) = ClaudeLive(s) /\ ClaudeOK(f)
    BY <1>1, ClaudeSameLive DEF ClaudeSame
  <2>2. ClaudeGives(f, AssistantMessage(f, ts, mine))
    BY <2>1, AssistantGives
  <2> QED
    BY <1>1, <2>1, <2>2 DEF ClaudeGives
<1>2. ClaudeGives(s, ClaudeMessage(s))
  <2> DEFINE f == [s EXCEPT !.said = @ + 1, !.expect = @ \cup {s.said + 1}]
  <2>1. ClaudeSame(s, f) /\ f.n = s.n
    BY DEF ClaudeSame, ClaudeOK
  <2>2. ClaudeMessage(s) = AssistantMessage(f, <<<<s.said + 1>>>>, FALSE)
    BY DEF ClaudeMessage
  <2> HIDE DEF f
  <2> QED
    BY <1>1, <2>1, <2>2
<1>3. ASSUME NEW bs PROVE ClaudeGives(s, ClaudeWhole(s, bs))
  <2> DEFINE f == [s EXCEPT !.whole = @ \cup Range(bs),
                            !.expect = @ \cup UNION {Range(s.text[b]) : b \in Range(bs)}]
             ts == [i \in DOMAIN bs |-> s.text[bs[i]]]
  <2>1. ClaudeSame(s, f) /\ f.n = s.n
    BY DEF ClaudeSame, ClaudeOK
  <2>2. ClaudeWhole(s, bs) = AssistantMessage(f, ts, TRUE)
    BY DEF ClaudeWhole
  <2> HIDE DEF f, ts
  <2> QED
    BY <1>1, <2>1, <2>2
<1> QED
  BY <1>2, <1>3

(* ToolUse.                                                                *)
LEMMA ToolUseGives ==
  ASSUME NEW s, ClaudeOK(s), NEW c \in Call, NEW k
  PROVE  ClaudeGives(s, ClaudeToolUse(s, c, k))
<1> DEFINE a == extract_model_name(s)
           h == a.st.n + 1
           t == [a.st EXCEPT !.n = @ + 1, !.tools[c] = h, !.kind[c] = ResultAction(k), !.used = @ \cup {c}]
           v == ToolEntry(c, k)
           b == <<AddNormalized(h, v)>>
           r == ClaudeToolUse(s, c, k)
<1>1. r.st = t /\ r.ops = a.ops \o b
  BY DEF ClaudeToolUse, Done
<1>2. ClaudeShows(s, a, ClaudeLive(s))
  BY ModelNameShows
<1> HIDE DEF a, v, r
<1>3. a.st.n \in Nat /\ s.n \in Nat /\ s.n <= a.st.n
  BY <1>2 DEF ClaudeShows, ClaudeSame, ClaudeOK, Pushes
<1>4. /\ ClaudeOK(t) /\ t.n = a.st.n + 1 /\ t.blocks = s.blocks /\ t.tools = [s.tools EXCEPT ![c] = h]
  BY <1>2, <1>3 DEF ClaudeShows, ClaudeSame, ClaudeOK
<1> HIDE DEF t
<1>5. \A d \in Call : t.tools[d] \in {s.tools[d], h}
  BY <1>4 DEF ClaudeOK
<1>6. h \in s.n + 1 .. t.n
  BY <1>3, <1>4
<1>7. Pushes(a.ops \o b, s.n, t.n, ClaudeLive(s))
  <2>1. Pushes(a.ops, s.n, a.st.n, ClaudeLive(s))
    BY <1>2 DEF ClaudeShows
  <2>2. Pushes(b, a.st.n, t.n, ClaudeLive(s))
    BY <1>3, <1>4, PushesNew
  <2> HIDE DEF b
  <2> QED
    BY <2>1, <2>2, PushesThen
<1> HIDE DEF h, b
<1>8. ClaudeLive(t) \subseteq ClaudeLive(s) \cup {h}
  BY <1>4, <1>5 DEF ClaudeLive
<1>9. ClaudeGives(s, r)
  BY <1>1, <1>4, <1>6, <1>7, <1>8 DEF ClaudeGives
<1> QED
  BY <1>9 DEF r

(* ToolResult.                                                             *)
LEMMA ToolResultGives ==
  ASSUME NEW s, ClaudeOK(s), NEW c \in Call, NEW ok
  PROVE  ClaudeGives(s, ClaudeToolResult(s, c, ok))
<1> DEFINE t == [s EXCEPT !.outcome[c] = ok]
           v == Tool(c, s.kind[c], ok)
           r == ClaudeToolResult(s, c, ok)
<1>0. s.n \in Nat
  BY DEF ClaudeOK
<1>1. r = Done(t, IF s.tools[c] # 0 /\ s.kind[c] # "none" THEN <<ReplaceEntry(s.tools[c], v)>> ELSE <<>>)
  BY DEF ClaudeToolResult
<1>2. ClaudeSame(s, t) /\ t.n = s.n
  BY DEF ClaudeSame, ClaudeOK
<1> HIDE DEF t, v, r
<1>3. CASE s.tools[c] # 0 /\ s.kind[c] # "none"
  <2>1. r.st = t /\ r.ops = <<ReplaceEntry(s.tools[c], v)>>
    BY <1>1, <1>3 DEF Done
  <2>2. s.tools[c] \in ClaudeLive(s)
    BY <1>3 DEF ClaudeLive
  <2>3. ClaudeShows(s, r, ClaudeLive(s))
    BY <1>0, <1>2, <2>1, <2>2, PushesOld DEF ClaudeShows
  <2> QED
    BY <2>3, ClaudeShown DEF r
<1>4. CASE ~(s.tools[c] # 0 /\ s.kind[c] # "none")
  <2>1. r.st = t /\ r.ops = <<>>
    BY <1>1, <1>4 DEF Done
  <2>3. ClaudeShows(s, r, ClaudeLive(s))
    BY <1>0, <1>2, <2>1, PushesNone DEF ClaudeShows
  <2> QED
    BY <2>3, ClaudeShown DEF r
<1> QED
  BY <1>3, <1>4

(* MessageStop.                                                            *)
LEMMA StopGives ==
  ASSUME NEW s, ClaudeOK(s)
  PROVE  ClaudeGives(s, ClaudeMessageStop(s))
<1> DEFINE t == [s EXCEPT !.open = FALSE, !.cur = FALSE, !.live = @ /\ ~s.cur]
<1>1. ClaudeMessageStop(s) = Done(t, <<>>)
  BY DEF ClaudeMessageStop
<1>2. ClaudeOK(t) /\ t.n = s.n /\ t.tools = s.tools /\ t.blocks = s.blocks
  BY DEF ClaudeOK
<1> HIDE DEF t
<1>3. ClaudeLive(t) = ClaudeLive(s)
  BY <1>2, ClaudeSameLive
<1> QED
  BY <1>1, <1>2, <1>3, ClaudeKeep

(* The lines that become a batch without a replay.                         *)
LEMMA ClaudeGiven ==
  ASSUME NEW s, ClaudeOK(s), NEW l, ClaudeGives(s, ClaudeHandle(s, l))
  PROVE  ClaudeMoves(s, ClaudeProcess(s, l))
<1> DEFINE r == ClaudeHandle(s, l)
<1>1. ClaudeProcess(s, l).st = r.st /\ ClaudeProcess(s, l).ops = Batch(s.n, r.st.n, r.ops)
  BY DEF ClaudeProcess, Done
<1> HIDE DEF r
<1>2. ClaudeGives(s, r)
  BY DEF r
<1> QED
  BY <1>1, <1>2, MovesBatch DEF ClaudeGives, ClaudeMoves

(* User text: nothing, or Amp's replay, after which no handle is held.     *)
LEMMA ClaudeUserMoves ==
  ASSUME NEW s, ClaudeOK(s), NEW l, l.t = "user"
  PROVE  ClaudeMoves(s, ClaudeProcess(s, l))
<1>1. ClaudeHandle(s, l) = ClaudeUser(s)
  BY DEF ClaudeHandle
<1>2. CASE ~s.amp
  <2>1. ClaudeUser(s) = Done(s, <<>>)
    BY <1>2 DEF ClaudeUser
  <2> QED
    BY <1>1, <2>1, ClaudeKeep, ClaudeGiven
<1>3. CASE s.amp
  <2> DEFINE z == [c \in Call |-> 0]
             t == [s EXCEPT !.n = @ + 1, !.tools = z, !.expect = {}]
             q == <<Wipe, AddNormalized(s.n + 1, Note)>>
  <2>1. ClaudeUser(s) = Done(t, q)
    BY <1>3 DEF ClaudeUser
  <2>2. DOMAIN z = Call /\ \A c \in Call : z[c] = 0
    OBVIOUS
  <2> HIDE DEF z
  <2>3. ClaudeOK(t) /\ t.n = s.n + 1 /\ t.tools = z /\ t.blocks = s.blocks /\ s.n \in Nat
    BY <2>2 DEF ClaudeOK
  <2> HIDE DEF t, q
  <2>4. ClaudeLive(t) = {}
    BY <1>3, <2>2, <2>3 DEF ClaudeLive, ClaudeOK
  <2>5. ClaudeProcess(s, l).st = t /\ ClaudeProcess(s, l).ops = Batch(s.n, t.n, q)
    BY <1>1, <2>1 DEF ClaudeProcess, Done
  <2>6. Fit(Batch(s.n, t.n, q), s.n, t.n, ClaudeLive(s))
    BY <2>3, FitReplay DEF q
  <2> QED
    BY <2>3, <2>4, <2>5, <2>6 DEF ClaudeMoves, Moves
<1> QED
  BY <1>2, <1>3

(* Every line of Claude Code and Amp.                                      *)
LEMMA ClaudeLine ==
  ASSUME NEW s, ClaudeOK(s), NEW l \in ClaudeLines(s)
  PROVE  ClaudeMoves(s, ClaudeProcess(s, l))
<1>1. \/ l.t = "system" /\ l.notes \in Nat
      \/ l.t \in {"note", "raw", "user", "stop", "whole", "message"}
      \/ l.t = "start" /\ l.id \in BOOLEAN /\ ~s.amp
      \/ l.t = "delta" /\ l.b \in Block
      \/ l.t \in {"call", "result"} /\ l.c \in Call
  <2>1. s.used \subseteq Call
    BY DEF ClaudeOK
  <2> QED
    BY <2>1 DEF ClaudeLines
<1>2. CASE l.t = "system" /\ l.notes \in Nat
  <2>1. ClaudeHandle(s, l) = ClaudeSystem(s, l.notes)
    BY <1>2 DEF ClaudeHandle
  <2> QED
    BY <1>2, <2>1, SystemGives, ClaudeGiven
<1>3. CASE l.t \in {"note", "raw"}
  <2>1. ClaudeHandle(s, l) = ClaudeSystem(s, 1)
    BY <1>3 DEF ClaudeHandle, ClaudeNote, ClaudeRaw
  <2> QED
    BY <2>1, SystemGives, ClaudeGiven
<1>4. CASE l.t = "user"
  BY <1>4, ClaudeUserMoves
<1>5. CASE l.t = "stop"
  <2>1. ClaudeHandle(s, l) = ClaudeMessageStop(s)
    BY <1>5 DEF ClaudeHandle
  <2> QED
    BY <2>1, StopGives, ClaudeGiven
<1>6. CASE l.t \in {"whole", "message"}
  <2>1. ClaudeHandle(s, l) = ClaudeMessage(s) \/ ClaudeHandle(s, l) = ClaudeWhole(s, l.bs)
    BY <1>6 DEF ClaudeHandle
  <2> QED
    BY <2>1, WholeGives, ClaudeGiven
<1>7. CASE l.t = "start" /\ l.id \in BOOLEAN /\ ~s.amp
  <2>1. ClaudeHandle(s, l) = ClaudeMessageStart(s, l.id)
    BY <1>7 DEF ClaudeHandle
  <2> QED
    BY <1>7, <2>1, MessageStartGives, ClaudeGiven
<1>8. CASE l.t = "delta" /\ l.b \in Block
  <2>1. ClaudeHandle(s, l) = ClaudeDelta(s, l.b)
    BY <1>8 DEF ClaudeHandle
  <2> QED
    BY <1>8, <2>1, DeltaGives, ClaudeGiven
<1>9. CASE l.t = "call" /\ l.c \in Call
  <2>1. ClaudeHandle(s, l) = ClaudeToolUse(s, l.c, l.k)
    BY <1>9 DEF ClaudeHandle
  <2> QED
    BY <1>9, <2>1, ToolUseGives, ClaudeGiven
<1>10. CASE l.t = "result" /\ l.c \in Call
  <2>1. ClaudeHandle(s, l) = ClaudeToolResult(s, l.c, l.ok)
    BY <1>10 DEF ClaudeHandle
  <2> QED
    BY <1>10, <2>1, ToolResultGives, ClaudeGiven
<1> QED
  BY <1>1, <1>2, <1>3, <1>4, <1>5, <1>6, <1>7, <1>8, <1>9, <1>10

-----------------------------------------------------------------------------
(* The system.                                                             *)
OutOK(a, s) ==
  CASE a \in {"claude", "amp"} -> ClaudeOK(s)
    [] a = "codex" -> CodexOK(s)
    [] a \in {"cursor", "acp"} -> ChatOK(s)
    [] a = "opencode" -> OpencodeOK(s)
    [] a = "copilot" -> CopilotOK(s)

ConvInv ==
  /\ agent \in {"claude", "amp", "codex", "cursor", "acp", "opencode", "copilot"}
  /\ OutOK(agent, st) /\ PlainOK(err)
  /\ moved \/ Apart

(* Every line of every agent.                                              *)
LEMMA OutLine ==
  ASSUME NEW a \in {"claude", "amp", "codex", "cursor", "acp", "opencode", "copilot"}, NEW s, OutOK(a, s),
         NEW l \in Lines(a, s)
  PROVE  LET r == Process(a, s, l)
         IN  OutOK(a, r.st) /\ Moves(r.ops, s.n, r.st.n, OutLive(a, s), OutLive(a, r.st))
<1>1. CASE a \in {"claude", "amp"}
  <2>1. ClaudeOK(s) /\ l \in ClaudeLines(s) /\ Process(a, s, l) = ClaudeProcess(s, l)
    BY <1>1 DEF OutOK, Lines, Process
  <2>2. \A x : OutLive(a, x) = ClaudeLive(x) /\ OutOK(a, x) = ClaudeOK(x)
    BY <1>1 DEF OutLive, OutOK
  <2> QED
    BY <2>1, <2>2, ClaudeLine DEF ClaudeMoves
<1>2. CASE a = "codex"
  <2>1. CodexOK(s) /\ l \in CodexLines(s) /\ Process(a, s, l) = CodexProcess(s, l)
    BY <1>2 DEF OutOK, Lines, Process
  <2>2. \A x : OutLive(a, x) = CodexLive(x) /\ OutOK(a, x) = CodexOK(x)
    BY <1>2 DEF OutLive, OutOK
  <2> QED
    BY <2>1, <2>2, CodexLine DEF CodexMoves
<1>3. CASE a \in {"cursor", "acp"}
  <2>1. /\ ChatOK(s)
        /\ \/ l \in CursorLines(s) /\ Process(a, s, l) = CursorProcess(s, l)
           \/ l \in AcpLines(s) /\ Process(a, s, l) = AcpProcess(s, l)
    BY <1>3 DEF OutOK, Lines, Process
  <2>2. \A x : OutLive(a, x) = ChatLive(x) /\ OutOK(a, x) = ChatOK(x)
    BY <1>3 DEF OutLive, OutOK
  <2> QED
    BY <2>1, <2>2, CursorLine, AcpLine DEF ChatMoves
<1>4. CASE a = "opencode"
  <2>1. OpencodeOK(s) /\ l \in OpencodeLines(s) /\ Process(a, s, l) = OpencodeProcess(s, l)
    BY <1>4 DEF OutOK, Lines, Process
  <2>2. \A x : OutLive(a, x) = OpencodeLive(x) /\ OutOK(a, x) = OpencodeOK(x)
    BY <1>4 DEF OutLive, OutOK
  <2> QED
    BY <2>1, <2>2, OpencodeLine DEF OpencodeMoves
<1>5. CASE a = "copilot"
  <2>1. CopilotOK(s) /\ Process(a, s, l) = CopilotProcess(s, l)
    BY <1>5 DEF OutOK, Process
  <2>2. \A x : OutLive(a, x) = PlainLive(x.p) /\ OutOK(a, x) = CopilotOK(x)
    BY <1>5 DEF OutLive, OutOK
  <2> QED
    BY <2>1, <2>2, CopilotLine
<1> QED
  BY <1>1, <1>2, <1>3, <1>4, <1>5

(* At the start there is nothing to confuse.                               *)
LEMMA ConvInit ==
  ASSUME Init
  PROVE  ConvInv
<1>1. agent \in {"claude", "amp", "codex", "cursor", "acp", "opencode", "copilot"}
  BY AgentAssumption DEF Init
<1>2. OutOK(agent, st) /\ st.n = 0 /\ OutLive(agent, st) = {}
  <2>1. CASE agent \in {"claude", "amp"}
    <3>1. st = ClaudeStart(FALSE) \/ st = ClaudeStart(TRUE)
      BY <2>1 DEF Init, Start
    <3>2. ClaudeOK(st) /\ st.n = 0 /\ ClaudeLive(st) = {}
      <4>1. ASSUME NEW amp \in BOOLEAN, st = ClaudeStart(amp) PROVE ClaudeOK(st) /\ st.n = 0
        BY <4>1 DEF ClaudeStart, ClaudeOK
      <4>2. ASSUME NEW amp, st = ClaudeStart(amp) PROVE ClaudeLive(st) = {}
        <5>1. (\A c \in Call : st.tools[c] = 0) /\ \A b \in Block : st.blocks[b].h = 0
          BY <4>2 DEF ClaudeStart
        <5> QED
          BY <5>1 DEF ClaudeLive
      <4> QED
        BY <3>1, <4>1, <4>2
    <3> QED
      BY <2>1, <3>2 DEF OutOK, OutLive
  <2>2. CASE agent = "codex"
    <3>1. st = CodexStart
      BY <2>2 DEF Init, Start
    <3>2. CodexOK(st) /\ st.n = 0
      BY <3>1 DEF CodexStart, CodexOK
    <3>3. \A c \in Call : Len(st.patches[c]) = 0 /\ st.held[c] = 0
      BY <3>1 DEF CodexStart
    <3>4. st.asst = 0 /\ st.think = 0
      BY <3>1 DEF CodexStart
    <3>5. ASSUME NEW h \in CodexLive(st) PROVE FALSE
      BY <3>3, <3>4, <3>5, CodexLiveIs
    <3> QED
      BY <2>2, <3>2, <3>5 DEF OutOK, OutLive
  <2>3. CASE agent \in {"cursor", "acp"}
    <3>1. st = ChatStart
      BY <2>3 DEF Init, Start
    <3>2. ChatOK(st) /\ st.n = 0 /\ ChatLive(st) = {}
      BY <3>1 DEF ChatStart, ChatOK, ChatLive
    <3> QED
      BY <2>3, <3>2 DEF OutOK, OutLive
  <2>4. CASE agent = "opencode"
    <3>1. st = OpencodeStart
      BY <2>4 DEF Init, Start
    <3>2. OpencodeOK(st) /\ st.n = 0 /\ OpencodeLive(st) = {}
      BY <3>1 DEF OpencodeStart, OpencodeOK, OpencodeLive, MaxSegment
    <3> QED
      BY <2>4, <3>2 DEF OutOK, OutLive
  <2>5. CASE agent = "copilot"
    <3>1. st = CopilotStart
      BY <2>5 DEF Init, Start
    <3>2. CopilotOK(st) /\ st.n = 0 /\ PlainLive(st.p) = {}
      BY <3>1 DEF CopilotStart, CopilotOK, PlainOK, PlainLive, PlainTextLogProcessor
    <3> QED
      BY <2>5, <3>2 DEF OutOK, OutLive
  <2> QED
    BY <1>1, <2>1, <2>2, <2>3, <2>4, <2>5
<1>3. PlainOK(err) /\ err.n = 0 /\ PlainLive(err) = {}
  BY DEF Init, PlainOK, PlainLive, PlainTextLogProcessor
<1>4. \A t \in Task : Live(t) = {} /\ LastHandle(t) = 0
  BY <1>2, <1>3 DEF Live, LastHandle
<1>5. /\ \A t \in Task : todo[t] = <<>> /\ idx[t] = NoIndex
      /\ DOMAIN todo = Task /\ DOMAIN idx = Task /\ next = 0 /\ doc = EmptyDoc /\ ~stray
  BY DEF Init
<1>6. DOMAIN NoIndex = {} /\ DOMAIN EmptyDoc = {}
  BY DEF NoIndex, EmptyDoc
<1>7. (\A op, h : ~Has(<<>>, op, h)) /\ (\A op : ~HasOp(<<>>, op)) /\ IsOps(<<>>)
  BY DEF Has, HasOp, IsOps
<1>8. \A taken, own : Ready(<<>>, taken, own)
  BY DEF Ready
<1>t. "out" \in Task /\ "err" \in Task
  BY DEF Task
<1>9. Shape
  BY <1>5, <1>6, <1>7 DEF Shape
<1>10. HandlesBelow /\ TodoReady /\ LiveOwned
  BY <1>4, <1>5, <1>6, <1>7, <1>8 DEF HandlesBelow, TodoReady, LiveOwned
<1>11. ReservedApart /\ BelowNext /\ ErrInReplay
  BY <1>5, <1>6, <1>7, <1>t DEF ReservedApart, BelowNext, ErrInReplay
<1>12. WipeAlone
  BY <1>5, <1>7, <1>t DEF WipeAlone
<1>13. Apart
  BY <1>5, <1>9, <1>10, <1>11, <1>12 DEF Apart
<1> QED
  BY <1>1, <1>2, <1>3, <1>13 DEF ConvInv

(* The stdout task gets a line.                                            *)
LEMMA StdoutKeeps ==
  ASSUME ConvInv, StdoutLine
  PROVE  ConvInv'
<1>1. PICK l \in Lines(agent, st) :
        st' = Process(agent, st, l).st /\ todo' = [todo EXCEPT !["out"] = Process(agent, st, l).ops]
  BY DEF StdoutLine
<1>2. UNCHANGED <<agent, err, next, idx, doc, moved, stray>> /\ todo["out"] = <<>>
  BY DEF StdoutLine
<1> DEFINE q == Process(agent, st, l).ops
<1>3. OutOK(agent, st') /\ Moves(q, st.n, st'.n, OutLive(agent, st), OutLive(agent, st'))
  BY <1>1, OutLine DEF ConvInv
<1> HIDE DEF q
<1>4. OutOK(agent, st)' /\ PlainOK(err)' /\ agent' = agent
  BY <1>2, <1>3 DEF ConvInv
<1>5. ASSUME ~moved PROVE Apart'
  <2>1. Apart
    BY <1>5 DEF ConvInv
  <2>2. /\ Live("out") = OutLive(agent, st) /\ Live("out")' = OutLive(agent, st')
        /\ LastHandle("out") = st.n /\ LastHandle("out")' = st'.n
        /\ Live("err")' = Live("err") /\ LastHandle("err")' = LastHandle("err")
    BY <1>2 DEF Live, LastHandle
  <2>3. "out" \in Task /\ \A u \in Task \ {"out"} : u = "err"
    BY DEF Task
  <2>4. todo' = [todo EXCEPT !["out"] = q]
    BY <1>1 DEF q
  <2>5. /\ Fit(q, LastHandle("out"), st'.n, Live("out"))
        /\ Live("out")' \subseteq Live("out") \cup (LastHandle("out") + 1 .. st'.n)
        /\ HasOp(q, "wipe") => Live("out")' = {}
    BY <1>3, <2>2 DEF Moves
  <2>6. \A u \in Task \ {"out"} : Live(u)' = Live(u) /\ LastHandle(u)' = LastHandle(u)
    BY <2>2, <2>3
  <2>7. "out" # "err"
    OBVIOUS
  <2> QED
    BY <1>2, <2>1, <2>2, <2>3, <2>4, <2>5, <2>6, <2>7, LineKeeps
<1> QED
  BY <1>2, <1>4, <1>5 DEF ConvInv

(* The stderr task gets a chunk or an error line.                          *)
LEMMA StderrKeeps ==
  ASSUME ConvInv, StderrChunk
  PROVE  ConvInv'
<1>1. UNCHANGED <<agent, st, next, idx, doc, moved, stray>> /\ todo["err"] = <<>>
  BY DEF StderrChunk
<1>0. PlainOK(err) /\ err.n \in Nat
  BY DEF ConvInv, PlainOK
<1>2. PICK q : /\ todo' = [todo EXCEPT !["err"] = q] /\ PlainOK(err')
               /\ Fit(q, err.n, err'.n, PlainLive(err)) /\ ~HasOp(q, "wipe")
               /\ PlainLive(err') \subseteq PlainLive(err) \cup (err.n + 1 .. err'.n)
               /\ \A h, k \in err.n + 1 .. err'.n : h = k
  <2>1. ASSUME NEW gap, NEW p, p = process(err, sent["err"] + 1, gap, 0),
               err' = p, todo' = [todo EXCEPT !["err"] = Batch(err.n, p.n, p.ops)]
        PROVE  \E q : /\ todo' = [todo EXCEPT !["err"] = q] /\ PlainOK(err')
                      /\ Fit(q, err.n, err'.n, PlainLive(err)) /\ ~HasOp(q, "wipe")
                      /\ PlainLive(err') \subseteq PlainLive(err) \cup (err.n + 1 .. err'.n)
                      /\ \A h, k \in err.n + 1 .. err'.n : h = k
    <3>1. Chunk(err, p)
      BY <1>0, <2>1, ProcessIs
    <3>2. /\ PlainOK(p) /\ Fit(Batch(err.n, p.n, p.ops), err.n, p.n, PlainLive(err))
          /\ ~HasOp(Batch(err.n, p.n, p.ops), "wipe")
          /\ PlainLive(p) \subseteq PlainLive(err) \cup (err.n + 1 .. p.n)
          /\ \A h, k \in err.n + 1 .. p.n : h = k
      BY <1>0, <3>1, ChunkFits
    <3> QED
      BY <2>1, <3>2
  <2>2. ASSUME err' = OpencodeErrorLine(err), todo' = [todo EXCEPT !["err"] = OpencodeErrorLine(err).ops]
        PROVE  \E q : /\ todo' = [todo EXCEPT !["err"] = q] /\ PlainOK(err')
                      /\ Fit(q, err.n, err'.n, PlainLive(err)) /\ ~HasOp(q, "wipe")
                      /\ PlainLive(err') \subseteq PlainLive(err) \cup (err.n + 1 .. err'.n)
                      /\ \A h, k \in err.n + 1 .. err'.n : h = k
    <3>1. PlainOK(err') /\ err'.n = err.n + 1 /\ err'.ops = AddNew(err.n + 1, Note) /\ PlainLive(err') = PlainLive(err)
      BY <1>0, <2>2, ErrorLine
    <3>2. Fit(err'.ops, err.n, err'.n, PlainLive(err)) /\ ~HasOp(err'.ops, "wipe")
      BY <1>0, <3>1, FitNew
    <3>3. \A h, k \in err.n + 1 .. err'.n : h = k
      BY <1>0, <3>1
    <3> QED
      BY <2>2, <3>1, <3>2, <3>3
  <2> QED
    BY <2>1, <2>2 DEF StderrChunk
<1>3. ASSUME ~moved PROVE Apart'
  <2>1. Apart
    BY <1>3 DEF ConvInv
  <2>2. /\ Live("err") = PlainLive(err) /\ Live("err")' = PlainLive(err')
        /\ LastHandle("err") = err.n /\ LastHandle("err")' = err'.n
        /\ Live("out")' = Live("out") /\ LastHandle("out")' = LastHandle("out")
    BY <1>1 DEF Live, LastHandle
  <2>3. "err" \in Task /\ \A u \in Task \ {"err"} : u = "out"
    BY DEF Task
  <2>4. \A h, k : Has(q, "add", h) /\ Has(q, "add", k) => h = k
    BY <1>2 DEF Fit
  <2>5. \A u \in Task \ {"err"} : Live(u)' = Live(u) /\ LastHandle(u)' = LastHandle(u)
    BY <2>2, <2>3
  <2>6. /\ Fit(q, LastHandle("err"), err'.n, Live("err")) /\ ~HasOp(q, "wipe")
        /\ Live("err")' \subseteq Live("err") \cup (LastHandle("err") + 1 .. err'.n)
    BY <1>2, <2>2
  <2>7. todo["err"] = <<>> /\ next' = next /\ idx' = idx /\ doc' = doc /\ stray' = stray
    BY <1>1
  <2> QED
    BY <1>2, <2>1, <2>2, <2>3, <2>4, <2>5, <2>6, <2>7, LineKeeps
<1> QED
  BY <1>1, <1>2, <1>3 DEF ConvInv

(* In every state the processors' maps are well-formed and, unless entries *)
(* were moved under an index in use, the indexes two tasks and several     *)
(* maps remember are apart: for stdout and stderr normalisers that share   *)
(* one EntryIndexProvider and interleave at every step.                    *)
THEOREM ConversationInvariant == Spec => []ConvInv
<1>1. Init => ConvInv
  BY ConvInit
<1>2. ConvInv /\ [Next]_vars => ConvInv'
  <2> SUFFICES ASSUME ConvInv, [Next]_vars PROVE ConvInv'
    OBVIOUS
  <2>1. CASE StdoutLine
    BY <2>1, StdoutKeeps
  <2>2. CASE StderrChunk
    BY <2>2, StderrKeeps
  <2>3. ASSUME NEW t \in Task, Step(t) PROVE ConvInv'
    <3>1. UNCHANGED <<agent, st, err>>
      BY <2>3 DEF Step
    <3>2. (moved \/ Apart)'
      BY <2>3, StepKeeps DEF ConvInv
    <3> QED
      BY <3>1, <3>2 DEF ConvInv
  <2>4. CASE UNCHANGED vars
    <3>1. UNCHANGED <<agent, st, err, todo, next, idx, doc, moved, stray>>
      BY <2>4 DEF vars
    <3>2. Apart => Apart'
      <4>1. Shape => Shape'
        BY <3>1 DEF Shape
      <4>2. HandlesBelow => HandlesBelow'
        BY <3>1 DEF HandlesBelow, LastHandle
      <4>3. \A u \in Task : Owned(u)' = Owned(u) /\ \A k : Own(u, k)' <=> Own(u, k)
        BY <3>1 DEF Own, Owned
      <4>4. TodoReady => TodoReady'
        BY <3>1, <4>3 DEF TodoReady
      <4>5. LiveOwned => LiveOwned'
        BY <3>1, <4>3 DEF LiveOwned, Live
      <4>6. ReservedApart => ReservedApart'
        BY <3>1 DEF ReservedApart, Reserved
      <4>7. (BelowNext => BelowNext') /\ (ErrInReplay => ErrInReplay') /\ (WipeAlone => WipeAlone')
        BY <3>1, <4>3 DEF BelowNext, ErrInReplay, WipeAlone, Replaying, LastHandle, Live, Reserved
      <4> QED
        BY <3>1, <4>1, <4>2, <4>4, <4>5, <4>6, <4>7 DEF Apart
    <3> QED
      BY <3>1, <3>2 DEF ConvInv
  <2> QED
    BY <2>1, <2>2, <2>3, <2>4 DEF Next
<1> QED
  BY <1>1, <1>2, PTL DEF Spec

(* OwnEntry: no replace of ConversationPatch hits the entry of another     *)
(* handle or task, nor an index that has no entry, for all seven agents.   *)
THEOREM EntriesAreOwn == Spec => []OwnEntry
<1>1. ConvInv => OwnEntry
  BY DEF ConvInv, Apart, OwnEntry
<1> QED
  BY <1>1, ConversationInvariant, PTL

=============================================================================
