--------------------------- MODULE StartupProofs ----------------------------
(***************************************************************************)
(* Proofs about Startup, for any number of threads, options, environment   *)
(* and calls: all theaps work with one set of keys, thread ids are usable, *)
(* the options are seeded once and before they are read, the callback gets *)
(* no argument older than itself and never runs inside itself.             *)
(***************************************************************************)
EXTENDS Startup, SequenceTheorems, FiniteSetTheorems, TLAPS

(***************************************************************************)
(* The stack of cells a thread is busy with: one cell, or the keys on top  *)
(* of the default heap, which process_init has yet to ask for or whose     *)
(* initializer waits for the keys.                                         *)
(***************************************************************************)
Waiting == {"load", "cas", "spin"}
Stacks ==
  {s \in Seq(Frame) :
     /\ Len(s) <= 2
     /\ \A i \in 1..Len(s) : s[i].at \in Waiting => s[i].i = 1
     /\ Len(s) = 2 =>
          /\ s[1].cell = "keys" /\ s[2].cell = "heap"
          /\ s[2].at = "load" \/ (s[2].at = "init" /\ s[2].i = 2)}

\* A stack with an initializer of c at work, and one that asks for c at all.
WorksIn(s, c) == \E i \in 1..Len(s) : s[i].cell = c /\ s[i].at \in {"init", "publish"}
Asks(s, c) == \E i \in 1..Len(s) : s[i].cell = c

LEMMA Pair ==
  ASSUME NEW S, NEW a \in S, NEW b \in S
  PROVE  /\ <<a>> \in Seq(S) /\ <<a, b>> \in Seq(S)
         /\ <<a>> \o <<b>> = <<a, b>> /\ <<a, b>> \o <<>> = <<a, b>>
<1>1. <<a>> \in Seq(S) /\ <<b>> \in Seq(S) /\ Len(<<a>>) = 1 /\ Len(<<b>>) = 1
      /\ <<a>>[1] = a /\ <<b>>[1] = b
  OBVIOUS
<1>2. <<a, b>> \in Seq(S) /\ Len(<<a, b>>) = 2 /\ <<a, b>>[1] = a /\ <<a, b>>[2] = b
  OBVIOUS
<1>3. /\ <<a>> \o <<b>> \in Seq(S) /\ Len(<<a>> \o <<b>>) = 2
      /\ (<<a>> \o <<b>>)[1] = a /\ (<<a>> \o <<b>>)[2] = b
  BY <1>1, ConcatProperties
<1>4. <<a>> \o <<b>> = <<a, b>>
  <2> DEFINE x == <<a>> \o <<b>>
             y == <<a, b>>
  <2>1. x \in Seq(S) /\ y \in Seq(S) /\ Len(x) = 2 /\ Len(y) = 2
        /\ x[1] = y[1] /\ x[2] = y[2]
    BY <1>2, <1>3
  <2> HIDE DEF x, y
  <2>2. \A i \in 1..Len(x) : x[i] = y[i]
    BY <2>1
  <2>3. x = y
    BY <2>1, <2>2, SeqEqual
  <2> QED BY <2>3 DEF x, y
<1> QED BY <1>1, <1>2, <1>4, ConcatEmptySeq

LEMMA StackLength ==
  ASSUME NEW s \in Stacks
  PROVE  /\ s \in Seq(Frame) /\ Len(s) \in 0..2
         /\ s = <<>> <=> Len(s) = 0
         /\ s # <<>> => Len(s) = 1 \/ Len(s) = 2
<1>1. s \in Seq(Frame) /\ Len(s) \in Nat /\ Len(s) <= 2
  BY DEF Stacks
<1>2. s # <<>> => Len(s) \in Nat \ {0}
  BY <1>1, EmptySeq
<1>3. s = <<>> => Len(s) = 0
  OBVIOUS
<1>4. PICK n : n = Len(s)
  OBVIOUS
<1>5. n \in 0..2 /\ (n # 0 => n = 1 \/ n = 2)
  BY <1>1, <1>4
<1> QED BY <1>1, <1>2, <1>3, <1>4, <1>5, Zenon

LEMMA TopOf ==
  ASSUME NEW s \in Stacks, s # <<>>
  PROVE  /\ Len(s) \in {1, 2} /\ Head(s) = s[1] /\ s[1] \in Frame
         /\ Len(s) = 2 => s[2] \in Frame
         /\ Tail(s) \in Seq(Frame) /\ Len(Tail(s)) = Len(s) - 1
         /\ Len(s) = 2 => Tail(s)[1] = s[2]
         /\ Asks(s, s[1].cell)
         /\ WorksIn(s, s[1].cell) <=> s[1].at \in {"init", "publish"}
<1>1. s \in Seq(Frame) /\ Len(s) \in Nat /\ Len(s) <= 2
  BY DEF Stacks
<1>2. Len(s) \in Nat \ {0}
  BY <1>1, EmptySeq
<1>3. Len(s) = 1 \/ Len(s) = 2
  BY StackLength
<1>4. Len(s) = 2 => s[1].cell # s[2].cell
  BY DEF Stacks
<1>5. \A i \in 1..Len(s) : s[i].cell = s[1].cell => i = 1
  BY <1>3, <1>4
<1> QED BY <1>1, <1>2, <1>3, <1>5 DEF Asks, WorksIn

\* The frame on top goes on to another place.
LEMMA Moved ==
  ASSUME NEW s \in Stacks, s # <<>>, NEW g \in Frame, g.cell = s[1].cell,
         g.at \in Waiting => g.i = 1
  PROVE  /\ [s EXCEPT ![1] = g] \in Stacks /\ [s EXCEPT ![1] = g] # <<>>
         /\ [s EXCEPT ![1] = g][1] = g /\ Len([s EXCEPT ![1] = g]) = Len(s)
         /\ \A c : Asks([s EXCEPT ![1] = g], c) <=> Asks(s, c)
         /\ \A c : WorksIn([s EXCEPT ![1] = g], c) <=>
              IF c = s[1].cell THEN g.at \in {"init", "publish"} ELSE WorksIn(s, c)
<1> DEFINE r == [s EXCEPT ![1] = g]
<1>1. s \in Seq(Frame) /\ Len(s) \in {1, 2}
  BY TopOf DEF Stacks
<1>2. /\ r \in Seq(Frame) /\ Len(r) = Len(s) /\ r[1] = g
      /\ \A i \in 2..Len(s) : r[i] = s[i]
  BY <1>1
<1> HIDE DEF r
<1>3. r \in Stacks /\ r # <<>>
  BY <1>1, <1>2 DEF Stacks
<1>4. \A c : Asks(r, c) <=> Asks(s, c)
  BY <1>1, <1>2 DEF Asks
<1>5. Len(s) = 2 => s[1].cell # s[2].cell
  BY DEF Stacks
<1>6. ASSUME NEW c
      PROVE  WorksIn(r, c) <=> IF c = s[1].cell THEN g.at \in {"init", "publish"}
                               ELSE WorksIn(s, c)
  <2>1. CASE c = s[1].cell
    BY <1>2, <1>3, <2>1, TopOf
  <2>2. CASE c # s[1].cell
    BY <1>1, <1>2, <2>2 DEF WorksIn
  <2> QED BY <2>1, <2>2
<1> QED BY <1>2, <1>3, <1>4, <1>6 DEF r

\* get_or_init returns to the initializer that asked, if any.
LEMMA Popped ==
  ASSUME NEW s \in Stacks, s # <<>>
  PROVE  /\ Tail(s) \in Stacks
         /\ Tail(s) # <<>> =>
              /\ s[1].cell = "keys" /\ Tail(s)[1].cell = "heap"
              /\ Tail(s)[1].at = "load" \/ (Tail(s)[1].at = "init" /\ Tail(s)[1].i = 2)
         /\ \A c : Asks(Tail(s), c) <=> c # s[1].cell /\ Asks(s, c)
         /\ \A c : WorksIn(Tail(s), c) <=> c # s[1].cell /\ WorksIn(s, c)
<1> DEFINE r == Tail(s)
<1>1. /\ s \in Seq(Frame) /\ Len(s) \in {1, 2} /\ r \in Seq(Frame) /\ Len(r) = Len(s) - 1
      /\ Len(s) = 2 => r[1] = s[2]
  BY TopOf DEF Stacks
<1> HIDE DEF r
<1>2. Len(s) = 2 => s[1].cell # s[2].cell
  BY DEF Stacks
<1>3. r \in Stacks
  BY <1>1 DEF Stacks
<1>4. r # <<>> => /\ s[1].cell = "keys" /\ r[1].cell = "heap"
                  /\ r[1].at = "load" \/ (r[1].at = "init" /\ r[1].i = 2)
  BY <1>1 DEF Stacks
<1>5. CASE Len(s) = 1
  <2>1. \A c : ~Asks(r, c) /\ ~WorksIn(r, c)
    BY <1>1, <1>5 DEF Asks, WorksIn
  <2>2. \A c : (Asks(s, c) \/ WorksIn(s, c)) => c = s[1].cell
    BY <1>1, <1>5 DEF Asks, WorksIn
  <2> QED BY <1>3, <1>4, <2>1, <2>2 DEF r
<1>6. CASE Len(s) = 2
  <2>1. \A c : Asks(r, c) <=> c = s[2].cell
    BY <1>1, <1>6 DEF Asks
  <2>2. \A c : WorksIn(r, c) <=> c = s[2].cell /\ s[2].at \in {"init", "publish"}
    BY <1>1, <1>6 DEF WorksIn
  <2>3. \A c : Asks(s, c) <=> c = s[1].cell \/ c = s[2].cell
    BY <1>1, <1>6 DEF Asks
  <2>4. \A c : c # s[1].cell => (WorksIn(s, c) <=> c = s[2].cell /\ s[2].at \in {"init", "publish"})
    BY <1>1, <1>6 DEF WorksIn
  <2> QED BY <1>2, <1>3, <1>4, <1>6, <2>1, <2>2, <2>3, <2>4 DEF r
<1> QED BY <1>1, <1>5, <1>6

\* The initializer of the default heap asks for the keys.
LEMMA AsksKeys ==
  ASSUME NEW s \in Stacks, s # <<>>, s[1].cell = "heap", s[1].at = "init"
  PROVE  LET r == Ask("keys") \o <<[Head(s) EXCEPT !.i = 2]>> \o Tail(s) IN
         /\ r \in Stacks /\ r # <<>> /\ r[1].cell = "keys" /\ r[1].at = "load"
         /\ \A c : Asks(r, c) <=> c = "keys" \/ Asks(s, c)
         /\ \A c : WorksIn(r, c) <=> WorksIn(s, c)
<1> DEFINE k == [cell |-> "keys", at |-> "load", i |-> 1]
           h == [s[1] EXCEPT !.i = 2]
           r == <<k, h>>
<1>1. /\ s \in Seq(Frame) /\ Len(s) \in {1, 2} /\ Head(s) = s[1] /\ s[1] \in Frame
      /\ Tail(s) \in Seq(Frame) /\ Len(Tail(s)) = Len(s) - 1
  BY TopOf DEF Stacks
<1>2. Len(s) = 1
  BY <1>1 DEF Stacks
<1>3. Tail(s) = <<>>
  BY <1>1, <1>2, Popped, StackLength
<1>4. k \in Frame /\ h \in Frame
  BY <1>1, StartupAssumption DEF Frame, Cells
<1>5. h.cell = "heap" /\ h.at = "init" /\ h.i = 2
  BY <1>1 DEF Frame
<1>6. k.cell = "keys" /\ k.at = "load" /\ k.i = 1
  OBVIOUS
<1>7. Ask("keys") \o <<[Head(s) EXCEPT !.i = 2]>> \o Tail(s) = r
  <2>1. Ask("keys") = <<k>> /\ [Head(s) EXCEPT !.i = 2] = h
    BY <1>1 DEF Ask
  <2> HIDE DEF k, h
  <2> QED BY <1>3, <1>4, <2>1, Pair
<1> HIDE DEF k, h
<1>8. r \in Seq(Frame) /\ Len(r) = 2 /\ r[1] = k /\ r[2] = h
  BY <1>4
<1> HIDE DEF r
<1>9. r \in Stacks /\ r # <<>>
  <2>1. \A i \in 1..Len(r) : r[i].at \in Waiting => r[i].i = 1
    BY <1>5, <1>6, <1>8 DEF Waiting
  <2>2. r \in Stacks
    BY <1>5, <1>6, <1>8, <2>1 DEF Stacks
  <2> QED BY <1>8, <2>2, StackLength
<1>10. \A c : Asks(r, c) <=> c = "keys" \/ Asks(s, c)
  BY <1>1, <1>2, <1>5, <1>6, <1>8 DEF Asks
<1>11. \A c : WorksIn(r, c) <=> WorksIn(s, c)
  BY <1>1, <1>2, <1>5, <1>6, <1>8 DEF WorksIn
<1> QED BY <1>6, <1>7, <1>8, <1>9, <1>10, <1>11

\* The stacks a call begins with.
LEMMA Asking ==
  /\ <<>> \in Stacks /\ \A c : ~Asks(<<>>, c) /\ ~WorksIn(<<>>, c)
  /\ \A c \in Cells :
       /\ Ask(c) \in Stacks /\ Ask(c) # <<>> /\ Ask(c)[1].at = "load"
       /\ Asks(Ask(c), c) /\ \A d : ~WorksIn(Ask(c), d)
  /\ LET s == Ask("keys") \o Ask("heap") IN
     /\ s \in Stacks /\ s # <<>> /\ s[1].at = "load"
     /\ Asks(s, "heap") /\ \A d : ~WorksIn(s, d)
<1>1. <<>> \in Stacks /\ \A c : ~Asks(<<>>, c) /\ ~WorksIn(<<>>, c)
  BY DEF Stacks, Asks, WorksIn
<1>2. ASSUME NEW c \in Cells
      PROVE  /\ Ask(c) \in Stacks /\ Ask(c) # <<>> /\ Ask(c)[1].at = "load"
             /\ Asks(Ask(c), c) /\ \A d : ~WorksIn(Ask(c), d)
  <2> DEFINE k == [cell |-> c, at |-> "load", i |-> 1]
             s == <<k>>
  <2>1. k \in Frame /\ k.cell = c /\ k.at = "load" /\ k.i = 1
    BY StartupAssumption DEF Frame
  <2> HIDE DEF k
  <2>2. s \in Seq(Frame) /\ Len(s) = 1 /\ s[1] = k
    BY <2>1
  <2>3. Ask(c) = s
    BY DEF Ask, k
  <2> HIDE DEF s
  <2>4. \A i \in 1..Len(s) : s[i].at \in Waiting => s[i].i = 1
    BY <2>1, <2>2
  <2>7. Len(s) <= 2 /\ Len(s) # 2
    BY <2>2
  <2>0. s \in Stacks
    BY <2>2, <2>4, <2>7, Zenon DEF Stacks
  <2>5. s \in Stacks /\ s # <<>>
    BY <2>0, <2>2, StackLength
  <2>6. Asks(s, c) /\ \A d : ~WorksIn(s, d)
    BY <2>1, <2>2 DEF Asks, WorksIn
  <2> QED BY <2>1, <2>2, <2>3, <2>5, <2>6
<1>3. LET s == Ask("keys") \o Ask("heap") IN
      /\ s \in Stacks /\ s # <<>> /\ s[1].at = "load"
      /\ Asks(s, "heap") /\ \A d : ~WorksIn(s, d)
  <2> DEFINE k == [cell |-> "keys", at |-> "load", i |-> 1]
             h == [cell |-> "heap", at |-> "load", i |-> 1]
             s == <<k, h>>
  <2>1. /\ k \in Frame /\ k.cell = "keys" /\ k.at = "load" /\ k.i = 1
        /\ h \in Frame /\ h.cell = "heap" /\ h.at = "load" /\ h.i = 1
    BY StartupAssumption DEF Frame, Cells
  <2>2. Ask("keys") = <<k>> /\ Ask("heap") = <<h>>
    BY DEF Ask
  <2> HIDE DEF k, h
  <2>0. Ask("keys") \o Ask("heap") = s
    BY <2>1, <2>2, Pair
  <2>3. s \in Seq(Frame) /\ Len(s) = 2 /\ s[1] = k /\ s[2] = h
    BY <2>1
  <2> HIDE DEF s
  <2>6. \A i \in 1..Len(s) : s[i].at \in Waiting => s[i].i = 1
    BY <2>1, <2>3
  <2>8. Len(s) <= 2 /\ Len(s) # 0
    BY <2>3
  <2>7. s \in Stacks
    BY <2>1, <2>3, <2>6, <2>8, Zenon DEF Stacks
  <2>4. s \in Stacks /\ s # <<>>
    BY <2>7, <2>8, StackLength, Zenon
  <2>5. Asks(s, "heap") /\ \A d : ~WorksIn(s, d)
    BY <2>1, <2>3 DEF Asks, WorksIn
  <2> QED BY <2>0, <2>1, <2>3, <2>4, <2>5
<1> QED BY <1>1, <1>2, <1>3

-----------------------------------------------------------------------------
(***************************************************************************)
(* The inductive invariant of the once cells and what they hold.           *)
(***************************************************************************)
Seeds == NewValues \cup {EnvValue(o) : o \in Opts}
Works(t, c) == WorksIn(frames[t], c)

Typed ==
  /\ state \in [Cells -> {"uninit", "initializing", "ready"}]
  /\ keys \in KeyValues \cup {None} /\ heapKeys \in KeyValues \cup {None}
  /\ values \in [Opts -> Int]
  /\ theap \in [Threads -> KeyValues \cup {None}]
  /\ call \in [Threads -> Call] /\ frames \in [Threads -> Stacks]
  /\ last \in [Opts -> NewValues \cup {None}]
  /\ seen \in [Threads -> Seeds \cup {None}]

\* The cell of an initializer at work is claimed, by nobody else.
OneInitializer ==
  \A t \in Threads, c \in Cells : Works(t, c) =>
    state[c] = "initializing" /\ \A u \in Threads : Works(u, c) => u = t

\* What an initializer has done so far.
Done(f) ==
  /\ f.cell = "keys" /\ f.at = "publish" => keys # None
  /\ f.cell = "heap" /\ f.at = "init" /\ f.i = 2 => state["keys"] = "ready"
  /\ f.cell = "heap" /\ f.at = "publish" => state["keys"] = "ready" /\ heapKeys = keys
  /\ f.cell = "opts" /\ f.at \in {"init", "publish"} =>
       \A o \in 1..(f.i - 1) : values[o] \in Seeds
  /\ f.cell = "opts" /\ f.at = "publish" => f.i = NOpts + 1
Progress == \A t \in Threads : frames[t] # <<>> => Done(frames[t][1])

\* What a published cell holds, and who has used it.
Published ==
  /\ state["keys"] = "ready" => keys # None
  /\ state["heap"] = "ready" => state["keys"] = "ready" /\ heapKeys = keys
  /\ state["opts"] = "ready" => \A o \in Opts : values[o] \in Seeds
  /\ \A o \in Opts : last[o] # None => state["opts"] = "ready" /\ values[o] = last[o]
  /\ \A t \in Threads : theap[t] # None => state["keys"] = "ready" /\ theap[t] = keys

\* A call proceeds when the cell it is about is published.
Needs(k, c) == \/ k = "theap" /\ c = "heap"
               \/ k \in {"get", "set"} /\ c = "opts"
CallsWait ==
  \A t \in Threads :
    /\ call[t].kind \in {"none", "register"} => frames[t] = <<>>
    /\ \A c \in Cells : Needs(call[t].kind, c) => state[c] = "ready" \/ Asks(frames[t], c)
    /\ call[t].kind \in {"get", "set"} => call[t].opt \in Opts
    /\ call[t].kind = "set" => call[t].val \in NewValues

CellInv == Typed /\ OneInitializer /\ Progress /\ Published /\ CallsWait

\* Thread numbers below `next` are taken, each by one thread.
IdsInv ==
  /\ next \in Nat /\ next >= 2 /\ tid \in [Threads -> Nat]
  /\ \A t \in Threads : tid[t] # 0 =>
       /\ \E n \in 2..(next - 1) : tid[t] = n * 4
       /\ \A u \in Threads : tid[u] = tid[t] => u = t

(***************************************************************************)
(* The inductive invariant of the deferred-free callback.  A second run of *)
(* run_deferred_free is nested in the callback of the first, and does not  *)
(* get past the flag.                                                      *)
(***************************************************************************)
RunStacks ==
  {s \in Seq(Running) :
     /\ Len(s) <= 2
     /\ Len(s) = 2 => s[1].at \in {"load", "claim"} /\ s[2].at = "callback"}

Guards(s) == Len(s) = 2 \/ (Len(s) = 1 /\ s[1].at \in {"arg", "callback"})
Ticking(s) == Len(s) = 1 /\ s[1].at = "arg"
Fresh(r) == /\ r.at # "load" => r.fn \in 1..regs
            /\ r.at = "callback" => r.arg >= r.fn

RunInv ==
  /\ runs \in [Threads -> RunStacks] /\ recurse \in [Threads -> BOOLEAN]
  /\ beat \in [Threads -> Nat] /\ begun \in [Threads -> Nat]
  /\ regs \in Nat /\ arg = regs /\ fn \in 0..regs
  /\ call \in [Threads -> Call]
  /\ \A t \in Threads :
       /\ recurse[t] <=> Guards(runs[t])
       /\ beat[t] = begun[t] + (IF Ticking(runs[t]) THEN 1 ELSE 0)
       /\ \A i \in 1..Len(runs[t]) : Fresh(runs[t][i])
       /\ call[t].kind = "register" => call[t].opt \in {0, 1} /\ call[t].val \in 1..regs

-----------------------------------------------------------------------------
(***************************************************************************)
(* The cells, action by action.                                            *)
(***************************************************************************)
LEMMA EnvSeeds == \A o \in Opts : EnvValue(o) \in Int /\ EnvValue(o) \in Seeds
<1>1. \A o \in Opts : EnvValue(o) \in Int
  BY StartupAssumption DEF EnvValue, EnvKinds
<1> QED BY <1>1 DEF Seeds

LEMMA CellInit == Init => CellInv
<1> SUFFICES ASSUME Init PROVE CellInv
  OBVIOUS
<1> USE DEF Init
<1>1. NoCall \in Call /\ NoCall.kind = "none"
  BY DEF NoCall, Call
<1>2. \A t \in Threads : frames[t] = <<>> /\ call[t] = NoCall
  OBVIOUS
<1>3. Typed
  <2>1. state \in [Cells -> {"uninit", "initializing", "ready"}]
    OBVIOUS
  <2>2. call \in [Threads -> Call] /\ frames \in [Threads -> Stacks]
    BY <1>1, Asking
  <2>3. values \in [Opts -> Int]
    OBVIOUS
  <2> QED BY <2>1, <2>2, <2>3 DEF Typed
<1>4. OneInitializer
  BY <1>2, Asking DEF OneInitializer, Works
<1>5. Progress
  BY <1>2 DEF Progress
<1>6. Published
  BY DEF Published, Cells
<1>7. CallsWait
  BY <1>1, <1>2 DEF CallsWait, Needs
<1> QED BY <1>3, <1>4, <1>5, <1>6, <1>7 DEF CellInv

\* Steps outside the once cells: a call begins with no cell to ask for, or it
\* ends.
LEMMA QuietCells ==
  ASSUME CellInv, UNCHANGED <<state, keys, heapKeys, values, theap, frames, last>>,
         call' \in [Threads -> Call], seen' \in [Threads -> Seeds \cup {None}],
         \A t \in Threads : \/ call'[t] = call[t]
                            \/ frames[t] = <<>> /\ call'[t].kind \in {"none", "register"}
  PROVE  CellInv'
<1> USE DEF CellInv
<1>1. Typed'
  BY DEF Typed
<1>2. OneInitializer'
  BY DEF OneInitializer, Works
<1>3. Progress'
  BY DEF Progress, Done
<1>4. Published'
  BY DEF Published
<1>5. CallsWait'
  BY DEF CallsWait, Needs
<1> QED BY <1>1, <1>2, <1>3, <1>4, <1>5

\* Steps of one thread on its way to a cell.
LEMMA FramesMove ==
  ASSUME CellInv, NEW t \in Threads, frames[t] # <<>>,
         UNCHANGED <<state, keys, heapKeys, values, theap, call, last, seen>>,
         frames' \in [Threads -> Stacks],
         \A u \in Threads : u # t => frames'[u] = frames[u],
         \A c \in Cells : WorksIn(frames'[t], c) <=> Works(t, c),
         \A c \in Cells : Asks(frames[t], c) => Asks(frames'[t], c) \/ state[c] = "ready",
         frames'[t] # <<>> => Done(frames'[t][1])
  PROVE  CellInv'
<1> USE DEF CellInv
<1>1. Typed'
  BY DEF Typed
<1>2. \A u \in Threads, c \in Cells : WorksIn(frames'[u], c) <=> WorksIn(frames[u], c)
  BY DEF Works
<1>3. OneInitializer'
  BY <1>2 DEF OneInitializer, Works
<1>4. ASSUME NEW u \in Threads, frames'[u] # <<>> PROVE Done(frames[u][1])'
  <2>1. Done(frames'[u][1])
    <3>1. CASE u = t
      BY <1>4, <3>1
    <3>2. CASE u # t
      BY <1>4, <3>2 DEF Progress
    <3> QED BY <3>1, <3>2
  <2> QED BY <2>1 DEF Done
<1>5. Published'
  BY DEF Published
<1>6. ASSUME NEW u \in Threads
      PROVE  /\ call'[u].kind \in {"none", "register"} => frames'[u] = <<>>
             /\ \A c \in Cells : Needs(call'[u].kind, c) =>
                  state'[c] = "ready" \/ Asks(frames'[u], c)
             /\ call'[u].kind \in {"get", "set"} => call'[u].opt \in Opts
             /\ call'[u].kind = "set" => call'[u].val \in NewValues
  <2>1. CASE u = t
    BY <2>1 DEF CallsWait
  <2>2. CASE u # t
    BY <2>2 DEF CallsWait
  <2> QED BY <2>1, <2>2
<1> QED BY <1>1, <1>3, <1>4, <1>5, <1>6 DEF Progress, CallsWait

LEMMA MovesTo ==
  ASSUME Typed, NEW t \in Threads, NEW w \in {"cas", "spin", "init", "publish"},
         frames[t] # <<>>, w \in {"cas", "spin"} => frames[t][1].at \in Waiting, MoveTo(t, w)
  PROVE  LET f == frames[t][1] IN
         /\ f \in Frame
         /\ frames' \in [Threads -> Stacks]
         /\ \A u \in Threads : u # t => frames'[u] = frames[u]
         /\ frames'[t] # <<>>
         /\ frames'[t][1] \in Frame /\ frames'[t][1].cell = f.cell
         /\ frames'[t][1].at = w /\ frames'[t][1].i = f.i
         /\ \A c : Asks(frames'[t], c) <=> Asks(frames[t], c)
         /\ \A c : WorksIn(frames'[t], c) <=>
              IF c = f.cell THEN w \in {"init", "publish"} ELSE WorksIn(frames[t], c)
<1> DEFINE s == frames[t]
           f == s[1]
           g == [f EXCEPT !.at = w]
<1>1. s \in Stacks /\ f \in Frame
  BY TopOf DEF Typed
<1>2. /\ g \in Frame /\ g.cell = f.cell /\ g.at = w /\ g.i = f.i
  BY <1>1 DEF Frame
<1>3. g.at \in Waiting => g.i = 1
  BY <1>1, <1>2, StackLength DEF Stacks, Waiting
<1>4. frames' = [frames EXCEPT ![t] = [s EXCEPT ![1] = g]]
  BY DEF MoveTo
<1>5. frames'[t] = [s EXCEPT ![1] = g] /\ \A u \in Threads : u # t => frames'[u] = frames[u]
  BY <1>4 DEF Typed
<1>6. /\ frames'[t] \in Stacks /\ frames'[t] # <<>> /\ frames'[t][1] = g
      /\ \A c : Asks(frames'[t], c) <=> Asks(s, c)
      /\ \A c : WorksIn(frames'[t], c) <=>
           IF c = f.cell THEN g.at \in {"init", "publish"} ELSE WorksIn(s, c)
  <2> HIDE DEF g
  <2>1. s # <<>> /\ g.cell = s[1].cell
    BY <1>2
  <2> HIDE DEF s
  <2> DEFINE r == [s EXCEPT ![1] = g]
  <2>2. /\ r \in Stacks /\ r # <<>> /\ r[1] = g
        /\ \A c : Asks(r, c) <=> Asks(s, c)
        /\ \A c : WorksIn(r, c) <=>
             IF c = s[1].cell THEN g.at \in {"init", "publish"} ELSE WorksIn(s, c)
    BY <1>1, <1>2, <1>3, <2>1, Moved
  <2> HIDE DEF r
  <2>3. frames'[t] = r
    BY <1>5 DEF r
  <2> QED BY <2>2, <2>3, Zenon
<1>7. frames' \in [Threads -> Stacks]
  <2>1. [s EXCEPT ![1] = g] \in Stacks
    BY <1>5, <1>6
  <2> HIDE DEF s, g
  <2> QED BY <1>4, <2>1 DEF Typed
<1> HIDE DEF g
<1> QED BY <1>1, <1>2, <1>5, <1>6, <1>7

LEMMA Pops ==
  ASSUME Typed, NEW t \in Threads, frames[t] # <<>>, Pop(t)
  PROVE  LET f == frames[t][1] IN
         /\ f \in Frame
         /\ frames' \in [Threads -> Stacks]
         /\ \A u \in Threads : u # t => frames'[u] = frames[u]
         /\ frames'[t] # <<>> =>
              /\ f.cell = "keys" /\ frames'[t][1].cell = "heap"
              /\ \/ frames'[t][1].at = "load"
                 \/ frames'[t][1].at = "init" /\ frames'[t][1].i = 2
         /\ \A c : Asks(frames'[t], c) <=> c # f.cell /\ Asks(frames[t], c)
         /\ \A c : WorksIn(frames'[t], c) <=> c # f.cell /\ WorksIn(frames[t], c)
<1>1. frames[t] \in Stacks /\ frames[t][1] \in Frame
  BY TopOf DEF Typed
<1>2. frames'[t] = Tail(frames[t]) /\ \A u \in Threads : u # t => frames'[u] = frames[u]
  BY DEF Pop, Typed
<1>3. frames' \in [Threads -> Stacks]
  <2>1. Tail(frames[t]) \in Stacks
    BY <1>1, Popped
  <2> QED BY <2>1 DEF Pop, Typed
<1> QED BY <1>1, <1>2, <1>3, Popped

\* The frame on top of a stack, and what its position says.
LEMMA TopFacts ==
  ASSUME CellInv, NEW t \in Threads, NEW w, At(t, w)
  PROVE  /\ frames[t] # <<>> /\ frames[t][1] \in Frame
         /\ Cell(t) = frames[t][1].cell /\ Cell(t) \in Cells
         /\ Head(frames[t]) = frames[t][1] /\ frames[t][1].at = w
         /\ Done(frames[t][1])
         /\ Works(t, Cell(t)) <=> w \in {"init", "publish"}
         /\ call[t].kind \notin {"none", "register"}
<1>1. frames[t] \in Stacks /\ frames[t] # <<>>
  BY DEF CellInv, Typed, At
<1>2. /\ Head(frames[t]) = frames[t][1] /\ frames[t][1] \in Frame
      /\ WorksIn(frames[t], frames[t][1].cell) <=> frames[t][1].at \in {"init", "publish"}
  BY <1>1, TopOf
<1>3. frames[t][1].cell \in Cells
  BY <1>2 DEF Frame
<1> QED BY <1>1, <1>2, <1>3 DEF At, Cell, Works, CellInv, Progress, CallsWait

\* Leaving a published cell.
LEMMA PopsReady ==
  ASSUME CellInv, NEW t \in Threads, NEW w \in Waiting, At(t, w), state[Cell(t)] = "ready",
         Pop(t), UNCHANGED <<state, keys, heapKeys, values, theap, call, last, seen>>
  PROVE  CellInv'
<1>1. /\ frames[t] # <<>> /\ Cell(t) = frames[t][1].cell
      /\ Works(t, Cell(t)) <=> w \in {"init", "publish"}
  BY TopFacts
<1>2. ~Works(t, Cell(t))
  BY <1>1 DEF Waiting
<1>3. /\ frames' \in [Threads -> Stacks]
      /\ \A u \in Threads : u # t => frames'[u] = frames[u]
      /\ frames'[t] # <<>> =>
           /\ Cell(t) = "keys" /\ frames'[t][1].cell = "heap"
           /\ \/ frames'[t][1].at = "load"
              \/ frames'[t][1].at = "init" /\ frames'[t][1].i = 2
      /\ \A c : Asks(frames'[t], c) <=> c # Cell(t) /\ Asks(frames[t], c)
      /\ \A c : WorksIn(frames'[t], c) <=> c # Cell(t) /\ WorksIn(frames[t], c)
  BY <1>1, Pops DEF CellInv
<1>4. frames'[t] # <<>> => Done(frames'[t][1])
  BY <1>3 DEF Done
<1>5. \A c \in Cells : WorksIn(frames'[t], c) <=> Works(t, c)
  BY <1>2, <1>3 DEF Works
<1>6. \A c \in Cells : Asks(frames[t], c) => Asks(frames'[t], c) \/ state[c] = "ready"
  BY <1>3
<1> QED BY <1>1, <1>3, <1>4, <1>5, <1>6, FramesMove

\* Going on to wait for a cell.
LEMMA MovesOn ==
  ASSUME CellInv, NEW t \in Threads, NEW v \in Waiting, NEW w \in {"cas", "spin"}, At(t, v),
         MoveTo(t, w), UNCHANGED <<state, keys, heapKeys, values, theap, call, last, seen>>
  PROVE  CellInv'
<1>1. /\ frames[t] # <<>> /\ frames[t][1].at = v
      /\ Works(t, frames[t][1].cell) <=> v \in {"init", "publish"}
  BY TopFacts
<1>2. ~Works(t, frames[t][1].cell)
  BY <1>1 DEF Waiting
<1>3. /\ frames' \in [Threads -> Stacks]
      /\ \A u \in Threads : u # t => frames'[u] = frames[u]
      /\ frames'[t] # <<>> /\ frames'[t][1].at = w
      /\ \A c : Asks(frames'[t], c) <=> Asks(frames[t], c)
      /\ \A c : WorksIn(frames'[t], c) <=>
           IF c = frames[t][1].cell THEN w \in {"init", "publish"} ELSE WorksIn(frames[t], c)
  BY <1>1, MovesTo DEF CellInv
<1>4. Done(frames'[t][1])
  BY <1>3 DEF Done
<1>5. \A c \in Cells : WorksIn(frames'[t], c) <=> Works(t, c)
  BY <1>2, <1>3 DEF Works
<1> QED BY <1>1, <1>3, <1>4, <1>5, FramesMove

LEMMA LoadStep == ASSUME CellInv, NEW t \in Threads, Load(t) PROVE CellInv'
<1>1. /\ At(t, "load") /\ "load" \in Waiting
      /\ UNCHANGED <<state, keys, heapKeys, values, theap, call, last, seen>>
  BY DEF Load, cells, ids, Waiting
<1>2. CASE state[Cell(t)] = "ready"
  BY <1>1, <1>2, PopsReady DEF Load
<1>3. CASE state[Cell(t)] # "ready"
  BY <1>1, <1>3, MovesOn DEF Load
<1> QED BY <1>2, <1>3

LEMMA SpinStep == ASSUME CellInv, NEW t \in Threads, Spin(t) PROVE CellInv'
<1>1. /\ At(t, "spin") /\ "spin" \in Waiting /\ state[Cell(t)] = "ready" /\ Pop(t)
      /\ UNCHANGED <<state, keys, heapKeys, values, theap, call, last, seen>>
  BY DEF Spin, cells, ids, Waiting
<1> QED BY <1>1, PopsReady

\* One thread wins the cell: nobody else is its initializer.
LEMMA CasStep == ASSUME CellInv, NEW t \in Threads, Cas(t) PROVE CellInv'
<1>1. /\ At(t, "cas") /\ "cas" \in Waiting
      /\ UNCHANGED <<keys, heapKeys, values, theap, call, last, seen>>
  BY DEF Cas, ids, Waiting
<1>2. CASE state[Cell(t)] # "uninit"
  BY <1>1, <1>2, MovesOn DEF Cas
<1>3. CASE state[Cell(t)] = "uninit"
  <2> USE DEF CellInv
  <2>1. PICK c \in Cells : c = Cell(t)
    BY <1>1, TopFacts
  <2>2. /\ state[c] = "uninit" /\ state' = [state EXCEPT ![c] = "initializing"]
        /\ MoveTo(t, "init")
    BY <1>3, <2>1 DEF Cas
  <2>3. /\ frames[t] # <<>> /\ c = frames[t][1].cell /\ frames[t][1].at = "cas"
        /\ frames[t][1] \in Frame /\ frames[t] \in Stacks
        /\ call[t].kind \notin {"none", "register"}
    BY <1>1, <2>1, TopFacts DEF Typed
  <2>4. /\ frames' \in [Threads -> Stacks]
        /\ \A u \in Threads : u # t => frames'[u] = frames[u]
        /\ frames'[t] # <<>> /\ frames'[t][1].cell = c
        /\ frames'[t][1].at = "init" /\ frames'[t][1].i = frames[t][1].i
        /\ \A d : Asks(frames'[t], d) <=> Asks(frames[t], d)
        /\ \A d : WorksIn(frames'[t], d) <=>
             IF d = c THEN TRUE ELSE WorksIn(frames[t], d)
    BY <2>2, <2>3, MovesTo
  <2>5. frames[t][1].i = 1
    BY <1>1, <2>3, StackLength DEF Stacks
  <2>6. state'[c] = "initializing" /\ \A d \in Cells : d # c => state'[d] = state[d]
    BY <2>2 DEF Typed
  <2>7. Typed'
    BY <1>1, <2>2, <2>4 DEF Typed
  <2>8. \A u \in Threads : ~Works(u, c)
    BY <2>2 DEF OneInitializer
  <2>9. OneInitializer'
    <3>1. \A u \in Threads, d \in Cells :
            WorksIn(frames'[u], d) <=> Works(u, d) \/ (u = t /\ d = c)
      BY <2>4 DEF Works
    <3> QED BY <2>6, <2>8, <3>1 DEF OneInitializer, Works
  <2>10. ASSUME NEW u \in Threads, frames'[u] # <<>> PROVE Done(frames[u][1])'
    <3>1. CASE u = t
      BY <2>4, <2>5, <3>1 DEF Done
    <3>2. CASE u # t
      <4>1. Done(frames[u][1]) /\ frames'[u] = frames[u]
        BY <1>1, <1>3, <2>4, <3>2, <2>10 DEF Progress
      <4>2. state["keys"] = "ready" => state'["keys"] = "ready"
        BY <2>2, <2>6 DEF Cells
      <4> QED BY <1>1, <4>1, <4>2 DEF Done
    <3> QED BY <3>1, <3>2
  <2>11. Published'
    <3>1. \A d \in Cells : state'[d] = "ready" <=> state[d] = "ready"
      BY <2>2, <2>6
    <3> QED BY <1>1, <3>1 DEF Published, Cells
  <2>12. CallsWait'
    <3>1. \A u \in Threads : \A d : Asks(frames'[u], d) <=> Asks(frames[u], d)
      BY <2>4
    <3>2. \A d \in Cells : state[d] = "ready" => state'[d] = "ready"
      BY <2>2, <2>6
    <3>3. \A u \in Threads : call[u].kind \in {"none", "register"} => frames'[u] = <<>>
      BY <2>3, <2>4 DEF CallsWait
    <3> QED BY <1>1, <3>1, <3>2, <3>3 DEF CallsWait
  <2> QED BY <2>7, <2>9, <2>10, <2>11, <2>12 DEF Progress
<1> QED BY <1>2, <1>3

LEMMA PublishStep == ASSUME CellInv, NEW t \in Threads, Publish(t) PROVE CellInv'
<1> USE DEF CellInv
<1>1. /\ At(t, "publish")
      /\ UNCHANGED <<keys, heapKeys, values, theap, call, last, seen>>
  BY DEF Publish, ids
<1>2. PICK c \in Cells : c = Cell(t)
  BY <1>1, TopFacts
<1>3. state' = [state EXCEPT ![c] = "ready"] /\ Pop(t)
  BY <1>2 DEF Publish
<1>4. /\ frames[t] # <<>> /\ c = frames[t][1].cell /\ frames[t][1].at = "publish"
      /\ Done(frames[t][1]) /\ Works(t, c)
      /\ call[t].kind \notin {"none", "register"}
  BY <1>1, <1>2, TopFacts
<1>5. /\ frames' \in [Threads -> Stacks]
      /\ \A u \in Threads : u # t => frames'[u] = frames[u]
      /\ frames'[t] # <<>> =>
           /\ c = "keys" /\ frames'[t][1].cell = "heap"
           /\ \/ frames'[t][1].at = "load"
              \/ frames'[t][1].at = "init" /\ frames'[t][1].i = 2
      /\ \A d : Asks(frames'[t], d) <=> d # c /\ Asks(frames[t], d)
      /\ \A d : WorksIn(frames'[t], d) <=> d # c /\ WorksIn(frames[t], d)
  BY <1>3, <1>4, Pops
<1>6. state'[c] = "ready" /\ \A d \in Cells : d # c => state'[d] = state[d]
  BY <1>3 DEF Typed
<1>7. Typed'
  BY <1>1, <1>3, <1>5 DEF Typed
<1>8. OneInitializer'
  <2>1. \A u \in Threads, d \in Cells :
          WorksIn(frames'[u], d) <=> Works(u, d) /\ d # c
    <3>1. \A u \in Threads : Works(u, c) => u = t
      BY <1>4 DEF OneInitializer
    <3> QED BY <1>5, <3>1 DEF Works
  <2> QED BY <1>6, <2>1 DEF OneInitializer, Works
<1>9. \A d \in Cells : state[d] = "ready" => state'[d] = "ready"
  BY <1>6
<1>10. ASSUME NEW u \in Threads, frames'[u] # <<>> PROVE Done(frames[u][1])'
  <2>1. CASE u = t
    BY <1>5, <1>6, <1>10, <2>1 DEF Done
  <2>2. CASE u # t
    <3>1. Done(frames[u][1]) /\ frames'[u] = frames[u]
      BY <1>5, <1>10, <2>2 DEF Progress
    <3>2. state["keys"] = "ready" => state'["keys"] = "ready"
      BY <1>9 DEF Cells
    <3> QED BY <1>1, <3>1, <3>2 DEF Done
  <2> QED BY <2>1, <2>2
<1>11. Published'
  <2>1. c = "keys" => keys # None
    BY <1>4 DEF Done
  <2>2. c = "heap" => state["keys"] = "ready" /\ heapKeys = keys
    BY <1>4 DEF Done
  <2>3. c = "opts" => \A o \in Opts : values[o] \in Seeds
    BY <1>4, StartupAssumption DEF Done, Opts
  <2>4. "keys" \in Cells /\ "heap" \in Cells /\ "opts" \in Cells
    BY DEF Cells
  <2>5. state["keys"] = "ready" => state'["keys"] = "ready"
    BY <1>9, <2>4
  <2>6. state["opts"] = "ready" => state'["opts"] = "ready"
    BY <1>9, <2>4
  <2>7. state'["keys"] = "ready" => keys' # None
    BY <1>1, <1>6, <2>1, <2>4 DEF Published
  <2>8. state'["heap"] = "ready" => state'["keys"] = "ready" /\ heapKeys' = keys'
    BY <1>1, <1>6, <2>2, <2>4, <2>5 DEF Published
  <2>9. state'["opts"] = "ready" => \A o \in Opts : values'[o] \in Seeds
    BY <1>1, <1>6, <2>3, <2>4 DEF Published
  <2> QED BY <1>1, <2>5, <2>6, <2>7, <2>8, <2>9 DEF Published
<1>12. CallsWait'
  <2>1. \A u \in Threads, d \in Cells :
          Asks(frames[u], d) => Asks(frames'[u], d) \/ state'[d] = "ready"
    BY <1>5, <1>6
  <2>2. \A u \in Threads : call[u].kind \in {"none", "register"} => frames'[u] = <<>>
    BY <1>4, <1>5 DEF CallsWait
  <2> QED BY <1>1, <1>9, <2>1, <2>2 DEF CallsWait
<1> QED BY <1>7, <1>8, <1>10, <1>11, <1>12 DEF Progress

LEMMA HeapAsksKeysStep == ASSUME CellInv, NEW t \in Threads, HeapAsksKeys(t) PROVE CellInv'
<1> DEFINE s == frames[t]
           r == Ask("keys") \o <<[Head(s) EXCEPT !.i = 2]>> \o Tail(s)
<1>1. /\ At(t, "init") /\ Cell(t) = "heap"
      /\ frames' = [frames EXCEPT ![t] = r]
      /\ UNCHANGED <<state, keys, heapKeys, values, theap, call, last, seen>>
  BY DEF HeapAsksKeys, cells, ids
<1>2. s \in Stacks /\ s # <<>> /\ s[1].cell = "heap" /\ s[1].at = "init"
  BY <1>1, TopFacts DEF CellInv, Typed
<1>3. /\ r \in Stacks /\ r # <<>> /\ r[1].cell = "keys" /\ r[1].at = "load"
      /\ \A c : Asks(r, c) <=> c = "keys" \/ Asks(s, c)
      /\ \A c : WorksIn(r, c) <=> WorksIn(s, c)
  BY <1>2, AsksKeys
<1> HIDE DEF r
<1>4. frames'[t] = r /\ \A u \in Threads : u # t => frames'[u] = frames[u]
  BY <1>1 DEF CellInv, Typed
<1>5. frames' \in [Threads -> Stacks]
  BY <1>1, <1>3 DEF CellInv, Typed
<1>6. Done(frames'[t][1])
  BY <1>3, <1>4 DEF Done
<1> QED BY <1>1, <1>2, <1>3, <1>4, <1>5, <1>6, FramesMove DEF Works

\* An initializer has set its value: it alone works on the cell, and nobody
\* has used the value before it is published.
LEMMA Initialized ==
  ASSUME CellInv, NEW t \in Threads, NEW c \in Cells, At(t, "init"), Cell(t) = c,
         MoveTo(t, "publish"), UNCHANGED <<state, theap, call, last, seen>>,
         keys' \in KeyValues \cup {None}, heapKeys' \in KeyValues \cup {None},
         values' = values,
         c # "keys" => keys' = keys, c # "heap" => heapKeys' = heapKeys,
         Done([cell |-> c, at |-> "publish", i |-> frames[t][1].i])'
  PROVE  CellInv'
<1> USE DEF CellInv
<1>1. /\ frames[t] # <<>> /\ c = frames[t][1].cell /\ frames[t][1].at = "init"
      /\ Works(t, c) /\ call[t].kind \notin {"none", "register"}
  BY TopFacts
<1>2. /\ frames' \in [Threads -> Stacks]
      /\ \A u \in Threads : u # t => frames'[u] = frames[u]
      /\ frames'[t] # <<>> /\ frames'[t][1].cell = c
      /\ frames'[t][1].at = "publish" /\ frames'[t][1].i = frames[t][1].i
      /\ \A d : Asks(frames'[t], d) <=> Asks(frames[t], d)
      /\ \A d : WorksIn(frames'[t], d) <=> IF d = c THEN TRUE ELSE WorksIn(frames[t], d)
  BY <1>1, MovesTo
<1>3. \A u \in Threads, d \in Cells : WorksIn(frames'[u], d) <=> Works(u, d)
  BY <1>1, <1>2 DEF Works
<1>4. state[c] = "initializing" /\ \A u \in Threads : Works(u, c) => u = t
  BY <1>1 DEF OneInitializer
<1>5. Typed'
  BY <1>2 DEF Typed
<1>6. OneInitializer'
  BY <1>3 DEF OneInitializer, Works
<1>7. ASSUME NEW u \in Threads, frames'[u] # <<>> PROVE Done(frames[u][1])'
  <2>1. CASE u = t
    <3>1. PICK f : f = frames'[t][1]
      OBVIOUS
    <3>2. f.cell = c /\ f.at = "publish" /\ f.i = frames'[t][1].i
      BY <1>2, <3>1
    <3>3. Done(f)'
      BY <3>2 DEF Done
    <3> QED BY <2>1, <3>1, <3>3
  <2>2. CASE u # t
    <3>1. Done(frames[u][1]) /\ frames'[u] = frames[u] /\ frames[u] \in Stacks
      BY <1>2, <1>7, <2>2 DEF Progress, Typed
    <3>2. frames[u][1].cell = c => frames[u][1].at \notin {"init", "publish"}
      BY <1>4, <1>7, <2>2, <3>1, TopOf DEF Works
    <3>3. state["keys"] = "ready" => c # "keys"
      BY <1>4
    <3> QED BY <3>1, <3>2, <3>3 DEF Done
  <2> QED BY <2>1, <2>2
<1>8. Published'
  <2>1. state["keys"] = "ready" => keys' = keys
    BY <1>4
  <2>2. state["heap"] = "ready" => heapKeys' = heapKeys
    BY <1>4
  <2> QED BY <2>1, <2>2 DEF Published
<1>9. CallsWait'
  <2>1. \A u \in Threads : \A d : Asks(frames'[u], d) <=> Asks(frames[u], d)
    BY <1>2
  <2>2. \A u \in Threads : call[u].kind \in {"none", "register"} => frames'[u] = <<>>
    BY <1>1, <1>2 DEF CallsWait
  <2> QED BY <2>1, <2>2 DEF CallsWait
<1> QED BY <1>5, <1>6, <1>7, <1>8, <1>9 DEF Progress

LEMMA InitKeysStep == ASSUME CellInv, NEW t \in Threads, InitKeys(t) PROVE CellInv'
<1>1. /\ At(t, "init") /\ Cell(t) = "keys" /\ MoveTo(t, "publish") /\ keys' \in KeyValues
      /\ UNCHANGED <<state, heapKeys, values, theap, call, last, seen>>
  BY DEF InitKeys, ids
<1>2. Done([cell |-> "keys", at |-> "publish", i |-> frames[t][1].i])'
  BY <1>1, StartupAssumption DEF Done
<1>3. heapKeys' \in KeyValues \cup {None}
  BY <1>1 DEF CellInv, Typed
<1> QED BY <1>1, <1>2, <1>3, Initialized DEF Cells

LEMMA InitHeapStep == ASSUME CellInv, NEW t \in Threads, InitHeap(t) PROVE CellInv'
<1>1. /\ At(t, "init") /\ Cell(t) = "heap" /\ Head(frames[t]).i = 2
      /\ MoveTo(t, "publish") /\ heapKeys' = keys
      /\ UNCHANGED <<state, keys, values, theap, call, last, seen>>
  BY DEF InitHeap, ids
<1>2. state["keys"] = "ready"
  <2>1. /\ Head(frames[t]) = frames[t][1] /\ frames[t][1].cell = "heap"
        /\ frames[t][1].at = "init" /\ Done(frames[t][1])
    BY <1>1, TopFacts
  <2> QED BY <1>1, <2>1 DEF Done
<1>3. Done([cell |-> "heap", at |-> "publish", i |-> frames[t][1].i])'
  BY <1>1, <1>2 DEF Done
<1>4. heapKeys' \in KeyValues \cup {None} /\ keys' \in KeyValues \cup {None}
  BY <1>1 DEF CellInv, Typed
<1> QED BY <1>1, <1>3, <1>4, Initialized DEF Cells

LEMMA SeedStep == ASSUME CellInv, NEW t \in Threads, Seed(t) PROVE CellInv'
<1> USE DEF CellInv
<1>1. /\ At(t, "init") /\ Cell(t) = "opts"
      /\ UNCHANGED <<state, keys, heapKeys, theap, call, last, seen>>
  BY DEF Seed, cells, ids
<1>2. /\ frames[t] # <<>> /\ Head(frames[t]) = frames[t][1] /\ frames[t][1] \in Frame
      /\ frames[t][1].cell = "opts" /\ frames[t][1].at = "init"
      /\ Done(frames[t][1]) /\ Works(t, "opts") /\ frames[t] \in Stacks
      /\ call[t].kind \notin {"none", "register"}
  BY <1>1, TopFacts DEF Typed
<1>3. PICK o : o = frames[t][1].i /\ o \in 1..(NOpts + 1)
  BY <1>2 DEF Frame
<1>4. (\A p \in 1..(o - 1) : values[p] \in Seeds) /\ "opts" \in Cells
  BY <1>2, <1>3 DEF Done, Cells
<1>5. CASE o \notin Opts
  <2>1. MoveTo(t, "publish") /\ values' = values
    BY <1>2, <1>3, <1>5 DEF Seed
  <2>2. frames'[t][1].i = o
    BY <1>2, <1>3, <2>1, MovesTo
  <2>3. o = NOpts + 1
    BY <1>3, <1>5, StartupAssumption DEF Opts
  <2>4. Done([cell |-> "opts", at |-> "publish", i |-> frames[t][1].i])'
    BY <1>4, <2>1, <2>2, <2>3 DEF Done
  <2>5. keys' \in KeyValues \cup {None} /\ heapKeys' \in KeyValues \cup {None}
    BY <1>1 DEF Typed
  <2> QED BY <1>1, <1>4, <2>1, <2>4, <2>5, Initialized
<1>6. CASE o \in Opts
  <2> DEFINE s == frames[t]
             g == [s[1] EXCEPT !.i = o + 1]
             r == [s EXCEPT ![1] = g]
  <2>1. values' = [values EXCEPT ![o] = EnvValue(o)] /\ frames' = [frames EXCEPT ![t] = r]
    BY <1>2, <1>3, <1>6 DEF Seed
  <2>2. o \in Nat /\ o + 1 \in 1..(NOpts + 1)
    BY <1>6, StartupAssumption DEF Opts
  <2>3. /\ g \in Frame /\ g.cell = "opts" /\ g.at = "init" /\ g.i = o + 1
    BY <1>2, <2>2 DEF Frame
  <2>4. g.at \notin Waiting /\ g.cell = s[1].cell
    BY <1>2, <2>3 DEF Waiting
  <2>5. /\ r \in Stacks /\ r # <<>> /\ r[1] = g
        /\ \A c : Asks(r, c) <=> Asks(s, c)
        /\ \A c : WorksIn(r, c) <=>
             IF c = s[1].cell THEN g.at \in {"init", "publish"} ELSE WorksIn(s, c)
    <3>1. s \in Stacks /\ s # <<>>
      BY <1>2
    <3> HIDE DEF s, g
    <3> QED BY <2>3, <2>4, <3>1, Moved
  <2> HIDE DEF r, g
  <2>6. frames'[t] = r /\ \A u \in Threads : u # t => frames'[u] = frames[u]
    BY <2>1 DEF Typed
  <2>7. frames' \in [Threads -> Stacks]
    BY <2>1, <2>5 DEF Typed
  <2>8. values' \in [Opts -> Int] /\ values'[o] \in Seeds
        /\ \A p \in Opts : p # o => values'[p] = values[p]
    BY <1>6, <2>1, EnvSeeds DEF Typed
  <2>9. Typed'
    BY <1>1, <2>7, <2>8 DEF Typed
  <2>10. \A u \in Threads, d \in Cells : WorksIn(frames'[u], d) <=> Works(u, d)
    <3>1. \A d \in Cells : WorksIn(r, d) <=> WorksIn(s, d)
      BY <1>2, <2>3, <2>5 DEF Works
    <3> QED BY <2>6, <3>1 DEF Works
  <2>11. OneInitializer'
    BY <1>1, <2>10 DEF OneInitializer, Works
  <2>12. state["opts"] = "initializing" /\ \A u \in Threads : Works(u, "opts") => u = t
    BY <1>2, <1>4 DEF OneInitializer
  <2>13. ASSUME NEW u \in Threads, frames'[u] # <<>> PROVE Done(frames[u][1])'
    <3>1. CASE u = t
      <4>1. \A p \in 1..o : values'[p] \in Seeds
        <5>1. ASSUME NEW p \in 1..o PROVE values'[p] \in Seeds
          <6>1. CASE p = o
            BY <2>8, <6>1
          <6>2. CASE p # o
            <7>1. p \in 1..(o - 1) /\ p \in Opts
              BY <1>6, <2>2, <6>2, StartupAssumption DEF Opts
            <7> QED BY <1>4, <2>8, <6>2, <7>1
          <6> QED BY <6>1, <6>2
        <5> QED BY <5>1
      <4>2. (o + 1) - 1 = o
        BY <2>2
      <4>3. PICK f : f = frames'[t][1]
        OBVIOUS
      <4>4. f.cell = "opts" /\ f.at = "init" /\ f.i = o + 1
        BY <2>3, <2>5, <2>6, <4>3
      <4>5. Done(f)'
        BY <4>1, <4>2, <4>4 DEF Done
      <4> QED BY <3>1, <4>3, <4>5
    <3>2. CASE u # t
      <4>1. Done(frames[u][1]) /\ frames'[u] = frames[u] /\ frames[u] \in Stacks
        BY <2>6, <2>13, <3>2 DEF Progress, Typed
      <4>2. frames[u][1].cell = "opts" => frames[u][1].at \notin {"init", "publish"}
        BY <2>12, <2>13, <3>2, <4>1, TopOf DEF Works
      <4> QED BY <1>1, <4>1, <4>2 DEF Done
    <3> QED BY <3>1, <3>2
  <2>14. Published'
    BY <1>1, <2>12 DEF Published
  <2>15. CallsWait'
    <3>1. \A u \in Threads : \A d : Asks(frames'[u], d) <=> Asks(frames[u], d)
      BY <2>5, <2>6
    <3>2. \A u \in Threads : call[u].kind \in {"none", "register"} => frames'[u] = <<>>
      BY <1>2, <2>6 DEF CallsWait
    <3> QED BY <1>1, <3>1, <3>2 DEF CallsWait
  <2> QED BY <2>9, <2>11, <2>13, <2>14, <2>15 DEF Progress
<1> QED BY <1>5, <1>6

\* A call begins with its cells to ask for.
LEMMA BeginStep ==
  ASSUME CellInv, NEW t \in Threads, NEW kind \in {"get", "set", "theap"},
         NEW o \in Opts, NEW v \in Int, NEW asks \in Stacks,
         kind = "set" => v \in NewValues, Begin(t, kind, o, v, asks),
         asks # <<>>, asks[1].at = "load", \A d : ~WorksIn(asks, d),
         \A c \in Cells : Needs(kind, c) => Asks(asks, c)
  PROVE  CellInv'
<1> USE DEF CellInv
<1> DEFINE k == [kind |-> kind, opt |-> o, val |-> v]
<1>1. /\ call' = [call EXCEPT ![t] = k] /\ frames' = [frames EXCEPT ![t] = asks]
      /\ call[t] = NoCall
      /\ UNCHANGED <<state, keys, heapKeys, values, theap, last, seen>>
  BY DEF Begin, MayCall, cells, ids
<1>2. k \in Call
  BY StartupAssumption DEF Call, Opts
<1>3. k.kind = kind /\ k.opt = o /\ k.val = v
  OBVIOUS
<1> HIDE DEF k
<1>4. /\ frames'[t] = asks /\ call'[t] = k
      /\ \A u \in Threads : u # t => frames'[u] = frames[u] /\ call'[u] = call[u]
  BY <1>1 DEF Typed
<1>5. Typed'
  BY <1>1, <1>2 DEF Typed
<1>6. \A c \in Cells : ~Works(t, c)
  <2>1. frames[t] = <<>>
    BY <1>1 DEF CallsWait, NoCall
  <2> QED BY <2>1, Asking DEF Works
<1>7. OneInitializer'
  <2>1. \A u \in Threads, c \in Cells : WorksIn(frames'[u], c) <=> Works(u, c)
    BY <1>4, <1>6 DEF Works
  <2> QED BY <1>1, <2>1 DEF OneInitializer, Works
<1>8. ASSUME NEW u \in Threads, frames'[u] # <<>> PROVE Done(frames[u][1])'
  <2>1. CASE u = t
    BY <1>4, <2>1 DEF Done
  <2>2. CASE u # t
    BY <1>1, <1>4, <1>8, <2>2 DEF Done, Progress
  <2> QED BY <2>1, <2>2
<1>9. Published'
  BY <1>1 DEF Published
<1>10. ASSUME NEW u \in Threads
       PROVE  /\ call'[u].kind \in {"none", "register"} => frames'[u] = <<>>
              /\ \A c \in Cells : Needs(call'[u].kind, c) =>
                   state'[c] = "ready" \/ Asks(frames'[u], c)
              /\ call'[u].kind \in {"get", "set"} => call'[u].opt \in Opts
              /\ call'[u].kind = "set" => call'[u].val \in NewValues
  <2>1. CASE u = t
    BY <1>3, <1>4, <2>1
  <2>2. CASE u # t
    BY <1>1, <1>4, <2>2 DEF CallsWait
  <2> QED BY <2>1, <2>2
<1> QED BY <1>5, <1>7, <1>8, <1>9, <1>10 DEF Progress, CallsWait

LEMMA CallStep ==
  ASSUME CellInv, NEW t \in Threads,
         \/ \E o \in Opts : get(t, o) \/ \E v \in NewValues : set(t, o, v)
         \/ thread_init(t) \/ process_init(t)
  PROVE  CellInv'
<1> USE StartupAssumption DEF Needs
<1>1. ASSUME NEW o \in Opts, get(t, o) PROVE CellInv'
  <2>1. Begin(t, "get", o, 0, Ask("opts"))
    BY <1>1 DEF get
  <2>2. /\ Ask("opts") \in Stacks /\ Ask("opts") # <<>> /\ Ask("opts")[1].at = "load"
        /\ Asks(Ask("opts"), "opts") /\ \A d : ~WorksIn(Ask("opts"), d)
    BY Asking DEF Cells
  <2> QED BY <2>1, <2>2, BeginStep
<1>2. ASSUME NEW o \in Opts, NEW v \in NewValues, set(t, o, v) PROVE CellInv'
  <2>1. Begin(t, "set", o, v, Ask("opts")) /\ v \in Int
    BY <1>2 DEF set
  <2>2. /\ Ask("opts") \in Stacks /\ Ask("opts") # <<>> /\ Ask("opts")[1].at = "load"
        /\ Asks(Ask("opts"), "opts") /\ \A d : ~WorksIn(Ask("opts"), d)
    BY Asking DEF Cells
  <2> QED BY <2>1, <2>2, BeginStep
<1>3. 1 \in Opts
  BY DEF Opts
<1>4. ASSUME thread_init(t) PROVE CellInv'
  <2>1. Begin(t, "theap", 1, 0, Ask("heap"))
    BY <1>4 DEF thread_init
  <2>2. /\ Ask("heap") \in Stacks /\ Ask("heap") # <<>> /\ Ask("heap")[1].at = "load"
        /\ Asks(Ask("heap"), "heap") /\ \A d : ~WorksIn(Ask("heap"), d)
    BY Asking DEF Cells
  <2> QED BY <1>3, <2>1, <2>2, BeginStep
<1>5. ASSUME process_init(t) PROVE CellInv'
  <2> DEFINE s == Ask("keys") \o Ask("heap")
  <2>1. Begin(t, "theap", 1, 0, s)
    BY <1>5 DEF process_init
  <2>2. /\ s \in Stacks /\ s # <<>> /\ s[1].at = "load"
        /\ Asks(s, "heap") /\ \A d : ~WorksIn(s, d)
    BY Asking
  <2> HIDE DEF s
  <2> QED BY <1>3, <2>1, <2>2, BeginStep
<1> QED BY <1>1, <1>2, <1>4, <1>5

LEMMA GetLoadStep == ASSUME CellInv, NEW t \in Threads, GetLoad(t) PROVE CellInv'
<1>1. /\ call[t].kind = "get" /\ frames[t] = <<>>
      /\ seen' = [seen EXCEPT ![t] = values[call[t].opt]] /\ call' = [call EXCEPT ![t] = NoCall]
      /\ UNCHANGED <<state, keys, heapKeys, values, theap, frames, last>>
  BY DEF GetLoad, Served, Return, cells, ids
<1>2. state["opts"] = "ready" /\ call[t].opt \in Opts
  BY <1>1, Asking DEF CellInv, CallsWait, Needs, Cells
<1>3. values[call[t].opt] \in Seeds
  BY <1>2 DEF CellInv, Published
<1>4. NoCall \in Call /\ NoCall.kind = "none"
  BY DEF NoCall, Call
<1>5. seen' \in [Threads -> Seeds \cup {None}]
  BY <1>1, <1>3 DEF CellInv, Typed
<1>6. call' \in [Threads -> Call] /\ call'[t] = NoCall
      /\ \A u \in Threads : u # t => call'[u] = call[u]
  BY <1>1, <1>4 DEF CellInv, Typed
<1> QED BY <1>1, <1>4, <1>5, <1>6, QuietCells

\* A set stores in seeded options only: no initializer is left to undo it.
LEMMA SetStoreStep == ASSUME CellInv, NEW t \in Threads, SetStore(t) PROVE CellInv'
<1> USE DEF CellInv
<1>1. /\ call[t].kind = "set" /\ frames[t] = <<>>
      /\ values' = [values EXCEPT ![call[t].opt] = call[t].val]
      /\ last' = [last EXCEPT ![call[t].opt] = call[t].val]
      /\ call' = [call EXCEPT ![t] = NoCall]
      /\ UNCHANGED <<state, keys, heapKeys, theap, frames, seen>>
  BY DEF SetStore, Served, Return, cells, ids
<1>2. state["opts"] = "ready" /\ call[t].opt \in Opts /\ call[t].val \in NewValues
  BY <1>1, Asking DEF CallsWait, Needs, Cells
<1>3. PICK o \in Opts, v \in NewValues : o = call[t].opt /\ v = call[t].val
  BY <1>2
<1>4. NoCall \in Call /\ NoCall.kind = "none"
  BY DEF NoCall, Call
<1>5. call' \in [Threads -> Call] /\ call'[t] = NoCall
      /\ \A u \in Threads : u # t => call'[u] = call[u]
  BY <1>1, <1>4 DEF Typed
<1>6. /\ values' \in [Opts -> Int] /\ last' \in [Opts -> NewValues \cup {None}]
      /\ values'[o] = v /\ last'[o] = v
      /\ \A p \in Opts : p # o => values'[p] = values[p] /\ last'[p] = last[p]
  BY <1>1, <1>3, StartupAssumption DEF Typed
<1>7. Typed'
  BY <1>1, <1>5, <1>6 DEF Typed
<1>8. OneInitializer'
  BY <1>1 DEF OneInitializer, Works
<1>9. \A p \in Opts : values[p] \in Seeds => values'[p] \in Seeds
  BY <1>6 DEF Seeds
<1>10. ASSUME NEW u \in Threads, frames'[u] # <<>> PROVE Done(frames[u][1])'
  <2>1. Done(frames[u][1]) /\ frames[u] \in Stacks
    BY <1>1, <1>10 DEF Progress, Typed
  <2>2. frames[u][1].cell = "opts" => frames[u][1].at \notin {"init", "publish"}
    <3>1. ~Works(u, "opts")
      BY <1>2 DEF OneInitializer, Cells
    <3> QED BY <1>1, <1>10, <2>1, <3>1, TopOf DEF Works
  <2> QED BY <1>1, <2>1, <2>2 DEF Done
<1>11. Published'
  <2>1. \A p \in Opts : values'[p] \in Seeds
    BY <1>2, <1>9 DEF Published
  <2>2. \A p \in Opts : last'[p] # None => values'[p] = last'[p]
    BY <1>6 DEF Published
  <2> QED BY <1>1, <1>2, <2>1, <2>2 DEF Published
<1>12. CallsWait'
  BY <1>1, <1>4, <1>5 DEF CallsWait, Needs
<1> QED BY <1>7, <1>8, <1>10, <1>11, <1>12 DEF Progress

LEMMA NewTheapStep == ASSUME CellInv, NEW t \in Threads, NewTheap(t) PROVE CellInv'
<1> USE DEF CellInv
<1>1. /\ call[t].kind = "theap" /\ frames[t] = <<>>
      /\ theap' = [theap EXCEPT ![t] = heapKeys] /\ call' = [call EXCEPT ![t] = NoCall]
      /\ UNCHANGED <<state, keys, heapKeys, values, frames, last, seen>>
  BY DEF NewTheap, Served, Return, cells
<1>2. state["heap"] = "ready"
  BY <1>1, Asking DEF CallsWait, Needs, Cells
<1>3. state["keys"] = "ready" /\ heapKeys = keys
  BY <1>2 DEF Published
<1>4. NoCall \in Call /\ NoCall.kind = "none"
  BY DEF NoCall, Call
<1>5. /\ call' \in [Threads -> Call] /\ call'[t] = NoCall
      /\ theap' \in [Threads -> KeyValues \cup {None}] /\ theap'[t] = keys
      /\ \A u \in Threads : u # t => call'[u] = call[u] /\ theap'[u] = theap[u]
  BY <1>1, <1>3, <1>4 DEF Typed
<1>6. Typed'
  BY <1>1, <1>5 DEF Typed
<1>7. OneInitializer'
  BY <1>1 DEF OneInitializer, Works
<1>8. Progress'
  BY <1>1 DEF Progress, Done
<1>9. Published'
  BY <1>1, <1>3, <1>5 DEF Published
<1>10. CallsWait'
  BY <1>1, <1>4, <1>5 DEF CallsWait, Needs
<1> QED BY <1>6, <1>7, <1>8, <1>9, <1>10

-----------------------------------------------------------------------------
(***************************************************************************)
(* The deferred-free callback.                                             *)
(***************************************************************************)
LEMMA RunTail ==
  ASSUME NEW s \in RunStacks, NEW r \in Seq(Running), Len(s) \in 1..2,
         Len(r) = Len(s) - 1, \A i \in 1..Len(r) : r[i] = s[i + 1]
  PROVE  /\ r \in RunStacks
         /\ Guards(r) <=> Len(s) = 2
         /\ ~Ticking(r)
<1>1. Len(r) = 0 \/ (Len(r) = 1 /\ r[1].at = "callback" /\ Len(s) = 2)
  BY DEF RunStacks
<1>2. Len(r) <= 2 /\ Len(r) # 2 /\ (Len(r) = 1 <=> Len(s) = 2)
  BY <1>1
<1>3. r \in RunStacks
  BY <1>2, Zenon DEF RunStacks
<1> QED BY <1>1, <1>2, <1>3 DEF Guards, Ticking

LEMMA RunTop ==
  ASSUME NEW s \in RunStacks, s # <<>>
  PROVE  /\ s \in Seq(Running) /\ (Len(s) = 1 \/ Len(s) = 2)
         /\ Head(s) = s[1] /\ s[1] \in Running
         /\ Tail(s) \in RunStacks /\ Len(Tail(s)) = Len(s) - 1
         /\ \A i \in 1..Len(Tail(s)) : Tail(s)[i] = s[i + 1]
         /\ Guards(Tail(s)) <=> Len(s) = 2
         /\ ~Ticking(Tail(s))
<1>1. s \in Seq(Running) /\ Len(s) <= 2
  BY DEF RunStacks
<1>2. Len(s) \in Nat \ {0}
  BY <1>1, EmptySeq
<1>3. PICK n : n = Len(s)
  OBVIOUS
<1>4. n \in 1..2 /\ (n = 1 \/ n = 2)
  BY <1>1, <1>2, <1>3
<1>5. /\ Tail(s) \in Seq(Running) /\ Len(Tail(s)) = Len(s) - 1
      /\ \A i \in 1..Len(Tail(s)) : Tail(s)[i] = s[i + 1]
  BY <1>1, HeadTailProperties
<1>6. Tail(s) \in RunStacks /\ (Guards(Tail(s)) <=> Len(s) = 2) /\ ~Ticking(Tail(s))
  BY <1>3, <1>4, <1>5, RunTail, Zenon
<1>7. Head(s) = s[1] /\ s[1] \in Running
  BY <1>1, <1>2
<1> QED BY <1>1, <1>3, <1>4, <1>5, <1>6, <1>7

\* The run on top goes on.
LEMMA RunMoved ==
  ASSUME NEW s \in RunStacks, s # <<>>, NEW g \in Running,
         Len(s) = 2 => g.at \in {"load", "claim"}
  PROVE  /\ [s EXCEPT ![1] = g] \in RunStacks
         /\ Len([s EXCEPT ![1] = g]) = Len(s) /\ [s EXCEPT ![1] = g][1] = g
         /\ \A i \in 2..Len(s) : [s EXCEPT ![1] = g][i] = s[i]
<1>1. s \in Seq(Running) /\ (Len(s) = 1 \/ Len(s) = 2)
  BY RunTop
<1>2. 1 \in 1..Len(s)
  BY <1>1
<1> DEFINE r == [s EXCEPT ![1] = g]
<1>3. /\ r \in Seq(Running) /\ Len(r) = Len(s)
      /\ \A j \in 1..Len(s) : r[j] = IF j = 1 THEN g ELSE s[j]
  BY <1>1, <1>2, ExceptSeq
<1> HIDE DEF r
<1>4. r[1] = g /\ \A i \in 2..Len(s) : r[i] = s[i]
  BY <1>1, <1>2, <1>3
<1>5. r \in RunStacks
  BY <1>1, <1>3, <1>4 DEF RunStacks
<1> QED BY <1>3, <1>4, <1>5 DEF r

\* A collect begins a run, outside any other or inside the callback.
LEMMA RunPushed ==
  ASSUME NEW s \in RunStacks, Len(s) = 0 \/ s[1].at = "callback"
  PROVE  LET q == [at |-> "load", fn |-> 0, arg |-> 0]
             r == <<q>> \o s
         IN  /\ r \in RunStacks
             /\ Guards(r) <=> Guards(s)
             /\ ~Ticking(r) /\ ~Ticking(s)
             /\ \A i \in 1..Len(r) : r[i] = q \/ \E j \in 1..Len(s) : r[i] = s[j]
<1> DEFINE q == [at |-> "load", fn |-> 0, arg |-> 0]
           r == <<q>> \o s
<1>1. q \in Running /\ q.at = "load"
  BY DEF Running
<1> HIDE DEF q
<1>2. s \in Seq(Running) /\ Len(s) \in Nat
  BY DEF RunStacks
<1>3. /\ r \in Seq(Running) /\ Len(r) = Len(s) + 1 /\ r[1] = q
      /\ \A i \in 2..Len(r) : r[i] = s[i - 1]
  BY <1>1, <1>2
<1> HIDE DEF r
<1>4. CASE Len(s) = 0
  <2>1. Len(s) = 0
    BY <1>4
  <2>2. Len(r) = 1
    BY <1>3, <2>1
  <2>6. Len(r) <= 2 /\ Len(r) # 2
    BY <2>2
  <2>3. r \in RunStacks
    BY <1>3, <2>6, Zenon DEF RunStacks
  <2>4. ~Guards(r) /\ ~Guards(s) /\ ~Ticking(r) /\ ~Ticking(s)
    BY <1>1, <1>3, <2>1, <2>2 DEF Guards, Ticking
  <2>7. r[1] = q /\ \A i \in 1..1 : i = 1
    BY <1>3
  <2>5. \A i \in 1..Len(r) : r[i] = q
    BY <2>2, <2>7, Zenon
  <2> QED BY <2>3, <2>4, <2>5 DEF q, r
<1>5. CASE Len(s) # 0
  <2>8. PICK n : n = Len(s)
    OBVIOUS
  <2>9. n \in Nat /\ n <= 2 /\ n # 0
    BY <1>2, <1>5, <2>8 DEF RunStacks
  <2>10. n = 1 \/ n = 2
    BY <2>9
  <2>1. Len(s) = 1 \/ Len(s) = 2
    BY <2>8, <2>10, Zenon
  <2>2. s[1].at = "callback"
    BY <1>5
  <2>3. Len(s) = 1
    BY <2>1, <2>2 DEF RunStacks
  <2>4. Len(r) = 2 /\ r[2] = s[1]
    BY <1>3, <2>3
  <2>5. r \in RunStacks
    BY <1>1, <1>3, <2>2, <2>4 DEF RunStacks
  <2>6. Guards(r) /\ Guards(s) /\ ~Ticking(r) /\ ~Ticking(s)
    BY <2>2, <2>3, <2>4 DEF Guards, Ticking
  <2>7. \A i \in 1..Len(r) : r[i] = q \/ \E j \in 1..Len(s) : r[i] = s[j]
    BY <1>3, <2>3, <2>4
  <2> QED BY <2>5, <2>6, <2>7 DEF q, r
<1> QED BY <1>4, <1>5

LEMMA RunInit == Init => RunInv
<1> SUFFICES ASSUME Init PROVE RunInv
  OBVIOUS
<1> USE DEF Init
<1>1. NoCall \in Call /\ NoCall.kind = "none"
  BY DEF NoCall, Call
<1>2. <<>> \in RunStacks /\ Len(<<>>) = 0
  BY DEF RunStacks
<1>3. ~Guards(<<>>) /\ ~Ticking(<<>>)
  BY <1>2 DEF Guards, Ticking
<1>4. runs \in [Threads -> RunStacks] /\ \A t \in Threads : runs[t] = <<>>
  BY <1>2
<1>5. /\ recurse \in [Threads -> BOOLEAN] /\ call \in [Threads -> Call]
      /\ beat \in [Threads -> Nat] /\ begun \in [Threads -> Nat]
      /\ regs \in Nat /\ arg = regs /\ fn \in 0..regs
  BY <1>1
<1>6. ASSUME NEW t \in Threads
      PROVE  /\ recurse[t] <=> Guards(runs[t])
             /\ beat[t] = begun[t] + (IF Ticking(runs[t]) THEN 1 ELSE 0)
             /\ \A i \in 1..Len(runs[t]) : Fresh(runs[t][i])
             /\ call[t].kind # "register"
  BY <1>1, <1>2, <1>3, <1>4
<1> QED BY <1>4, <1>5, <1>6 DEF RunInv

\* Steps outside register_deferred_free and run_deferred_free.
LEMMA QuietRuns ==
  ASSUME RunInv, UNCHANGED <<runs, recurse, beat, begun, regs, arg, fn>>,
         call' \in [Threads -> Call],
         \A t \in Threads : call'[t] = call[t] \/ call'[t].kind # "register"
  PROVE  RunInv'
BY DEF RunInv, Fresh

\* A step of a run of thread t.
LEMMA RunsMove ==
  ASSUME RunInv, NEW t \in Threads, UNCHANGED <<regs, arg, fn, call>>,
         NEW r \in RunStacks, runs' = [runs EXCEPT ![t] = r],
         recurse' \in [Threads -> BOOLEAN], beat' \in [Threads -> Nat],
         begun' \in [Threads -> Nat],
         \A u \in Threads : u # t =>
           recurse'[u] = recurse[u] /\ beat'[u] = beat[u] /\ begun'[u] = begun[u],
         recurse'[t] <=> Guards(r),
         beat'[t] = begun'[t] + (IF Ticking(r) THEN 1 ELSE 0),
         \A i \in 1..Len(r) : Fresh(r[i])
  PROVE  RunInv'
<1> USE DEF RunInv
<1>1. /\ runs' \in [Threads -> RunStacks] /\ runs'[t] = r
      /\ \A u \in Threads : u # t => runs'[u] = runs[u]
  OBVIOUS
<1>2. ASSUME NEW u \in Threads
      PROVE  /\ recurse'[u] <=> Guards(runs'[u])
             /\ beat'[u] = begun'[u] + (IF Ticking(runs'[u]) THEN 1 ELSE 0)
             /\ \A i \in 1..Len(runs'[u]) : Fresh(runs'[u][i])
             /\ call'[u].kind = "register" => call'[u].opt \in {0, 1} /\ call'[u].val \in 1..regs'
  <2>1. CASE u = t
    BY <1>1, <2>1
  <2>2. CASE u # t
    BY <1>1, <2>2
  <2> QED BY <2>1, <2>2
<1>3. \A u \in Threads : \A i \in 1..Len(runs'[u]) : Fresh(runs[u][i])'
  BY <1>2 DEF Fresh
<1> QED BY <1>1, <1>2, <1>3

LEMMA RunFacts ==
  ASSUME RunInv, NEW t \in Threads, NEW w, RunAt(t, w)
  PROVE  /\ runs[t] \in RunStacks /\ runs[t] # <<>>
         /\ Len(runs[t]) = 1 \/ Len(runs[t]) = 2
         /\ runs[t][1] \in Running /\ runs[t][1].at = w /\ Fresh(runs[t][1])
         /\ \A i \in 1..Len(runs[t]) : Fresh(runs[t][i])
         /\ Len(runs[t]) = 2 => w \in {"load", "claim"}
<1>1. runs[t] \in RunStacks /\ runs[t] # <<>>
  BY DEF RunInv, RunAt
<1>2. /\ Len(runs[t]) = 1 \/ Len(runs[t]) = 2
      /\ Head(runs[t]) = runs[t][1] /\ runs[t][1] \in Running
  BY <1>1, RunTop
<1>3. runs[t][1].at = w /\ \A i \in 1..Len(runs[t]) : Fresh(runs[t][i])
  BY <1>2 DEF RunAt, RunInv
<1>4. Len(runs[t]) = 2 => w \in {"load", "claim"}
  BY <1>1, <1>3 DEF RunStacks
<1>5. 1 \in 1..Len(runs[t])
  BY <1>2
<1> QED BY <1>1, <1>2, <1>3, <1>4, <1>5

\* A run that ends before the flag leaves the flag as it was.
LEMMA LeavesEarly ==
  ASSUME RunInv, NEW t \in Threads, NEW w \in {"load", "claim"}, RunAt(t, w), Leave(t),
         UNCHANGED <<regs, arg, fn, call, recurse, beat, begun>>
  PROVE  RunInv'
<1> DEFINE s == runs[t]
           r == Tail(s)
<1>1. /\ s \in RunStacks /\ s # <<>> /\ (Len(s) = 1 \/ Len(s) = 2) /\ s[1].at = w
      /\ \A i \in 1..Len(s) : Fresh(s[i])
  BY RunFacts
<1>2. /\ r \in RunStacks /\ Len(r) = Len(s) - 1
      /\ \A i \in 1..Len(r) : r[i] = s[i + 1]
      /\ Guards(r) <=> Len(s) = 2
      /\ ~Ticking(r)
  BY <1>1, RunTop
<1>3. (Guards(s) <=> Len(s) = 2) /\ ~Ticking(s)
  BY <1>1 DEF Guards, Ticking
<1>4. runs' = [runs EXCEPT ![t] = r]
  BY DEF Leave
<1> HIDE DEF r
<1>5. \A i \in 1..Len(r) : Fresh(r[i])
  <2>1. \A i \in 1..Len(r) : i + 1 \in 1..Len(s)
    BY <1>1, <1>2
  <2> QED BY <1>1, <1>2, <2>1
<1>6. /\ recurse[t] <=> Guards(r)
      /\ beat[t] = begun[t] + (IF Ticking(r) THEN 1 ELSE 0)
  BY <1>2, <1>3 DEF RunInv
<1> QED BY <1>2, <1>4, <1>5, <1>6, RunsMove DEF RunInv

LEMMA LoadFnStep == ASSUME RunInv, NEW t \in Threads, LoadFn(t) PROVE RunInv'
<1>1. /\ RunAt(t, "load")
      /\ UNCHANGED <<regs, arg, fn, call, recurse, beat, begun>>
  BY DEF LoadFn, rest
<1>2. CASE fn = 0
  BY <1>1, <1>2, LeavesEarly DEF LoadFn
<1>3. CASE fn # 0
  <2> DEFINE s == runs[t]
             g == [s[1] EXCEPT !.at = "claim", !.fn = fn]
             r == [s EXCEPT ![1] = g]
  <2>1. /\ s \in RunStacks /\ s # <<>> /\ (Len(s) = 1 \/ Len(s) = 2)
        /\ s[1] \in Running /\ s[1].at = "load" /\ \A i \in 1..Len(s) : Fresh(s[i])
    BY <1>1, RunFacts
  <2>2. fn \in Nat /\ fn \in 1..regs
    BY <1>3 DEF RunInv
  <2>3. g \in Running /\ g.at = "claim" /\ g.fn = fn
    BY <2>1, <2>2 DEF Running
  <2>4. runs' = [runs EXCEPT ![t] = r]
    <3>1. runs' = [runs EXCEPT ![t][1].at = "claim", ![t][1].fn = fn]
      BY <1>3 DEF LoadFn
    <3>2. runs \in [Threads -> RunStacks]
      BY DEF RunInv
    <3> QED BY <3>1, <3>2
  <2> HIDE DEF g
  <2>5. /\ r \in RunStacks /\ Len(r) = Len(s) /\ r[1] = g
        /\ \A i \in 2..Len(s) : r[i] = s[i]
    <3> HIDE DEF s
    <3> QED BY <2>1, <2>3, RunMoved
  <2> HIDE DEF r
  <2>6. /\ Guards(r) <=> Guards(s)
        /\ ~Ticking(r) /\ ~Ticking(s)
    BY <2>1, <2>3, <2>5 DEF Guards, Ticking
  <2>7. Fresh(g)
    BY <2>2, <2>3 DEF Fresh
  <2>8. \A i \in 1..Len(r) : Fresh(r[i])
    BY <2>1, <2>5, <2>7
  <2>9. /\ recurse[t] <=> Guards(r)
        /\ beat[t] = begun[t] + (IF Ticking(r) THEN 1 ELSE 0)
    BY <2>6 DEF RunInv
  <2> QED BY <1>1, <2>4, <2>5, <2>8, <2>9, RunsMove DEF RunInv
<1> QED BY <1>2, <1>3

LEMMA ClaimFlagStep == ASSUME RunInv, NEW t \in Threads, ClaimFlag(t) PROVE RunInv'
<1>1. RunAt(t, "claim") /\ UNCHANGED <<regs, arg, fn, call, begun>>
  BY DEF ClaimFlag, rest
<1>2. CASE recurse[t]
  BY <1>1, <1>2, LeavesEarly DEF ClaimFlag
<1>3. CASE ~recurse[t]
  <2> DEFINE s == runs[t]
             g == [s[1] EXCEPT !.at = "arg"]
             r == [s EXCEPT ![1] = g]
  <2>1. /\ s \in RunStacks /\ s # <<>> /\ (Len(s) = 1 \/ Len(s) = 2)
        /\ s[1] \in Running /\ s[1].at = "claim" /\ Fresh(s[1])
    BY <1>1, RunFacts
  <2>2. Len(s) = 1 /\ beat[t] = begun[t] /\ beat[t] \in Nat /\ begun[t] \in Nat
    BY <1>3, <2>1 DEF RunInv, Guards, Ticking
  <2>3. g \in Running /\ g.at = "arg" /\ g.fn = s[1].fn
    BY <2>1 DEF Running
  <2>4. /\ runs' = [runs EXCEPT ![t] = r]
        /\ recurse' = [recurse EXCEPT ![t] = TRUE] /\ beat' = [beat EXCEPT ![t] = @ + 1]
    BY <1>3 DEF ClaimFlag
  <2> HIDE DEF g
  <2>5. r \in RunStacks /\ Len(r) = 1 /\ r[1] = g
    <3> HIDE DEF s
    <3>1. Len(s) # 2
      BY <2>2
    <3> QED BY <2>1, <2>2, <2>3, <3>1, RunMoved
  <2> HIDE DEF r
  <2>6. Guards(r) /\ Ticking(r)
    BY <2>3, <2>5 DEF Guards, Ticking
  <2>7. Fresh(g)
    BY <2>1, <2>3 DEF Fresh
  <2>8. \A i \in 1..Len(r) : Fresh(r[i])
    BY <2>5, <2>7
  <2>9. /\ recurse' \in [Threads -> BOOLEAN] /\ recurse'[t] = TRUE
        /\ beat' \in [Threads -> Nat] /\ beat'[t] = begun'[t] + 1
        /\ begun' \in [Threads -> Nat]
        /\ \A u \in Threads : u # t =>
             recurse'[u] = recurse[u] /\ beat'[u] = beat[u] /\ begun'[u] = begun[u]
    BY <1>1, <2>2, <2>4 DEF RunInv
  <2>10. /\ recurse'[t] <=> Guards(r)
         /\ beat'[t] = begun'[t] + (IF Ticking(r) THEN 1 ELSE 0)
    BY <2>6, <2>9
  <2> QED BY <1>1, <2>4, <2>5, <2>8, <2>9, <2>10, RunsMove
<1> QED BY <1>2, <1>3

LEMMA LoadArgStep == ASSUME RunInv, NEW t \in Threads, LoadArg(t) PROVE RunInv'
<1>1. RunAt(t, "arg") /\ UNCHANGED <<regs, arg, fn, call, recurse, beat>>
  BY DEF LoadArg, rest
<1> DEFINE s == runs[t]
           g == [s[1] EXCEPT !.at = "callback", !.arg = arg]
           r == [s EXCEPT ![1] = g]
<1>2. /\ s \in RunStacks /\ s # <<>> /\ Len(s) = 1
      /\ s[1] \in Running /\ s[1].at = "arg" /\ Fresh(s[1])
  BY <1>1, RunFacts
<1>3. /\ beat[t] = begun[t] + 1 /\ recurse[t] /\ arg \in Nat /\ arg = regs
      /\ begun \in [Threads -> Nat]
  BY <1>2 DEF RunInv, Guards, Ticking
<1>4. g \in Running /\ g.at = "callback" /\ g.fn = s[1].fn /\ g.arg = arg
  BY <1>2, <1>3 DEF Running
<1>5. runs' = [runs EXCEPT ![t] = r] /\ begun' = [begun EXCEPT ![t] = @ + 1]
  <2>1. /\ runs' = [runs EXCEPT ![t][1].at = "callback", ![t][1].arg = arg]
        /\ begun' = [begun EXCEPT ![t] = @ + 1]
    BY DEF LoadArg
  <2>2. runs \in [Threads -> RunStacks]
    BY DEF RunInv
  <2> QED BY <2>1, <2>2
<1> HIDE DEF g
<1>6. r \in RunStacks /\ Len(r) = 1 /\ r[1] = g
  <2> HIDE DEF s
  <2>1. Len(s) # 2
    BY <1>2
  <2> QED BY <1>2, <1>4, <2>1, RunMoved
<1> HIDE DEF r
<1>7. Guards(r) /\ ~Ticking(r)
  BY <1>4, <1>6 DEF Guards, Ticking
<1>8. Fresh(g)
  BY <1>2, <1>3, <1>4 DEF Fresh
<1>9. \A i \in 1..Len(r) : Fresh(r[i])
  BY <1>6, <1>8
<1>10. /\ begun' \in [Threads -> Nat] /\ begun'[t] = begun[t] + 1
       /\ \A u \in Threads : u # t => begun'[u] = begun[u]
  BY <1>3, <1>5
<1>11. /\ recurse'[t] <=> Guards(r)
       /\ beat'[t] = begun'[t] + (IF Ticking(r) THEN 1 ELSE 0)
  BY <1>1, <1>3, <1>7, <1>10
<1> QED BY <1>1, <1>5, <1>6, <1>9, <1>10, <1>11, RunsMove DEF RunInv

LEMMA CallbackEndsStep == ASSUME RunInv, NEW t \in Threads, CallbackEnds(t) PROVE RunInv'
<1>1. /\ RunAt(t, "callback") /\ UNCHANGED <<regs, arg, fn, call, beat, begun>>
      /\ recurse' = [recurse EXCEPT ![t] = FALSE]
  BY DEF CallbackEnds, rest
<1> DEFINE s == runs[t]
           r == Tail(s)
<1>2. s \in RunStacks /\ s # <<>> /\ Len(s) = 1 /\ s[1].at = "callback"
  BY <1>1, RunFacts
<1>3. /\ r \in RunStacks /\ Len(r) = Len(s) - 1
      /\ Guards(r) <=> Len(s) = 2
      /\ ~Ticking(r)
  BY <1>2, RunTop
<1>4. runs' = [runs EXCEPT ![t] = r]
  BY DEF CallbackEnds, Leave
<1> HIDE DEF r
<1>5. Len(r) = 0 /\ ~Guards(r)
  BY <1>2, <1>3
<1>6. beat[t] = begun[t] /\ beat[t] \in Nat
  <2>1. ~Ticking(runs[t])
    BY <1>2 DEF Ticking
  <2>2. /\ beat[t] = begun[t] + (IF Ticking(runs[t]) THEN 1 ELSE 0)
        /\ beat[t] \in Nat /\ begun[t] \in Nat
    BY DEF RunInv
  <2> QED BY <2>1, <2>2
<1>7. /\ recurse' \in [Threads -> BOOLEAN] /\ recurse'[t] = FALSE
      /\ \A u \in Threads : u # t => recurse'[u] = recurse[u]
  BY <1>1 DEF RunInv
<1>8. /\ recurse'[t] <=> Guards(r)
      /\ beat'[t] = begun'[t] + (IF Ticking(r) THEN 1 ELSE 0)
      /\ \A i \in 1..Len(r) : Fresh(r[i])
  BY <1>1, <1>3, <1>5, <1>6, <1>7 DEF RunInv
<1> QED BY <1>1, <1>3, <1>4, <1>7, <1>8, RunsMove DEF RunInv

LEMMA CollectStep == ASSUME RunInv, NEW t \in Threads, Collect(t) PROVE RunInv'
<1> DEFINE s == runs[t]
           q == [at |-> "load", fn |-> 0, arg |-> 0]
           r == <<q>> \o s
<1>1. /\ UNCHANGED <<regs, arg, fn, call, recurse, beat, begun>>
      /\ runs' = [runs EXCEPT ![t] = r]
      /\ s = <<>> \/ InCallback(t)
  BY DEF Collect, MayCall, rest
<1>2. s \in RunStacks /\ \A i \in 1..Len(s) : Fresh(s[i])
  BY DEF RunInv
<1>3. Len(s) = 0 \/ s[1].at = "callback"
  <2>1. s = <<>> => Len(s) = 0
    OBVIOUS
  <2>2. s # <<>> => Head(s) = s[1]
    BY <1>2, RunTop
  <2> QED BY <1>1, <2>1, <2>2 DEF InCallback
<1>4. /\ r \in RunStacks
      /\ Guards(r) <=> Guards(s)
      /\ ~Ticking(r) /\ ~Ticking(s)
      /\ \A i \in 1..Len(r) : r[i] = q \/ \E j \in 1..Len(s) : r[i] = s[j]
  BY <1>2, <1>3, RunPushed
<1>5. Fresh(q)
  BY DEF Fresh
<1> HIDE DEF q, r
<1>6. \A i \in 1..Len(r) : Fresh(r[i])
  BY <1>2, <1>4, <1>5
<1>7. /\ recurse[t] <=> Guards(r)
      /\ beat[t] = begun[t] + (IF Ticking(r) THEN 1 ELSE 0)
  BY <1>4 DEF RunInv
<1> QED BY <1>1, <1>4, <1>6, <1>7, RunsMove DEF RunInv

\* A registration takes the next number with its first store: the argument is
\* never older than any function.
LEMMA RegisterStep ==
  ASSUME RunInv, NEW t \in Threads, NEW f \in {0, 1}, Register(t, f)
  PROVE  RunInv'
<1> USE DEF RunInv
<1> DEFINE k == [kind |-> "register", opt |-> f, val |-> regs + 1]
<1>1. /\ regs' = regs + 1 /\ arg' = regs + 1 /\ fn' = fn
      /\ call' = [call EXCEPT ![t] = k]
      /\ UNCHANGED <<recurse, beat, runs, begun>>
  BY DEF Register, RegStore
<1>2. k \in Call /\ k.opt = f /\ k.val = regs + 1
  BY DEF Call
<1> HIDE DEF k
<1>3. /\ call' \in [Threads -> Call] /\ call'[t] = k
      /\ \A u \in Threads : u # t => call'[u] = call[u]
  BY <1>1, <1>2
<1>4. regs' \in Nat /\ 1..regs \subseteq 1..regs' /\ regs + 1 \in 1..regs' /\ fn' \in 0..regs'
  BY <1>1
<1>5. \A r : Fresh(r) => Fresh(r)'
  BY <1>4 DEF Fresh
<1>6. ASSUME NEW u \in Threads
      PROVE  call'[u].kind = "register" => call'[u].opt \in {0, 1} /\ call'[u].val \in 1..regs'
  BY <1>2, <1>3, <1>4
<1>7. \A u \in Threads : \A i \in 1..Len(runs'[u]) : Fresh(runs[u][i])'
  <2>1. \A u \in Threads : \A i \in 1..Len(runs[u]) : Fresh(runs[u][i])
    OBVIOUS
  <2> QED BY <1>1, <1>4, <2>1 DEF Fresh
<1> QED BY <1>1, <1>3, <1>4, <1>6, <1>7

LEMMA RegisteredStep == ASSUME RunInv, NEW t \in Threads, Registered(t) PROVE RunInv'
<1> USE DEF RunInv
<1>1. /\ call[t].kind = "register" /\ fn' = call[t].val * call[t].opt /\ arg' = arg
      /\ call' = [call EXCEPT ![t] = NoCall]
      /\ UNCHANGED <<recurse, beat, runs, regs, begun>>
  BY DEF Registered, Served, RegStore, Return
<1>2. NoCall \in Call /\ NoCall.kind = "none"
  BY DEF NoCall, Call
<1>3. PICK f \in {0, 1}, n \in 1..regs : f = call[t].opt /\ n = call[t].val
  BY <1>1
<1>4. n * 0 = 0 /\ n * 1 = n /\ regs \in Nat
  OBVIOUS
<1>5. fn' \in 0..regs
  <2>1. CASE f = 0
    BY <1>1, <1>3, <1>4, <2>1
  <2>2. CASE f = 1
    BY <1>1, <1>3, <1>4, <2>2
  <2> QED BY <2>1, <2>2
<1>6. /\ call' \in [Threads -> Call]
      /\ \A u \in Threads : call'[u] = call[u] \/ call'[u] = NoCall
  BY <1>1, <1>2
<1>7. \A u \in Threads : call'[u].kind = "register" =>
        call'[u].opt \in {0, 1} /\ call'[u].val \in 1..regs'
  BY <1>1, <1>2, <1>6
<1>8. \A u \in Threads : \A i \in 1..Len(runs'[u]) : Fresh(runs[u][i])'
  BY <1>1 DEF Fresh
<1> QED BY <1>1, <1>5, <1>6, <1>7, <1>8

LEMMA RunStep == RunInv /\ [Next]_vars => RunInv'
<1> SUFFICES ASSUME RunInv, [Next]_vars PROVE RunInv'
  OBVIOUS
<1>0. call \in [Threads -> Call] /\ NoCall \in Call /\ NoCall.kind = "none"
  BY DEF RunInv, NoCall, Call
<1>1. CASE UNCHANGED vars
  BY <1>0, <1>1, QuietRuns DEF vars, deferred
<1>2. CASE Next
  <2>1. PICK t \in Threads : Start(t) \/ Step(t)
    BY <1>2 DEF Next
  <2>2. ASSUME \/ Load(t) \/ Cas(t) \/ Spin(t) \/ Publish(t)
               \/ InitKeys(t) \/ HeapAsksKeys(t) \/ InitHeap(t) \/ Seed(t) \/ current_tid(t)
        PROVE  RunInv'
    <3>1. call' = call /\ UNCHANGED deferred
      BY <2>2 DEF Load, Cas, Spin, Publish, InitKeys, HeapAsksKeys, InitHeap, Seed, current_tid
    <3> QED BY <1>0, <3>1, QuietRuns DEF deferred
  <2>3. ASSUME GetLoad(t) \/ SetStore(t) \/ NewTheap(t) PROVE RunInv'
    <3>1. call' = [call EXCEPT ![t] = NoCall] /\ UNCHANGED deferred
      BY <2>3 DEF GetLoad, SetStore, NewTheap, Return
    <3>2. /\ call' \in [Threads -> Call]
          /\ \A u \in Threads : call'[u] = call[u] \/ call'[u].kind # "register"
      BY <1>0, <3>1
    <3> QED BY <3>1, <3>2, QuietRuns DEF deferred
  <2>4. ASSUME NEW kind \in {"get", "set", "theap"}, NEW o \in Opts, NEW v \in Int, NEW asks,
               Begin(t, kind, o, v, asks)
        PROVE  RunInv'
    <3> DEFINE k == [kind |-> kind, opt |-> o, val |-> v]
    <3>1. call' = [call EXCEPT ![t] = k] /\ UNCHANGED deferred
      BY <2>4 DEF Begin
    <3>2. k \in Call /\ k.kind # "register"
      BY StartupAssumption DEF Call, Opts
    <3> HIDE DEF k
    <3>3. /\ call' \in [Threads -> Call]
          /\ \A u \in Threads : call'[u] = call[u] \/ call'[u].kind # "register"
      BY <1>0, <3>1, <3>2
    <3> QED BY <3>1, <3>3, QuietRuns DEF deferred
  <2>5. ASSUME \/ \E o \in Opts : get(t, o) \/ \E v \in NewValues : set(t, o, v)
               \/ thread_init(t) \/ process_init(t)
        PROVE  RunInv'
    <3>1. 1 \in Opts /\ \A v \in NewValues : v \in Int
      BY StartupAssumption DEF Opts
    <3> QED BY <2>4, <2>5, <3>1 DEF get, set, thread_init, process_init
  <2> QED BY <2>1, <2>2, <2>3, <2>5, LoadFnStep, ClaimFlagStep, LoadArgStep, CallbackEndsStep,
             CollectStep, RegisterStep, RegisteredStep DEF Start, Step
<1> QED BY <1>1, <1>2

-----------------------------------------------------------------------------
LEMMA CellStep == CellInv /\ RunInv /\ [Next]_vars => CellInv'
<1> SUFFICES ASSUME CellInv, RunInv, [Next]_vars PROVE CellInv'
  OBVIOUS
<1>0. /\ call \in [Threads -> Call] /\ seen \in [Threads -> Seeds \cup {None}]
      /\ NoCall \in Call /\ NoCall.kind = "none"
  BY DEF CellInv, Typed, NoCall, Call
<1>1. CASE UNCHANGED vars
  BY <1>0, <1>1, QuietCells DEF vars, cells, ids
<1>2. CASE Next
  <2>1. PICK t \in Threads : Start(t) \/ Step(t)
    BY <1>2 DEF Next
  <2>2. ASSUME \/ current_tid(t) \/ Collect(t)
               \/ LoadFn(t) \/ ClaimFlag(t) \/ LoadArg(t) \/ CallbackEnds(t)
        PROVE  CellInv'
    <3>1. UNCHANGED <<state, keys, heapKeys, values, theap, frames, last, call, seen>>
      BY <2>2 DEF current_tid, Collect, LoadFn, ClaimFlag, LoadArg, CallbackEnds, rest,
                  cells, ids
    <3> QED BY <1>0, <3>1, QuietCells
  <2>3. ASSUME NEW f \in {0, 1}, Register(t, f) PROVE CellInv'
    <3> DEFINE k == [kind |-> "register", opt |-> f, val |-> regs + 1]
    <3>1. /\ UNCHANGED <<state, keys, heapKeys, values, theap, frames, last, seen>>
          /\ call[t] = NoCall /\ call' = [call EXCEPT ![t] = k]
      BY <2>3 DEF Register, MayCall, cells, ids
    <3>2. k \in Call /\ k.kind = "register"
      BY DEF Call, RunInv
    <3> HIDE DEF k
    <3>3. frames[t] = <<>>
      BY <1>0, <3>1 DEF CellInv, CallsWait
    <3>4. /\ call' \in [Threads -> Call] /\ call'[t] = k
          /\ \A u \in Threads : u # t => call'[u] = call[u]
      BY <1>0, <3>1, <3>2
    <3> QED BY <1>0, <3>1, <3>2, <3>3, <3>4, QuietCells
  <2>4. ASSUME Registered(t) PROVE CellInv'
    <3>1. /\ UNCHANGED <<state, keys, heapKeys, values, theap, frames, last, seen>>
          /\ frames[t] = <<>> /\ call' = [call EXCEPT ![t] = NoCall]
      BY <2>4 DEF Registered, Served, Return, cells, ids
    <3>2. /\ call' \in [Threads -> Call] /\ call'[t] = NoCall
          /\ \A u \in Threads : u # t => call'[u] = call[u]
      BY <1>0, <3>1
    <3> QED BY <1>0, <3>1, <3>2, QuietCells
  <2> QED BY <2>1, <2>2, <2>3, <2>4, CallStep, LoadStep, CasStep, SpinStep, PublishStep,
             InitKeysStep, HeapAsksKeysStep, InitHeapStep, SeedStep, GetLoadStep, SetStoreStep,
             NewTheapStep DEF Start, Step
<1> QED BY <1>1, <1>2

LEMMA IdsStep == IdsInv /\ [Next]_vars => IdsInv'
<1> SUFFICES ASSUME IdsInv, [Next]_vars PROVE IdsInv'
  OBVIOUS
<1>1. CASE \E t \in Threads : current_tid(t)
  <2>1. PICK t \in Threads : next' = next + 1 /\ tid' = [tid EXCEPT ![t] = next * 4]
    BY <1>1 DEF current_tid
  <2> USE DEF IdsInv
  <2>2. next \in Nat /\ next >= 2 /\ next' \in Nat /\ next' >= 2 /\ next * 4 \in Nat
    BY <2>1
  <2>3. /\ tid' \in [Threads -> Nat] /\ tid'[t] = next * 4
        /\ \A u \in Threads : u # t => tid'[u] = tid[u]
    BY <2>1, <2>2
  <2>4. \A u \in Threads : tid[u] # next * 4
    BY <2>2
  <2>5. ASSUME NEW u \in Threads, tid'[u] # 0
        PROVE  \E n \in 2..(next' - 1) : tid'[u] = n * 4
    <3>1. CASE u = t
      BY <2>1, <2>2, <2>3, <3>1
    <3>2. CASE u # t
      <4>1. PICK n \in 2..(next - 1) : tid[u] = n * 4
        BY <2>3, <2>5, <3>2
      <4>2. n \in 2..(next' - 1)
        BY <2>1, <2>2
      <4> QED BY <2>3, <3>2, <4>1, <4>2
    <3> QED BY <3>1, <3>2
  <2>6. ASSUME NEW u \in Threads, NEW v \in Threads, tid'[u] # 0, tid'[v] = tid'[u]
        PROVE  v = u
    BY <2>3, <2>4, <2>6
  <2> QED BY <2>2, <2>3, <2>5, <2>6
<1>2. CASE UNCHANGED <<next, tid>>
  BY <1>2 DEF IdsInv
<1>3. CASE UNCHANGED vars
  BY <1>2, <1>3 DEF vars, ids
<1>4. CASE Next /\ ~\E t \in Threads : current_tid(t)
  <2>1. PICK t \in Threads : Start(t) \/ Step(t)
    BY <1>4 DEF Next
  <2>2. ASSUME Start(t) PROVE UNCHANGED <<next, tid>>
    BY <2>2 DEF Start, get, set, thread_init, process_init, Begin, Register, Collect, rest, ids
  <2>3. ASSUME Step(t), ~current_tid(t) PROVE UNCHANGED <<next, tid>>
    BY <2>3 DEF Step, Load, Cas, Spin, Publish, InitKeys, HeapAsksKeys, InitHeap, Seed, GetLoad,
                SetStore, NewTheap, Registered, LoadFn, ClaimFlag, LoadArg, CallbackEnds, rest, ids
  <2> QED BY <1>2, <1>4, <2>1, <2>2, <2>3
<1> QED BY <1>1, <1>3, <1>4

LEMMA StartupInvariant == Spec => [](CellInv /\ RunInv /\ IdsInv)
<1>1. Init => CellInv /\ RunInv /\ IdsInv
  <2>1. Init => IdsInv
    BY DEF Init, IdsInv, FirstThread
  <2> QED BY <2>1, CellInit, RunInit
<1>2. CellInv /\ RunInv /\ IdsInv /\ [Next]_vars => (CellInv /\ RunInv /\ IdsInv)'
  BY CellStep, RunStep, IdsStep
<1> QED BY <1>1, <1>2, PTL DEF Spec

-----------------------------------------------------------------------------
\* However many threads make their first call at once, whichever wins each
\* once cell: the default heap and every theap work with the keys of the keys
\* cell, and thread ids are distinct, leave the flag bits clear and lie above
\* the stamps of abandoned pages.
THEOREM StartStaysSound == Spec => []StartIsSound
<1>1. CellInv /\ RunInv /\ IdsInv => StartIsSound
  <2> SUFFICES ASSUME CellInv, RunInv, IdsInv PROVE StartIsSound
    OBVIOUS
  <2>1. ASSUME NEW t \in Threads
        PROVE  /\ call[t] \in Call
               /\ \A i \in DOMAIN frames[t] : frames[t][i] \in Frame
               /\ \A i \in DOMAIN runs[t] : runs[t][i] \in Running
               /\ Len(frames[t]) <= 2 /\ Len(runs[t]) <= 2
    <3>1. call[t] \in Call /\ frames[t] \in Stacks /\ runs[t] \in RunStacks
      BY DEF CellInv, Typed, RunInv
    <3>2. /\ frames[t] \in Seq(Frame) /\ Len(frames[t]) <= 2
          /\ runs[t] \in Seq(Running) /\ Len(runs[t]) <= 2
      BY <3>1 DEF Stacks, RunStacks
    <3>3. (\A i \in DOMAIN frames[t] : frames[t][i] \in Frame)
      BY <3>2, LenProperties, ElementOfSeq
    <3>4. (\A i \in DOMAIN runs[t] : runs[t][i] \in Running)
      BY <3>2, LenProperties, ElementOfSeq
    <3> QED BY <3>1, <3>2, <3>3, <3>4
  <2>2. TypeOK
    <3>1. arg \in 0..regs /\ fn \in 0..regs
      BY DEF RunInv
    <3> QED BY <2>1, <3>1 DEF TypeOK, CellInv, Typed, RunInv, IdsInv
  <2>3. KeysAgree
    BY DEF KeysAgree, CellInv, Published
  <2>4. TidsAreUsable
    <3> SUFFICES ASSUME NEW t \in Threads, tid[t] # 0
                 PROVE  /\ tid[t] % 4 = 0 /\ tid[t] > 4
                        /\ \A u \in Threads : tid[u] = tid[t] => u = t
      BY DEF TidsAreUsable
    <3>1. PICK n \in 2..(next - 1) : tid[t] = n * 4
      BY DEF IdsInv
    <3>2. n \in Nat /\ n >= 2
      BY <3>1 DEF IdsInv
    <3>3. (n * 4) % 4 = 0 /\ n * 4 > 4
      BY <3>2
    <3> QED BY <3>1, <3>3 DEF IdsInv
  <2> QED BY <2>2, <2>3, <2>4 DEF StartIsSound
<1> QED BY <1>1, StartupInvariant, PTL

\* The options are seeded by one thread before any is read, and no seeding
\* overwrites what the program set.
THEOREM OptionsStaySeeded == Spec => []OptionsAreSeeded
<1>1. CellInv => OptionsAreSeeded
  BY DEF CellInv, Typed, Published, OptionsAreSeeded, SetIsNotLost, GetIsSeeded, Seeds
<1> QED BY <1>1, StartupInvariant, PTL

\* Whatever registrations race with a run of the callback, it is called with
\* the argument of its own registration or of a later one.
THEOREM ArgumentsAreFresh == Spec => []NoStaleArgument
<1>1. RunInv => NoStaleArgument
  <2> SUFFICES ASSUME RunInv, NEW t \in Threads, InCallback(t)
               PROVE  Head(runs[t]).fn # 0 /\ Head(runs[t]).arg >= Head(runs[t]).fn
    BY DEF NoStaleArgument
  <2>1. runs[t] \in RunStacks /\ runs[t] # <<>> /\ Head(runs[t]).at = "callback"
    BY DEF RunInv, InCallback
  <2>2. Head(runs[t]) = runs[t][1] /\ (Len(runs[t]) = 1 \/ Len(runs[t]) = 2)
    BY <2>1, RunTop
  <2>3. 1 \in 1..Len(runs[t])
    BY <2>2
  <2>4. Fresh(runs[t][1])
    BY <2>3 DEF RunInv
  <2> QED BY <2>1, <2>2, <2>4 DEF Fresh, RunInv
<1> QED BY <1>1, StartupInvariant, PTL

\* The callback never runs inside itself on a thread, however deep it
\* collects; the flag is set exactly while it runs, and every tick of the
\* heartbeat is one call of the callback.
THEOREM CallbackIsGuarded == Spec => []RecursionGuard
<1>1. RunInv => RecursionGuard
  <2> SUFFICES ASSUME RunInv, NEW t \in Threads
               PROVE  /\ Cardinality(Guarded(t)) <= 1
                      /\ recurse[t] <=> Guarded(t) # {}
                      /\ beat[t] = begun[t] + Cardinality({i \in Guarded(t) : runs[t][i].at = "arg"})
    BY DEF RecursionGuard
  <2> DEFINE s == runs[t]
             A == {i \in Guarded(t) : s[i].at = "arg"}
  <2>1. s \in RunStacks /\ s \in Seq(Running) /\ Len(s) \in Nat /\ DOMAIN s = 1..Len(s)
    BY DEF RunInv, RunStacks
  <2>2. /\ recurse[t] <=> Guards(s)
        /\ beat[t] = begun[t] + (IF Ticking(s) THEN 1 ELSE 0)
        /\ recurse[t] \in BOOLEAN /\ beat[t] \in Nat /\ begun[t] \in Nat
    BY DEF RunInv
  <2>3. Guarded(t) = {i \in 1..Len(s) : s[i].at \in {"arg", "callback"}}
    BY <2>1 DEF Guarded
  <2>4. /\ Cardinality({}) = 0 /\ \A x : Cardinality({x}) = 1
    BY FS_EmptySet, FS_Singleton
  <2> HIDE DEF A, s
  <2> SUFFICES /\ Cardinality(Guarded(t)) = 0 \/ Cardinality(Guarded(t)) = 1
               /\ Guarded(t) # {} <=> Guards(s)
               /\ Cardinality(A) = IF Ticking(s) THEN 1 ELSE 0
    <3> PICK c : c = Cardinality(Guarded(t))
      OBVIOUS
    <3>1. c = 0 \/ c = 1 => c <= 1
      OBVIOUS
    <3>2. Cardinality(Guarded(t)) <= 1
      BY <3>1, Zenon
    <3>3. recurse[t] <=> Guarded(t) # {}
      BY <2>2, Zenon
    <3>4. beat[t] = begun[t] + Cardinality(A)
      BY <2>2, Zenon
    <3> QED BY <3>2, <3>3, <3>4 DEF A, s
  <2>5. CASE Len(s) = 0
    <3>1. Guarded(t) = {} /\ A = {} /\ ~Guards(s) /\ ~Ticking(s)
      BY <2>3, <2>5 DEF Guards, Ticking, A
    <3> QED BY <2>4, <3>1, Zenon
  <2>6. CASE Len(s) = 1
    <3>1. CASE s[1].at \notin {"arg", "callback"}
      <4>1. Guarded(t) = {} /\ A = {} /\ ~Guards(s) /\ ~Ticking(s)
        BY <2>3, <2>6, <3>1 DEF Guards, Ticking, A
      <4> QED BY <2>4, <4>1, Zenon
    <3>2. CASE s[1].at = "arg"
      <4>1. Guarded(t) = {1} /\ A = {1} /\ Guards(s) /\ Ticking(s)
        BY <2>3, <2>6, <3>2 DEF Guards, Ticking, A
      <4>2. {1} # {}
        BY Zenon
      <4>3. /\ Cardinality(Guarded(t)) = 1 /\ (Guarded(t) # {} <=> Guards(s))
            /\ Cardinality(A) = IF Ticking(s) THEN 1 ELSE 0
        BY <2>4, <4>1, <4>2, Zenon
      <4> QED BY <4>1, <4>3, Zenon
    <3>3. CASE s[1].at = "callback"
      <4>1. Guarded(t) = {1} /\ A = {} /\ Guards(s) /\ ~Ticking(s)
        BY <2>3, <2>6, <3>3 DEF Guards, Ticking, A
      <4>2. {1} # {}
        BY Zenon
      <4>3. /\ Cardinality(Guarded(t)) = 1 /\ (Guarded(t) # {} <=> Guards(s))
            /\ Cardinality(A) = IF Ticking(s) THEN 1 ELSE 0
        BY <2>4, <4>1, <4>2, Zenon
      <4> QED BY <4>1, <4>3, Zenon
    <3> QED BY <3>1, <3>2, <3>3
  <2>7. CASE Len(s) = 2
    <3>1. s[1].at \in {"load", "claim"} /\ s[2].at = "callback"
      BY <2>1, <2>7 DEF RunStacks
    <3>2. Guarded(t) = {2} /\ A = {} /\ Guards(s) /\ ~Ticking(s)
      BY <2>3, <2>7, <3>1 DEF Guards, Ticking, A
    <3>3. {2} # {}
      BY Zenon
    <3>4. /\ Cardinality(Guarded(t)) = 1 /\ (Guarded(t) # {} <=> Guards(s))
            /\ Cardinality(A) = IF Ticking(s) THEN 1 ELSE 0
      BY <2>4, <3>2, <3>3, Zenon
    <3> QED BY <3>2, <3>4, Zenon
  <2>8. Len(s) = 0 \/ Len(s) = 1 \/ Len(s) = 2
    <3>1. PICK n : n = Len(s)
      OBVIOUS
    <3>2. Len(s) \in Nat /\ Len(s) <= 2
      BY <2>1, Zenon DEF RunStacks
    <3>3. n \in Nat /\ n <= 2
      BY <3>1, <3>2, Zenon
    <3>4. n = 0 \/ n = 1 \/ n = 2
      BY <3>3
    <3> QED BY <3>1, <3>4, Zenon
  <2> QED BY <2>5, <2>6, <2>7, <2>8
<1> QED BY <1>1, StartupInvariant, PTL
=============================================================================
