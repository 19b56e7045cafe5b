------------------------------ MODULE Startup ------------------------------
(***************************************************************************)
(* How the process-wide state of mimalloc-rs comes up on first use, and    *)
(* the deferred-free callback: the once cells behind the keys, the default *)
(* heap and the options (src/src/sync.rs, OnceBox), the options seeded     *)
(* from the environment (src/src/options.rs), thread ids and default       *)
(* theaps, registration and running of the callback (src/src/init.rs).     *)
(*                                                                         *)
(* Nothing is initialized ahead: any number of threads make their first    *)
(* call at the same time, and one initializer runs inside another (the     *)
(* default heap asks for the keys).  frames[t] is the stack of cells that  *)
(* thread t is waiting for or initializing; runs[t] the nested calls of    *)
(* run_deferred_free, for a callback may allocate, read options, register  *)
(* and collect again.  One action is one access to a shared word.          *)
(***************************************************************************)
EXTENDS Integers, Sequences, FiniteSets

CONSTANTS
  Threads,    \* the threads of the process
  NOpts,      \* the options, seeded in this order (OPT_COUNT)
  Env,        \* what the environment says of each of them
  NewValues,  \* values the program sets options to
  KeyValues,  \* the keys the random source may deliver, the fallback included
  MaxCalls,   \* bound: calls in all
  None        \* a null pointer, a thread without theap

Opts == 1..NOpts
Cells == {"keys", "heap", "opts"}
\* an environment variable: unset or empty; a number; digits that overflow
\* or a lone minus sign; a word that begins with y or t; another word
EnvKinds == {"unset", "number", "garbled", "yes", "other"}

ASSUME StartupAssumption ==
  /\ NOpts \in Nat \ {0} /\ MaxCalls \in Nat
  /\ NewValues \subseteq Int
  /\ Env \in [Opts -> [kind : EnvKinds, value : Int, default : Int]]
  /\ KeyValues # {} /\ None \notin KeyValues

VARIABLES
  state,    \* the state word of each once cell
  keys,     \* the value in the keys cell
  heapKeys, \* the keys the default heap was made with
  values,   \* options VALUES
  next,     \* current_tid NEXT, the next thread number
  tid,      \* TID of each thread, 0 before its first use
  theap,    \* the keys in the default theap of each thread, or None
  fn,       \* DEFERRED_FN: the number of its registration, 0 = none
  arg,      \* DEFERRED_ARG: the number of its registration
  recurse,  \* DeferredState::recurse of each thread
  beat,     \* DeferredState::heartbeat of each thread
  call,     \* the call each thread is in
  frames,   \* the once cells it is waiting for, innermost first
  runs,     \* its nested runs of run_deferred_free, innermost first
  calls,    \* calls so far
  regs,     \* registrations so far
  last,     \* history: the value an option was last set to, or None
  seen,     \* history: the value the last get of a thread returned, or None
  begun     \* history: callbacks begun by each thread

cells == <<state, keys, heapKeys>>
ids == <<next, tid, theap>>
deferred == <<fn, arg, recurse, beat, runs, regs, begun>>
vars == <<cells, values, ids, deferred, call, frames, calls, last, seen>>

NoCall == [kind |-> "none", opt |-> 1, val |-> 0]
Call == [kind : {"none", "get", "set", "theap", "register"}, opt : Nat,
         val : Int]
Frame == [cell : Cells, at : {"load", "cas", "spin", "init", "publish"},
          i : 1..(NOpts + 1)]
Running == [at : {"load", "claim", "arg", "callback"}, fn : Nat, arg : Nat]

TypeOK ==
  /\ state \in [Cells -> {"uninit", "initializing", "ready"}]
  /\ keys \in KeyValues \cup {None} /\ heapKeys \in KeyValues \cup {None}
  /\ values \in [Opts -> Int]
  /\ next \in Nat /\ tid \in [Threads -> Nat]
  /\ theap \in [Threads -> KeyValues \cup {None}]
  /\ fn \in 0..regs /\ arg \in 0..regs
  /\ recurse \in [Threads -> BOOLEAN] /\ beat \in [Threads -> Nat]
  /\ \A t \in Threads :
       /\ call[t] \in Call
       /\ \A i \in DOMAIN frames[t] : frames[t][i] \in Frame
       /\ \A i \in DOMAIN runs[t] : runs[t][i] \in Running
       /\ Len(frames[t]) <= 2 /\ Len(runs[t]) <= 2

FirstThread == 2

Init ==
  /\ state = [c \in Cells |-> "uninit"]
  /\ keys = None /\ heapKeys = None
  /\ values = [o \in Opts |-> 0]
  /\ next = FirstThread /\ tid = [t \in Threads |-> 0]
  /\ theap = [t \in Threads |-> None]
  /\ fn = 0 /\ arg = 0
  /\ recurse = [t \in Threads |-> FALSE] /\ beat = [t \in Threads |-> 0]
  /\ call = [t \in Threads |-> NoCall]
  /\ frames = [t \in Threads |-> <<>>] /\ runs = [t \in Threads |-> <<>>]
  /\ calls = 0 /\ regs = 0
  /\ last = [o \in Opts |-> None] /\ seen = [t \in Threads |-> None]
  /\ begun = [t \in Threads |-> 0]

-----------------------------------------------------------------------------
(***************************************************************************)
(* OnceBox::get_or_init for the innermost cell that t asks for.            *)
(***************************************************************************)
Ask(c) == <<[cell |-> c, at |-> "load", i |-> 1]>>
At(t, where) == frames[t] # <<>> /\ Head(frames[t]).at = where
Cell(t) == Head(frames[t]).cell
MoveTo(t, where) == frames' = [frames EXCEPT ![t][1].at = where]
Pop(t) == frames' = [frames EXCEPT ![t] = Tail(@)]

\* the fast path: the value is used if the state is READY
Load(t) ==
  /\ At(t, "load")
  /\ IF state[Cell(t)] = "ready" THEN Pop(t) ELSE MoveTo(t, "cas")
  /\ UNCHANGED <<cells, values, ids, deferred, call, calls, last, seen>>

\* mutant: whoever finds the cell not ready initializes it
Cas_Unconditional(t) ==
  /\ At(t, "cas")
  /\ state' = [state EXCEPT ![Cell(t)] = "initializing"]
  /\ MoveTo(t, "init")
  /\ UNCHANGED <<keys, heapKeys, values, ids, deferred, call, calls, last,
                 seen>>

\* init_slow: one thread wins the cell, the others wait
Cas(t) ==
  /\ At(t, "cas")
  /\ IF state[Cell(t)] = "uninit"
     THEN /\ state' = [state EXCEPT ![Cell(t)] = "initializing"]
          /\ MoveTo(t, "init")
     ELSE MoveTo(t, "spin") /\ UNCHANGED state
  /\ UNCHANGED <<keys, heapKeys, values, ids, deferred, call, calls, last,
                 seen>>

Spin(t) ==
  /\ At(t, "spin")
  /\ state[Cell(t)] = "ready"
  /\ Pop(t)
  /\ UNCHANGED <<cells, values, ids, deferred, call, calls, last, seen>>

Publish(t) ==
  /\ At(t, "publish")
  /\ state' = [state EXCEPT ![Cell(t)] = "ready"]
  /\ Pop(t)
  /\ UNCHANGED <<keys, heapKeys, values, ids, deferred, call, calls, last,
                 seen>>

-----------------------------------------------------------------------------
(***************************************************************************)
(* The initializers.                                                       *)
(***************************************************************************)
\* mutant: the keys ask for the default heap, which asks for the keys
InitKeys_NeedsHeap(t) ==
  /\ At(t, "init") /\ Cell(t) = "keys"
  /\ IF state["heap"] = "ready"
     THEN keys' \in KeyValues /\ MoveTo(t, "publish")
     ELSE /\ frames' = [frames EXCEPT ![t] = Ask("heap") \o @]
          /\ UNCHANGED keys
  /\ UNCHANGED <<state, heapKeys, values, ids, deferred, call, calls, last,
                 seen>>

\* process_keys: random, or a constant if the OS has no random source
InitKeys(t) ==
  /\ At(t, "init") /\ Cell(t) = "keys"
  /\ keys' \in KeyValues
  /\ MoveTo(t, "publish")
  /\ UNCHANGED <<state, heapKeys, values, ids, deferred, call, calls, last,
                 seen>>

\* default_heap asks for the keys first and then takes them over
HeapAsksKeys(t) ==
  /\ At(t, "init") /\ Cell(t) = "heap" /\ Head(frames[t]).i = 1
  /\ frames' = [frames EXCEPT ![t] =
                  Ask("keys") \o <<[Head(@) EXCEPT !.i = 2]>> \o Tail(@)]
  /\ UNCHANGED <<cells, values, ids, deferred, call, calls, last, seen>>

InitHeap(t) ==
  /\ At(t, "init") /\ Cell(t) = "heap" /\ Head(frames[t]).i = 2
  /\ heapKeys' = keys
  /\ MoveTo(t, "publish")
  /\ UNCHANGED <<state, keys, values, ids, deferred, call, calls, last, seen>>

\* env_value
EnvValue(o) ==
  CASE Env[o].kind \in {"unset", "garbled"} -> Env[o].default
    [] Env[o].kind = "number" -> Env[o].value
    [] Env[o].kind = "yes" -> 1
    [] OTHER -> 0

\* ensure_init: the options are seeded one after the other
Seed(t) ==
  /\ At(t, "init") /\ Cell(t) = "opts"
  /\ LET o == Head(frames[t]).i IN
       \/ /\ o \in Opts
          /\ values' = [values EXCEPT ![o] = EnvValue(o)]
          /\ frames' = [frames EXCEPT ![t][1].i = o + 1]
       \/ /\ o \notin Opts
          /\ MoveTo(t, "publish")
          /\ UNCHANGED values
  /\ UNCHANGED <<cells, ids, deferred, call, calls, last, seen>>

-----------------------------------------------------------------------------
(***************************************************************************)
(* The calls.  A thread may begin one when it is in none, or from within   *)
(* its deferred-free callback.                                             *)
(***************************************************************************)
InCallback(t) == runs[t] # <<>> /\ Head(runs[t]).at = "callback"
MayCall(t) == /\ calls < MaxCalls
              /\ call[t] = NoCall
              /\ runs[t] = <<>> \/ InCallback(t)

Begin(t, kind, o, v, asks) ==
  /\ MayCall(t)
  /\ calls' = calls + 1
  /\ call' = [call EXCEPT ![t] = [kind |-> kind, opt |-> o, val |-> v]]
  /\ frames' = [frames EXCEPT ![t] = asks]
  /\ UNCHANGED <<cells, values, ids, deferred, last, seen>>

Return(t) == call' = [call EXCEPT ![t] = NoCall]
Served(t, kind) == call[t].kind = kind /\ frames[t] = <<>>

get(t, o) == Begin(t, "get", o, 0, Ask("opts"))

GetLoad(t) ==
  /\ Served(t, "get")
  /\ seen' = [seen EXCEPT ![t] = values[call[t].opt]]
  /\ Return(t)
  /\ UNCHANGED <<cells, values, ids, deferred, frames, calls, last>>

\* mutant: the new value is stored whether the options were seeded or not
set_Unseeded(t, o, v) == Begin(t, "set", o, v, <<>>)
set(t, o, v) == Begin(t, "set", o, v, Ask("opts"))

SetStore(t) ==
  /\ Served(t, "set")
  /\ values' = [values EXCEPT ![call[t].opt] = call[t].val]
  /\ last' = [last EXCEPT ![call[t].opt] = call[t].val]
  /\ Return(t)
  /\ UNCHANGED <<cells, ids, deferred, frames, calls, seen>>

\* malloc, thread_init and process_init: the default theap is made when the
\* thread has none; process_init asks for the keys first
thread_init(t) ==
  theap[t] = None /\ Begin(t, "theap", 1, 0, Ask("heap"))
process_init(t) ==
  theap[t] = None /\ Begin(t, "theap", 1, 0, Ask("keys") \o Ask("heap"))

\* current_tid: minted once, shifted past the flag bits
current_tid(t) ==
  /\ Served(t, "theap") /\ tid[t] = 0
  /\ next' = next + 1
  /\ tid' = [tid EXCEPT ![t] = next * 4]
  /\ UNCHANGED <<cells, values, theap, deferred, call, frames, calls, last,
                 seen>>

\* ThreadHeap::new caches the keys of the default heap
NewTheap(t) ==
  /\ Served(t, "theap") /\ tid[t] # 0
  /\ theap' = [theap EXCEPT ![t] = heapKeys]
  /\ Return(t)
  /\ UNCHANGED <<cells, values, next, tid, deferred, frames, calls, last, seen>>

-----------------------------------------------------------------------------
(***************************************************************************)
(* register_deferred_free stores the argument, then the function; a        *)
(* registration is known by its number.                                    *)
(***************************************************************************)
\* mutant: the function first
RegStore_FnFirst(nth, n, f) ==
  \/ nth = 1 /\ fn' = n * f /\ UNCHANGED arg
  \/ nth = 2 /\ arg' = n /\ UNCHANGED fn

\* the two stores of registration n; f is 1 for a function, 0 to clear it
RegStore(nth, n, f) ==
  \/ nth = 1 /\ arg' = n /\ UNCHANGED fn
  \/ nth = 2 /\ fn' = n * f /\ UNCHANGED arg

Register(t, f) ==
  /\ MayCall(t)
  /\ calls' = calls + 1 /\ regs' = regs + 1
  /\ RegStore(1, regs + 1, f)
  /\ call' = [call EXCEPT ![t] = [kind |-> "register", opt |-> f,
                                  val |-> regs + 1]]
  /\ UNCHANGED <<cells, values, ids, recurse, beat, runs, begun, frames, last,
                 seen>>

Registered(t) ==
  /\ Served(t, "register")
  /\ RegStore(2, call[t].val, call[t].opt)
  /\ Return(t)
  /\ UNCHANGED <<cells, values, ids, recurse, beat, runs, regs, begun, frames,
                 calls, last, seen>>

(***************************************************************************)
(* run_deferred_free, the first thing a collect does.                      *)
(***************************************************************************)
RunAt(t, where) == /\ call[t] = NoCall /\ runs[t] # <<>>
                   /\ Head(runs[t]).at = where
Leave(t) == runs' = [runs EXCEPT ![t] = Tail(@)]
rest == <<cells, values, ids, call, frames, last, seen>>

Collect(t) ==
  /\ MayCall(t) /\ theap[t] # None
  /\ calls' = calls + 1
  /\ runs' = [runs EXCEPT ![t] = <<[at |-> "load", fn |-> 0, arg |-> 0]>> \o @]
  /\ UNCHANGED <<rest, fn, arg, recurse, beat, regs, begun>>

LoadFn(t) ==
  /\ RunAt(t, "load")
  /\ IF fn = 0 THEN Leave(t)
     ELSE runs' = [runs EXCEPT ![t][1].at = "claim", ![t][1].fn = fn]
  /\ UNCHANGED <<rest, calls, fn, arg, recurse, beat, regs, begun>>

\* a recursing thread skips the callback; otherwise it takes a tick
ClaimFlag(t) ==
  /\ RunAt(t, "claim")
  /\ IF recurse[t]
     THEN Leave(t) /\ UNCHANGED <<recurse, beat>>
     ELSE /\ runs' = [runs EXCEPT ![t][1].at = "arg"]
          /\ recurse' = [recurse EXCEPT ![t] = TRUE]
          /\ beat' = [beat EXCEPT ![t] = @ + 1]
  /\ UNCHANGED <<rest, calls, fn, arg, regs, begun>>

LoadArg(t) ==
  /\ RunAt(t, "arg")
  /\ runs' = [runs EXCEPT ![t][1].at = "callback", ![t][1].arg = arg]
  /\ begun' = [begun EXCEPT ![t] = @ + 1]
  /\ UNCHANGED <<rest, calls, fn, arg, recurse, beat, regs>>

\* mutant: the flag stays set when the callback unwinds
CallbackEnds_KeepsFlag(t) ==
  /\ RunAt(t, "callback")
  /\ Leave(t)
  /\ UNCHANGED <<rest, calls, fn, arg, recurse, beat, regs, begun>>

\* the callback returns or unwinds; the guard clears the flag either way
CallbackEnds(t) ==
  /\ RunAt(t, "callback")
  /\ recurse' = [recurse EXCEPT ![t] = FALSE]
  /\ Leave(t)
  /\ UNCHANGED <<rest, calls, fn, arg, beat, regs, begun>>

-----------------------------------------------------------------------------
Step(t) ==
  \/ Load(t) \/ Cas(t) \/ Spin(t) \/ Publish(t)
  \/ InitKeys(t) \/ HeapAsksKeys(t) \/ InitHeap(t) \/ Seed(t)
  \/ GetLoad(t) \/ SetStore(t) \/ current_tid(t) \/ NewTheap(t)
  \/ Registered(t)
  \/ LoadFn(t) \/ ClaimFlag(t) \/ LoadArg(t) \/ CallbackEnds(t)

Start(t) ==
  \/ \E o \in Opts : get(t, o) \/ \E v \in NewValues : set(t, o, v)
  \/ thread_init(t) \/ process_init(t)
  \/ \E f \in {0, 1} : Register(t, f)
  \/ Collect(t)

Next == \E t \in Threads : Start(t) \/ Step(t)

Spec == Init /\ [][Next]_vars

\* Threads that are in a call or a callback are scheduled, and callbacks
\* return.
Fairness == \A t \in Threads : WF_vars(Step(t))
FairSpec == Spec /\ Fairness

-----------------------------------------------------------------------------
(***************************************************************************)
(* Properties.                                                             *)
(***************************************************************************)

\* Every theap works with the same keys, those of the keys cell, however the
\* first calls race: a list link encoded by one thread is decoded by others.
KeysAgree == \A t \in Threads : theap[t] # None => theap[t] = keys

\* A value the program set is never overwritten by the seeding from the
\* environment, although both happen on first use and in different threads.
SetIsNotLost == \A o \in Opts : last[o] # None => values[o] = last[o]

\* Nobody gets an option before it is seeded: what get returns is the value
\* from the environment or one that was set.
GetIsSeeded ==
  \A t \in Threads : seen[t] # None =>
    seen[t] \in NewValues \cup {EnvValue(o) : o \in Opts}

\* Threads bear different ids that leave the flag bits clear and are above
\* the stamps of abandoned pages (0 and 4).
TidsAreUsable ==
  \A t \in Threads : tid[t] # 0 =>
    /\ tid[t] % 4 = 0 /\ tid[t] > 4
    /\ \A u \in Threads : tid[u] = tid[t] => u = t

\* The callback is called with the argument of its own registration or of a
\* later one, never with one that was registered before it.
NoStaleArgument ==
  \A t \in Threads : InCallback(t) =>
    Head(runs[t]).fn # 0 /\ Head(runs[t]).arg >= Head(runs[t]).fn

\* A callback that collects does not run inside itself, a skipped run takes
\* no heartbeat, and the flag is set exactly while a run is past the guard,
\* so that the next collect calls the callback again.
Guarded(t) == {i \in DOMAIN runs[t] : runs[t][i].at \in {"arg", "callback"}}
RecursionGuard ==
  \A t \in Threads :
    /\ Cardinality(Guarded(t)) <= 1
    /\ recurse[t] <=> Guarded(t) # {}
    /\ beat[t] = begun[t] + Cardinality({i \in Guarded(t) : runs[t][i].at = "arg"})

\* Every call returns: a thread that waits for a cell waits for one that is
\* at work, and the initializers never wait for each other in a circle.
CallsReturn ==
  \A t \in Threads : []<>(call[t] = NoCall /\ runs[t] = <<>>)

\* However the first calls of several threads race, all of them work with one
\* set of keys and with thread ids that cannot be taken for anything else.
StartIsSound == TypeOK /\ KeysAgree /\ TidsAreUsable

\* An option is seeded once, before anybody reads it, and the seeding never
\* undoes a set.
OptionsAreSeeded == SetIsNotLost /\ GetIsSeeded

=============================================================================
