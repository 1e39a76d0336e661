--------------------------- MODULE CallbackLocks ---------------------------
(***************************************************************************)
(* Threads that run the callbacks of TenProf and the locks they take on    *)
(* the way: the Python interpreter's lock, the lock the sanitizer holds    *)
(* per context, the mutex of the torch_view callbacks, the lock of each    *)
(* analysis and the locks of redshow's tables.                             *)
(*                                                                         *)
(* A callback is a sequence of instructions: it acquires and releases      *)
(* locks and uses shared data.  Module RedshowCallbacks has the sequences  *)
(* of the code.                                                            *)
(***************************************************************************)
EXTENDS Naturals, Sequences

CONSTANTS
  Threads,  \* application threads, autograd threads, analysis threads
  Program   \* callback -> its instructions

Locks == {"gil", "entry", "mtx", "view", "liveness", "snapshot", "submemory", "cubin",
          "cubin_cache"}
Data  == {"forest", "domain_name", "sizes"}

Instruction == [op : {"acquire", "release"}, on : Locks] \cup [op : {"use"}, on : Data]

Acquire(l) == [op |-> "acquire", on |-> l]
Release(l) == [op |-> "release", on |-> l]
Use(d)     == [op |-> "use", on |-> d]

Callbacks == DOMAIN Program
Idle == "idle"
Free == "free"

ASSUME ProgramAssumption ==
  /\ Idle \notin Callbacks
  /\ Free \notin Threads
  /\ \A c \in Callbacks : Program[c] \in Seq(Instruction)

VARIABLES
  owner,    \* the thread that holds each lock
  running,  \* the callback each thread is in
  pc        \* the instruction it is at

vars == <<owner, running, pc>>

TypeOK ==
  /\ owner \in [Locks -> Threads \cup {Free}]
  /\ running \in [Threads -> Callbacks \cup {Idle}]
  /\ pc \in [Threads -> Nat \ {0}]
  /\ \A t \in Threads : running[t] # Idle => pc[t] \in 1 .. Len(Program[running[t]]) + 1

Init ==
  /\ owner = [l \in Locks |-> Free]
  /\ running = [t \in Threads |-> Idle]
  /\ pc = [t \in Threads |-> 1]

\* The instruction thread t is at, and whether it is an op.
Instr(t) == Program[running[t]][pc[t]]

At(t, op) ==
  /\ running[t] # Idle
  /\ pc[t] <= Len(Program[running[t]])
  /\ Instr(t).op = op

Advance(t) == pc' = [pc EXCEPT ![t] = @ + 1] /\ UNCHANGED running

Begin(t, c) ==
  /\ running[t] = Idle
  /\ running' = [running EXCEPT ![t] = c]
  /\ pc' = [pc EXCEPT ![t] = 1]
  /\ UNCHANGED owner

DoAcquire(t) ==
  /\ At(t, "acquire")
  /\ owner[Instr(t).on] = Free
  /\ owner' = [owner EXCEPT ![Instr(t).on] = t]
  /\ Advance(t)

DoRelease(t) ==
  /\ At(t, "release")
  /\ owner' = [owner EXCEPT ![Instr(t).on] = Free]
  /\ Advance(t)

DoUse(t) ==
  /\ At(t, "use")
  /\ Advance(t)
  /\ UNCHANGED owner

Return(t) ==
  /\ running[t] # Idle
  /\ pc[t] > Len(Program[running[t]])
  /\ running' = [running EXCEPT ![t] = Idle]
  /\ pc' = [pc EXCEPT ![t] = 1]
  /\ UNCHANGED owner

Step(t) ==
  \/ \E c \in Callbacks : Begin(t, c)
  \/ DoAcquire(t)
  \/ DoRelease(t)
  \/ DoUse(t)
  \/ Return(t)

Next == \E t \in Threads : Step(t)

Spec == Init /\ [][Next]_vars

-----------------------------------------------------------------------------
(* Properties *)

(* No set of threads waits for locks that the same threads hold: every      *)
(* thread in a callback is able to finish it once the others let it.  This  *)
(* is what the comments "no cycle" in redshow.cpp and "avoids the           *)
(* entry->lock<->GIL deadlock" in torch_monitor.h promise.                  *)
WaitsWithin(t, S) == At(t, "acquire") /\ owner[Instr(t).on] \in S

NoWaitCycle ==
  \A S \in SUBSET Threads : S # {} => \E t \in S : ~ WaitsWithin(t, S)

\* No two threads are at a use of the same data.
Using(t, d) == At(t, "use") /\ Instr(t).on = d

Exclusive(d) == \A t, u \in Threads : Using(t, d) /\ Using(u, d) => t = u

(* The view forest, its roots and the snapshot of the inputs are used by    *)
(* one thread at a time: the callbacks of the framework, the sanitizer's    *)
(* launch callback and the kernel analysis all take mtx.                    *)
ForestExclusive == Exclusive("forest")

(* Between callbacks a thread holds nothing: every path through a callback  *)
(* releases what it acquired.                                               *)
NothingKept == \A t \in Threads : running[t] = Idle => \A l \in Locks : owner[l] # t

-----------------------------------------------------------------------------
(* The discipline behind them *)

\* The interpreter's lock comes first, then the sanitizer's, then the mutex of
\* the view callbacks; the others are innermost.
Rank(l) ==
  CASE l = "gil"   -> 1
    [] l = "entry" -> 2
    [] l = "mtx"   -> 3
    [] OTHER       -> 4

\* What a callback holds before its i-th instruction.
Held(c, i) ==
  {l \in Locks : \E j \in 1 .. i - 1 :
     /\ Program[c][j] = Acquire(l)
     /\ \A k \in j + 1 .. i - 1 : Program[c][k] # Release(l)}

Wants(c, i, x) == i <= Len(Program[c]) /\ Program[c][i] = x

\* Callback c takes its locks in the order of their ranks.
OrderedIn(c) ==
  \A i \in 1 .. Len(Program[c]), l \in Locks :
    Wants(c, i, Acquire(l)) => \A m \in Held(c, i) : Rank(m) < Rank(l)

\* Callback c uses d only while it holds g.
GuardedIn(c, d, g) ==
  \A i \in 1 .. Len(Program[c]) : Wants(c, i, Use(d)) => g \in Held(c, i)

\* Callback c releases only what it holds, and all of it before it returns.
BalancedIn(c) ==
  /\ Held(c, Len(Program[c]) + 1) = {}
  /\ \A i \in 1 .. Len(Program[c]), l \in Locks :
       Wants(c, i, Release(l)) => l \in Held(c, i)

Ordered       == \A c \in Callbacks : OrderedIn(c)
Balanced      == \A c \in Callbacks : BalancedIn(c)
Guarded(d, g) == \A c \in Callbacks : GuardedIn(c, d, g)

(* Every callback that is run takes its locks in the order of their ranks,  *)
(* releases all of them and touches the forest only under mtx: the rule     *)
(* stated at redshow_torchview_mtx, and the hypothesis under which deadlock *)
(* freedom and exclusion hold for any number of threads.                    *)
Disciplined ==
  [][\A t \in Threads, c \in Callbacks :
       Begin(t, c) => OrderedIn(c) /\ BalancedIn(c) /\ GuardedIn(c, "forest", "mtx")]_vars

(* A thread holds exactly the locks its callback took and did not release.  *)
OwnersExact ==
  \A l \in Locks, t \in Threads :
    owner[l] = t <=> running[t] # Idle /\ l \in Held(running[t], pc[t])
=============================================================================
