-------------------------------- MODULE Driver --------------------------------
(***************************************************************************)
(* The data-bus drivers of verilate/include: DBusGen, which issues one     *)
(* request and awaits its answer, DBusPipelineGen, which keeps a queue of  *)
(* tasks and always has the front one on the bus, and the swap of two      *)
(* memory cells of cell.h on top of the pipeline.  The model under test is *)
(* a memory that answers after any number of cycles.                       *)
(***************************************************************************)
EXTENDS Bytes, Sequences

CONSTANTS
  Dest,        \* variables of the test
  QueueMax     \* bound: tasks in the queue

ASSUME DriverAssumption == QueueMax \in Nat \ {0, 1} /\ Dest \cap {"u", "v", "null"} = {}

VARIABLES
  mem,         \* a word of the memory under test
  req,         \* the request on the bus
  ongoing,     \* the queue of the pipeline
  dest,        \* the variables of the test, and the locals of swap
  pipe,        \* a pipeline object exists
  pc,          \* what the test does: "free", or waiting in "await", "fence",
               \* "close" (the destructor), "u" and "v" (the loads of swap);
               \* "failed" and "stopped" are the ends in an assertion
  arg          \* what "await" or "u" and "v" are about

vars == <<mem, req, ongoing, dest, pipe, pc, arg>>

-----------------------------------------------------------------------------
(***************************************************************************)
(* LoadOp: where the value of a load or a store stands on the data bus.    *)
(***************************************************************************)

\* [w, s]: 2^w bytes from lane s on; the other lanes do not count.
DISCARD == [w |-> -1, s |-> 0]
Ops == [w : Sizes, s : Lane] \cup {DISCARD}

\* parse<2^w>: address bits below the width are not looked at.
parse(addr, w) == [w |-> w, s |-> addr - (addr % Width(w))]

\* strobe and mask name the same lanes.
Selected(op) == IF op = DISCARD THEN {} ELSE op.s .. op.s + Width(op.w) - 1
strobe(op) == [l \in Lane |-> l \in Selected(op)]

\* A value shifted to its lanes, as far as the word reaches.
place(op, data) == [l \in Lane |-> IF l >= op.s THEN data[l - op.s] ELSE 0]

\* A bus word shifted back.
apply(op, data) ==
  [l \in Lane |-> IF op # DISCARD /\ l + op.s \in Lane THEN data[l + op.s] ELSE 0]

\* What apply leaves at *dest: as many bytes as the operation has.  The cases
\* of the switch fall through, and rewrite the same bytes with narrower types.
applyTo(op, data, old) ==
  [l \in Lane |-> IF op # DISCARD /\ l < Width(op.w) THEN apply(op, data)[l] ELSE old[l]]

-----------------------------------------------------------------------------
Zero == [l \in Lane |-> 0]
Locals == {"u", "v"}
Null == "null"

Task == [addr : Lane, size : Sizes, data : Words, strobe : [Lane -> BOOLEAN],
         dest : Dest \cup Locals \cup {Null}, load_op : Ops]

LoadTask(addr, w, d) ==
  [addr |-> addr, size |-> w, data |-> Zero, strobe |-> strobe(DISCARD),
   dest |-> d, load_op |-> parse(addr, w)]
StoreTask(addr, w, v) ==
  [addr |-> addr, size |-> w, data |-> place(parse(addr, w), v),
   strobe |-> strobe(parse(addr, w)), dest |-> Null, load_op |-> parse(0, LogLanes)]
ExpectTask(addr, w, v) ==
  [addr |-> addr, size |-> w, data |-> place(parse(addr, w), v),
   strobe |-> strobe(DISCARD), dest |-> Null, load_op |-> parse(addr, w)]

\* The raw load with no destination.
DiscardTask(addr, w) == [LoadTask(addr, w, Null) EXCEPT !.load_op = DISCARD]

is_load(t) == t.strobe = strobe(DISCARD)

\* The request that issue puts on the bus, and the one that clear leaves.
Request(t) == [valid |-> TRUE, addr |-> t.addr, size |-> t.size,
               strobe |-> t.strobe, data |-> t.data]
NoRequest == [valid |-> FALSE, addr |-> 0, size |-> 0,
              strobe |-> strobe(DISCARD), data |-> Zero]

busy == req.valid

\* The memory under test takes the strobed bytes of a request.
Stored(old, st, data) == [l \in Lane |-> IF st[l] THEN data[l] ELSE old[l]]

\* apply_assert: the bytes of the mask are compared.
Matches(t, value) == \A l \in Selected(t.load_op) : t.data[l] = value[l]

-----------------------------------------------------------------------------
Init ==
  /\ mem \in Words
  /\ req = NoRequest
  /\ ongoing = <<>>
  /\ dest \in [Dest \cup Locals -> {Zero}]
  /\ pipe = FALSE
  /\ pc = "free"
  /\ arg = <<>>

\* submit, for one task or two in a row.
Submit(ts) ==
  /\ ongoing' = ongoing \o ts
  /\ req' = IF busy THEN req ELSE Request(Head(ts))

\* load, store and expect of the pipeline return at once.
Call(t) ==
  /\ pipe
  /\ pc = "free"
  /\ Len(ongoing) < QueueMax
  /\ Submit(<<t>>)
  /\ UNCHANGED <<mem, dest, pipe, pc, arg>>

\* The constructor asserts that no request is under way.
Open ==
  /\ ~pipe
  /\ pc = "free"
  /\ IF busy THEN pc' = "stopped" /\ UNCHANGED pipe ELSE pipe' = TRUE /\ UNCHANGED pc
  /\ UNCHANGED <<mem, req, ongoing, dest, arg>>

\* fence, alone or in the destructor.
Fence ==
  /\ pipe
  /\ pc = "free"
  /\ pc' \in {"fence", "close"}
  /\ UNCHANGED <<mem, req, ongoing, dest, pipe, arg>>

\* Mutant: every answer clears the request, as in await.
Reissue_Clears == req' = NoRequest

\* Mutant: the last request stays on the bus.
Reissue_NoClear == req' = IF ongoing' = <<>> THEN req ELSE Request(Head(ongoing'))

\* After a tick the front of the queue is on the bus, or nothing.
Reissue == req' = IF ongoing' = <<>> THEN NoRequest ELSE Request(Head(ongoing'))

\* Mutant: what comes back goes to the task that was pushed last.
Taken_Last == ongoing[Len(ongoing)]

\* The task an answer belongs to.
Taken == Head(ongoing)

\* tick of the pipeline: the signals are read before the clock edge, the front
\* task takes the answer, and the next one is issued.
Tick(data_ok) ==
  LET rdata == mem
      hit   == data_ok /\ busy
      u     == Taken
  IN  /\ pipe
      /\ pc \notin {"failed", "stopped"}
      /\ mem' = IF hit THEN Stored(mem, req.strobe, req.data) ELSE mem
      /\ IF hit /\ ongoing = <<>> THEN
           pc' = "stopped" /\ UNCHANGED <<ongoing, dest, req>>
         ELSE IF hit THEN
           /\ ongoing' = Tail(ongoing)
           /\ dest' = IF u.dest = Null THEN dest
                      ELSE [dest EXCEPT ![u.dest] = applyTo(u.load_op, rdata, @)]
           /\ pc' = IF u.dest = Null /\ is_load(u) /\ ~Matches(u, rdata) THEN "failed" ELSE pc
           /\ Reissue
         ELSE
           UNCHANGED <<ongoing, dest, pc>> /\ Reissue
      /\ UNCHANGED <<pipe, arg>>

\* fence returns when the queue is empty, and what called it goes on: swap has
\* got one value and loads the other, or stores both.
FenceDone ==
  /\ pc \in {"fence", "close", "u", "v"}
  /\ ongoing = <<>>
  /\ pc' = IF pc = "u" THEN "v" ELSE "free"
  /\ pipe' = (pc # "close")
  /\ IF pc = "u" THEN
       Submit(<<LoadTask(arg[2], arg[3], "v")>>)
     ELSE IF pc = "v" THEN
       Submit(<<StoreTask(arg[1], arg[3], dest["v"]), StoreTask(arg[2], arg[3], dest["u"])>>)
     ELSE
       UNCHANGED <<ongoing, req>>
  /\ arg' = IF pc = "u" THEN arg ELSE <<>>
  /\ dest' = IF pc = "u" THEN dest ELSE [dest EXCEPT !["u"] = Zero, !["v"] = Zero]
  /\ UNCHANGED mem

\* swap(x, y) of two cells of one width: x.get() first.  A cell on a pipeline
\* loads into a variable of half a word, so only cells up to that width are
\* considered; the bytes above the cell's width are cut off again.
Swap(x, y, w) ==
  /\ pipe
  /\ pc = "free"
  /\ Len(ongoing) < QueueMax
  /\ w < LogLanes
  /\ pc' = "u"
  /\ arg' = <<x, y, w>>
  /\ Submit(<<LoadTask(x, w, "u")>>)
  /\ UNCHANGED <<mem, dest, pipe>>

\* A load or store without a pipeline: async_load or async_store, and await.
Issue(t) ==
  /\ ~pipe
  /\ pc = "free"
  /\ pc' = "await"
  /\ arg' = <<t>>
  /\ req' = Request(t)
  /\ UNCHANGED <<mem, ongoing, dest, pipe>>

\* One cycle of await: the data of the cycle with data_ok, read before the
\* tick, is returned, and the request is cleared.
Loaded(t, rdata) ==
  IF t.dest = Null THEN dest
  ELSE [dest EXCEPT ![t.dest] = applyTo(t.load_op, rdata, Zero)]

Await(data_ok) ==
  /\ pc = "await"
  /\ IF data_ok
       THEN /\ dest' = Loaded(arg[1], mem)
            /\ mem' = Stored(mem, req.strobe, req.data)
            /\ req' = NoRequest
            /\ pc' = "free"
            /\ arg' = <<>>
       ELSE UNCHANGED <<dest, mem, req, pc, arg>>
  /\ UNCHANGED <<ongoing, pipe>>

-----------------------------------------------------------------------------
Tasks ==
  (UNION {{LoadTask(p[1], p[2], d) : d \in Dest} : p \in Places})
  \cup {StoreTask(p[1], p[2], v) : p \in Places, v \in Words}

Next ==
  \/ \E t \in Tasks : Call(t) \/ Issue(t)
  \/ \E p \in Places, v \in Words : Call(ExpectTask(p[1], p[2], v))
  \/ \E p \in Places : Call(DiscardTask(p[1], p[2]))
  \/ \E p, q \in Places : p[2] = q[2] /\ Swap(p[1], q[1], p[2])
  \/ Open
  \/ Fence
  \/ FenceDone
  \/ \E data_ok \in BOOLEAN : Tick(data_ok) \/ Await(data_ok)

Spec == Init /\ [][Next]_vars

\* A test that waits ticks the clock, and the memory answers in the end.
FairSpec ==
  /\ Spec
  /\ WF_vars(pc \notin {"free", "failed", "stopped"} /\ (Tick(TRUE) \/ Await(TRUE)))
  /\ WF_vars(FenceDone)

-----------------------------------------------------------------------------
TypeOK ==
  /\ mem \in Words
  /\ req \in [valid : BOOLEAN, addr : Lane, size : Sizes,
              strobe : [Lane -> BOOLEAN], data : Words]
  /\ ongoing \in Seq(Task)
  /\ dest \in [Dest \cup Locals -> Words]
  /\ pipe \in BOOLEAN
  /\ pc \in {"free", "await", "fence", "close", "u", "v", "failed", "stopped"}
  /\ pc = "await" => Len(arg) = 1 /\ arg[1] \in Task
  /\ pc \in {"u", "v"} => arg \in Lane \X Lane \X Sizes

\* Whenever the test runs, the request on the bus is that of the front task,
\* and there is one as long as the queue is not empty: answers are matched to
\* tasks by position, so one request too many or too few would shift all that
\* follow.  The assertion on an empty queue and the one in the constructor
\* never fire.
FrontOnBus ==
  /\ pc \notin {"failed", "stopped", "await"} =>
       req = IF ongoing = <<>> THEN NoRequest ELSE Request(Head(ongoing))
  /\ pc = "await" => req = Request(arg[1]) /\ ongoing = <<>>
  /\ ~pipe => ongoing = <<>>
  /\ pc # "stopped"

\* What holds of every cycle of the drivers: types, and the front on the bus.
Sound == TypeOK /\ FrontOnBus

-----------------------------------------------------------------------------
\* What is called but not done yet is done in the order of the queue.
Effect(s, t) ==
  IF s.failed THEN s
  ELSE IF ~is_load(t) THEN [s EXCEPT !.bytes = Stored(@, t.strobe, t.data)]
  ELSE IF t.dest # Null
    THEN [s EXCEPT !.dest[t.dest] = applyTo(t.load_op, s.bytes, @)]
  ELSE [s EXCEPT !.failed = ~Matches(t, s.bytes)]

After(s, ts) ==
  LET after[n \in 0 .. Len(ts)] == IF n = 0 THEN s ELSE Effect(after[n - 1], ts[n])
  IN  after[Len(ts)]

Now == [bytes |-> mem, dest |-> dest, failed |-> pc = "failed"]
Called ==
  IF pc = "await"
    THEN [Now EXCEPT !.bytes = Stored(mem, req.strobe, req.data), !.dest = Loaded(arg[1], mem)]
    ELSE After(Now, ongoing)

Program == INSTANCE InOrderMemory WITH
             bytes <- Called.bytes,
             dest <- [d \in Dest |-> Called.dest[d]],
             failed <- Called.failed

\* However long the memory takes, a test sees its calls take effect in order,
\* and a fence brings what it sees into its variables (see InOrderMemory).
AsInOrder == Program!Spec

\* A fence, an await and the destructor return.
Returns == pc \notin {"free", "failed", "stopped"} ~> pc \in {"free", "failed", "stopped"}
=============================================================================
