------------------------------ MODULE VmFrames ------------------------------
(***************************************************************************)
(* Frames of src/src/vm.c: where they come from, who runs them and where   *)
(* they go.  A function call takes a frame from the free list or the heap, *)
(* appends it to the active frames and gives it a part of the VM stack; a  *)
(* function that yields leaves a second frame to a generator (generator.c) *)
(* which runs it, outside of the active frames, each time the generator is *)
(* asked for an item.                                                      *)
(*                                                                         *)
(* calls is the C stack: what is being executed, outermost first.  Only    *)
(* its last member does anything.  A frame's part of the VM stack is       *)
(* base..sp-1, in units of a few slots.                                    *)
(***************************************************************************)
EXTENDS Integers, Sequences, FiniteSets, SequencesExt

CONSTANTS Frames,            \* what the heap can hold (a bound)
          Generators,        \* generator objects (a bound)
          RECURSION_MAX,     \* execute_loop()s within each other, enums.h
          MAX_FREE_FRAMES,   \* length of the free list
          MaxCalls,          \* bound: activations within each other
          None                 \* no frame, no generator

ASSUME LimitsAssumption == /\ RECURSION_MAX \in Nat
                           /\ MAX_FREE_FRAMES \in Nat
                           /\ MaxCalls \in Nat
ASSUME NoneAssumption   == None \notin Frames /\ None \notin Generators

VARIABLES
    active,             \* vm.active_frames
    free,               \* vm.free_frames
    nr_free_frames,     \* vm.nr_free_frames
    heap,               \* frames that exist: allocated, not yet freed
    calls,              \* activations: [kind, fr, gen, base, sp]
    gens,               \* generator -> [state, frame]
    recursion_counter,  \* of execute_loop()
    lost,               \* history: frames of generators dropped before the end
    reentered,          \* history: generators asked from within themselves
    abandoned           \* history: execute_loop()s that exit() cut off

history == <<lost, reentered, abandoned>>
vars == <<active, free, nr_free_frames, heap, calls, gens, recursion_counter, history>>

Kinds  == {"user", "builtin", "generator"}
States == {"none", "STOPPED", "DONE", "ERROR"}   \* "none": no such object
Activation == [kind : Kinds, fr : Frames, gen : Generators \cup {None}, base : Nat, sp : Nat]
NoGenerator == [state |-> "none", frame |-> None]

Running  == calls[Len(calls)]
Callers  == Front(calls)
Executing(g) == \E i \in DOMAIN calls : calls[i].gen = g

(* What is on the list of active frames, and what runs an execute_loop().  *)
Normal(cs) == {i \in DOMAIN cs : cs[i].kind # "generator"}
Loops(cs)  == {i \in DOMAIN cs : cs[i].kind # "builtin"}

(* The state of the allocator, as the functions below pass it on.          *)
Lists == [active |-> active, free |-> free, nr |-> nr_free_frames, heap |-> heap]

SetLists(l) == /\ active' = l.active
               /\ free' = l.free
               /\ nr_free_frames' = l.nr
               /\ heap' = l.heap

(* vmframe_get_or_alloc: f is the first free frame, or a new one.          *)
CanGet(l, f) == IF l.free # << >> THEN f = Head(l.free) ELSE f \in Frames \ l.heap

(* Seeded fault: the free list gets shorter, its counter does not.         *)
vmframe_get_Uncounted(l, f) ==
    IF l.free # << >> THEN [l EXCEPT !.free = Tail(@)]
    ELSE [l EXCEPT !.heap = @ \cup {f}]

vmframe_get_or_alloc(l, f) ==
    IF l.free # << >>
    THEN [l EXCEPT !.free = Tail(@), !.nr = @ - 1]
    ELSE [l EXCEPT !.heap = @ \cup {f}]

vmframe_alloc(l, f) ==
    [vmframe_get_or_alloc(l, f) EXCEPT !.active = Append(@, f)]

(* vmframe_free and vmframe_free__: off the list it is on, then to the end *)
(* of the free list unless that is full.                                   *)
Unlinked(l, f) == [l EXCEPT !.active = RemoveFirst(@, f), !.free = RemoveFirst(@, f)]

vmframe_free__(l, f) ==
    IF l.nr >= MAX_FREE_FRAMES THEN [l EXCEPT !.heap = @ \ {f}]
    ELSE [l EXCEPT !.free = Append(@, f), !.nr = @ + 1]

vmframe_free(l, f) == vmframe_free__(Unlinked(l, f), f)

(***************************************************************************)
(* Where a new frame's stack begins: behind the caller's operands, unless  *)
(* the caller is a generator, which has a small stack of its own; then     *)
(* behind those of the innermost active frame.  The caller has 1 or 2      *)
(* units on its stack at the time of the call.                             *)
(***************************************************************************)
vm_current_frame == active[Len(active)]
Suspended(grow) ==
    IF calls = << >> THEN calls
    ELSE [calls EXCEPT ![Len(calls)].sp = calls[Len(calls)].base + grow]
(* Seeded fault: a generator's own stack is taken for the VM's.            *)
StackFor_Caller(suspended) ==
    IF suspended = << >> THEN 0 ELSE suspended[Len(suspended)].sp

StackFor(suspended) ==
    IF active = << >> THEN 0
    ELSE IF suspended[Len(suspended)].kind # "generator" THEN suspended[Len(suspended)].sp
    ELSE LET i == CHOOSE i \in DOMAIN suspended : /\ suspended[i].fr = vm_current_frame
                                                  /\ suspended[i].kind # "generator"
         IN  suspended[i].sp
------------------------------------------------------------------------------
Init == /\ active = << >>
        /\ free = << >>
        /\ nr_free_frames = 0
        /\ heap = {}
        /\ calls = << >>
        /\ gens = [g \in Generators |-> NoGenerator]
        /\ recursion_counter = 0
        /\ lost = {} /\ reentered = {} /\ abandoned = 0

(* vm_exec_func() and function_call() up to the first instruction of the   *)
(* function or the first line of the callback.                             *)
Enter(kind, f, grow) ==
    LET suspended == Suspended(grow)
    IN  /\ SetLists(vmframe_alloc(Lists, f))
        /\ calls' = Append(suspended, [kind |-> kind, fr |-> f, gen |-> None,
                                       base |-> StackFor(suspended),
                                       sp   |-> StackFor(suspended)])

(* A call that ends before that: it got and gave back a frame.             *)
EnterFails(f) == /\ SetLists(vmframe_free(vmframe_alloc(Lists, f), f))
                 /\ UNCHANGED calls

Calling(f) == Len(calls) < MaxCalls /\ CanGet(Lists, f)

CallUser ==
    \E f \in Frames, grow \in 1..2 :
        /\ Calling(f)
        /\ IF recursion_counter >= RECURSION_MAX
           THEN /\ EnterFails(f)                      \* RecursionError
                /\ UNCHANGED recursion_counter
           ELSE /\ Enter("user", f, grow)
                /\ recursion_counter' = recursion_counter + 1
        /\ UNCHANGED gens

CallBuiltin ==
    \E f \in Frames, grow \in 1..2 :
        /\ Calling(f)
        /\ Enter("builtin", f, grow)
        /\ UNCHANGED <<gens, recursion_counter>>

(* The wrong arguments, or an object that is no function.                  *)
CallRejected ==
    \E f \in Frames :
        /\ Calling(f)
        /\ EnterFails(f)
        /\ UNCHANGED <<gens, recursion_counter>>

(* A function that yields: its first instruction is RETURN_GENERATOR,      *)
(* which copies the frame for the generator and returns.                   *)
CallGeneratorFunction ==
    \E f, copy \in Frames, g \in Generators :
        /\ Calling(f)
        /\ gens[g].state = "none"
        /\ LET called == vmframe_alloc(Lists, f)
           IN  IF recursion_counter >= RECURSION_MAX
               THEN /\ SetLists(vmframe_free(called, f))
                    /\ UNCHANGED gens
               ELSE /\ CanGet(called, copy)
                    /\ SetLists(vmframe_free(vmframe_get_or_alloc(called, copy), f))
                    /\ gens' = [gens EXCEPT ![g] = [state |-> "STOPPED", frame |-> copy]]
        /\ UNCHANGED <<calls, recursion_counter>>

(* RETURN_VALUE, END, an exception without a handler, or the end of a      *)
(* callback: vm_exec_func() frees the frame.                               *)
Return ==
    /\ calls # << >>
    /\ Running.kind \in {"user", "builtin"}
    /\ SetLists(vmframe_free(Lists, Running.fr))
    /\ calls' = Callers
    /\ recursion_counter' = IF Running.kind = "user" THEN recursion_counter - 1
                            ELSE recursion_counter
    /\ UNCHANGED gens

(* generator_iter_next(), called for FOREACH_ITER or from a callback.      *)
(* Nothing ever sets the state to RUNNING: a generator whose loop is under *)
(* way is asked like any other, and a second loop runs on its frame.       *)
Resume ==
    \E g \in Generators, grow \in 1..2 :
        /\ calls # << >>
        /\ Len(calls) < MaxCalls
        /\ gens[g].state = "STOPPED"
        /\ reentered' = IF Executing(g) THEN reentered \cup {g} ELSE reentered
        /\ IF recursion_counter >= RECURSION_MAX
           THEN /\ SetLists(vmframe_free(Lists, gens[g].frame))
                /\ gens' = [gens EXCEPT ![g].state = "ERROR"]
                /\ UNCHANGED <<calls, recursion_counter>>
           ELSE /\ calls' = Append(Suspended(grow), [kind |-> "generator", fr |-> gens[g].frame,
                                                     gen |-> g, base |-> 0, sp |-> 0])
                /\ recursion_counter' = recursion_counter + 1
                /\ UNCHANGED <<active, free, nr_free_frames, heap, gens>>

(* Seeded fault: YIELD_VALUE frees the frame as RETURN_VALUE does.         *)
Yield_Frees ==
    /\ calls # << >>
    /\ Running.kind = "generator"
    /\ SetLists(vmframe_free(Lists, Running.fr))
    /\ calls' = Callers
    /\ recursion_counter' = recursion_counter - 1
    /\ UNCHANGED gens

Yield ==
    /\ calls # << >>
    /\ Running.kind = "generator"
    /\ calls' = Callers
    /\ recursion_counter' = recursion_counter - 1
    /\ UNCHANGED <<active, free, nr_free_frames, heap, gens>>

(* The generator's function returns or throws: execute_loop() frees the    *)
(* frame and generator_iter_next() notes why.                              *)
GeneratorEnds ==
    /\ calls # << >>
    /\ Running.kind = "generator"
    /\ \E how \in {"DONE", "ERROR"} : gens' = [gens EXCEPT ![Running.gen].state = how]
    /\ SetLists(vmframe_free(Lists, Running.fr))
    /\ calls' = Callers
    /\ recursion_counter' = recursion_counter - 1

(* The last reference to a generator goes.  GeneratorType has no reset, so *)
(* nothing happens to its frame.                                           *)
Drop ==
    \E g \in Generators :
        /\ gens[g].state # "none"
        /\ ~Executing(g)
        /\ gens' = [gens EXCEPT ![g] = NoGenerator]
        /\ lost' = IF gens[g].state = "STOPPED" THEN lost \cup {gens[g].frame} ELSE lost
        /\ reentered' = reentered \ {g}
        /\ UNCHANGED <<active, free, nr_free_frames, heap, calls, recursion_counter>>

(* exit(): vm_clear_frames_for_exit() frees all active frames, innermost   *)
(* first.  `kept` go on the free list until that is full.  What then runs  *)
(* are the destructors and clean-ups before the process ends: they find    *)
(* the recursion counter as exit() was called, since the loops that it     *)
(* cuts off never count down.                                              *)
vm_clear_frames_for_exit(l) ==
    LET kept == Min({Len(l.active), MAX_FREE_FRAMES - l.nr})
    IN  [active |-> << >>,
         free   |-> l.free \o SubSeq(Reverse(l.active), 1, kept),
         nr     |-> l.nr + kept,
         heap   |-> l.heap \ {l.active[i] : i \in 1..(Len(l.active) - kept)}]

Exit ==
    /\ calls # << >>
    /\ Running.kind = "builtin"
    /\ SetLists(vm_clear_frames_for_exit(Lists))
    /\ calls' = << >>
    /\ abandoned' = recursion_counter
    /\ UNCHANGED <<gens, recursion_counter>>

(* The loop that goes on has lost its frame: another one of the same       *)
(* generator has ended and freed it.  Neither has this loop operands, nor  *)
(* the program a meaning from there on.                                    *)
Unframed == calls # << >> /\ Running.kind = "generator" /\ gens[Running.gen].state # "STOPPED"

Goes == ~Unframed /\ UNCHANGED history

Next == \/ CallUser /\ Goes
        \/ CallBuiltin /\ Goes
        \/ CallRejected /\ Goes
        \/ CallGeneratorFunction /\ Goes
        \/ Return /\ Goes
        \/ Yield /\ Goes
        \/ GeneratorEnds /\ Goes
        \/ Resume /\ ~Unframed /\ UNCHANGED <<lost, abandoned>>
        \/ Exit /\ ~Unframed /\ UNCHANGED <<lost, reentered>>
        \/ Drop /\ ~Unframed /\ UNCHANGED abandoned
        \/ Unframed /\ UNCHANGED vars

Spec == Init /\ [][Next]_vars
------------------------------------------------------------------------------
TypeOK == /\ active \in Seq(Frames)
          /\ free \in Seq(Frames)
          /\ nr_free_frames \in Nat
          /\ heap \subseteq Frames
          /\ calls \in Seq(Activation)
          /\ gens \in [Generators -> [state : States, frame : Frames \cup {None}]]
          /\ recursion_counter \in Nat
          /\ reentered \subseteq Generators

Owned == {gens[g].frame : g \in {x \in Generators : gens[x].state = "STOPPED"}}

(* A frame that exists is in one place only: active, free or a             *)
(* generator's, or it was a generator's that was dropped while it could    *)
(* still go on, which is the one way to lose a frame for good.  The free   *)
(* list is as long as its counter says and no longer than allowed          *)
(* (vmframe_alloc, vmframe_free, vmframe_new_generator_frame).             *)
OnePlaceOnly ==
    /\ IsInjective(active) /\ IsInjective(free) /\ ToSet(active) \cap ToSet(free) = {}
    /\ Owned \cap (ToSet(active) \cup ToSet(free)) = {}
    /\ \A g, h \in Generators : g # h /\ gens[g].state = "STOPPED" /\ gens[h].state = "STOPPED"
                                    => gens[g].frame # gens[h].frame
    /\ lost \cap (Owned \cup ToSet(active) \cup ToSet(free)) = {}

FramesAccounted ==
    /\ TypeOK
    /\ OnePlaceOnly
    /\ heap = Owned \cup ToSet(active) \cup ToSet(free) \cup lost
    /\ nr_free_frames = Len(free)
    /\ nr_free_frames <= MAX_FREE_FRAMES

(* What becomes of a loop when a second one of its generator ends.         *)
EndedWithin(i) == calls[i].gen \in reentered /\ gens[calls[i].gen].state \in {"DONE", "ERROR"}
SameGenerator(i, j) == calls[i].gen = calls[j].gen /\ calls[i].gen \in reentered

(* Each execute_loop() and each callback in progress is on a frame that    *)
(* has not been freed and that it shares with no other: the next call is   *)
(* never given it, whatever calls, generators, exceptions and exit() there *)
(* are.  The one exception is a generator that was asked for an item from  *)
(* within itself, of which two loops are on one frame, until an end of one *)
(* leaves the others without.  (execute_loop, generator_iter_next)         *)
RunningFramesLive ==
    \A i \in DOMAIN calls :
        \/ EndedWithin(i)
        \/ /\ calls[i].fr \in heap \ ToSet(free)
           /\ \A j \in DOMAIN calls \ {i} : calls[j].fr = calls[i].fr => EndedWithin(j) \/ SameGenerator(i, j)

(* What nothing in the code sees to: that state of the generator is never  *)
(* set which would say that its loop is under way.  Refuted.               *)
NeverUnframed == ~Unframed

(* exit() leaves its own loops counted.                                    *)
CounterIsDepth ==
    /\ recursion_counter = Cardinality(Loops(calls)) + abandoned
    /\ recursion_counter <= RECURSION_MAX

\* How many of the indices in S there are up to i.
UpTo(S, i) == {j \in S : j <= i}
Rank(S, i) == Cardinality(UpTo(S, i))

ActiveAreNormal ==
    /\ Len(active) = Cardinality(Normal(calls))
    /\ \A i \in Normal(calls) : active[Rank(Normal(calls), i)] = calls[i].fr

StacksFollow == \A i, j \in Normal(calls) : i < j => calls[i].sp <= calls[j].base

(* vm_get_locals(), called by the callback of dir(), takes the frame       *)
(* before the innermost active one for the function that called dir().     *)
ParentOf(i) == active[Rank(Normal(calls), i) - 1]

(* The calls in progress nest: recursion_counter is how many               *)
(* execute_loop()s are within each other, those that exit() cut off        *)
(* included, never more than the limit; the                                *)
(* active frames are the calls in progress, in order; what a call pushes   *)
(* on the VM stack lies behind all that its callers still need, a          *)
(* generator in between or not; and a callback finds the frame of the      *)
(* code that called it, unless that code is a generator's.                 *)
CallsNest ==
    /\ CounterIsDepth
    /\ ActiveAreNormal
    /\ StacksFollow
    /\ \A i \in DOMAIN calls : (i >= 2 /\ calls[i].kind = "builtin" /\ calls[i - 1].kind # "generator")
        => ParentOf(i) = calls[i - 1].fr

(* A callback finds the frame of the code that called it, whatever that    *)
(* is.  Refuted: a generator's frame is not among the active ones.         *)
(* (vm_get_locals)                                                         *)
ParentIsCaller ==
    \A i \in DOMAIN calls : i >= 2 /\ calls[i].kind = "builtin" => ParentOf(i) = calls[i - 1].fr
=============================================================================
