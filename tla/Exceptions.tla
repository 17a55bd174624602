----------------------------- MODULE Exceptions -----------------------------
(***************************************************************************)
(* Exceptions on their way out of nested calls, and the call traces they   *)
(* get: the one pending exception of err.c, the stack of call positions    *)
(* and the debug_error flag of debug.c, and what execute_loop() and        *)
(* vm_exec_func() of vm.c, generators and built-in functions do to them.   *)
(*                                                                         *)
(* A position (instruction offset and code object) is a member of Lines.   *)
(* Messages are left out; an exception object is a member of Exceptions,   *)
(* known by whether it exists and which trace it was given.                *)
(***************************************************************************)
EXTENDS Integers, Sequences, FiniteSets, SequencesExt

CONSTANTS Lines,            \* positions in the code of scripts
          Exceptions,       \* exception objects
          Generators,       \* generator objects
          None,
          RECURSION_MAX,    \* runs of execute_loop() inside each other
          MaxCalls          \* bound: calls in progress, built-in ones included

ASSUME CallBounds == RECURSION_MAX \in Nat \ {0} /\ MaxCalls \in Nat \ {0}
ASSUME NamesApart == /\ None \notin Exceptions /\ None \notin Generators
                     /\ {"unborn", "none"} \cap Lines = {}

VARIABLES calls,        \* what is in progress, the innermost last
          generators,   \* generator |-> what it is waiting to go on with
          locations,    \* debug.locations
          debug_error,  \* a trace was taken of the exception under way
          pending,      \* err->exception_last
          traces,       \* exception |-> Unborn, NoTrace or its call_trace
          failing,      \* whether ErrorVar was just returned, and by what
          raised,       \* history: the exception that the failing step raised
          story         \* history: where everything was when it failed

vars == <<calls, generators, locations, debug_error, pending, traces, failing,
          raised, story>>

Unborn  == <<"unborn">>
NoTrace == <<"none">>
NoStory == [lines |-> <<>>, exact |-> FALSE]

(***************************************************************************)
(* Activations.  A frame of a script's function or of a generator has code *)
(* and may be inside a try block; that of a built-in function has no code. *)
(* `pushed` says that vm_exec_func() pushed a location for the call.       *)
(***************************************************************************)
Activation(kind, line, g, pushed, hidden) ==
    [kind |-> kind, line |-> line, tries |-> FALSE, of |-> g,
     pushed |-> pushed, hidden |-> hidden]

HasCode(call) == call.kind # "builtin"
Inner == calls[Len(calls)]
Outer == Front(calls)
CodeRuns    == calls # <<>> /\ HasCode(Inner)
BuiltinRuns == calls # <<>> /\ ~HasCode(Inner)
OK == failing = "no"

NoGenerator(cs) == \A i \in DOMAIN cs : cs[i].kind # "generator"
Coded(cs) == {i \in DOMAIN cs : HasCode(cs[i])}
Depth == Cardinality(Coded(calls))

\* How many of the indices in S there are up to i; S's members, smallest first.
UpTo(S, i) == {j \in S : j <= i}
Rank(S, i) == Cardinality(UpTo(S, i))
Ranked(S) == [n \in 1..Cardinality(S) |-> CHOOSE i \in S : Rank(S, i) = n]

\* What a reader of a trace wants to know: where all the code in progress is.
Positions(cs) == [n \in 1..Cardinality(Coded(cs)) |-> cs[Ranked(Coded(cs))[n]].line]

\* The innermost frame of the active list; a generator's frame is not on it.
vm_current_frame == Max({i \in DOMAIN calls : calls[i].kind # "generator"})

\* tfr: the frame that calls, or the current one when C code names none.
CallingFrame(hidden) == IF hidden THEN vm_current_frame ELSE Len(calls)

debug_push_location(tfr) ==
    IF HasCode(calls[tfr]) THEN Append(locations, calls[tfr].line) ELSE locations

\* Seeded fault: an early return on an error leaves the location pushed.
debug_pop_location_NotOnError(call) ==
    IF call.pushed /\ OK THEN Front(locations) ELSE locations

debug_pop_location(call) == IF call.pushed THEN Front(locations) ELSE locations

-----------------------------------------------------------------------------
(* err.c: raising, and what stands for the raised exception meanwhile. *)

err_occurred == pending # None

\* A new exception object, as err_setstr() makes one.
Fresh(e) == traces[e] = Unborn

\* A step fails, of itself or because what it called did (how); e is what it
\* raised, if anything.  A trace is due unless e has one from an earlier throw.
Fail(how, e, positions) ==
    /\ failing' = how
    /\ raised' = e
    /\ story' = [lines |-> positions,
                 exact |-> NoGenerator(calls)]

Settled == failing' = "no" /\ raised' = None /\ story' = NoStory

replace_exception(e) == pending' = e

err_setstr(e) ==
    /\ Fresh(e)
    /\ replace_exception(e)
    /\ traces' = [traces EXCEPT ![e] = NoTrace]

Init ==
    /\ calls = <<>>
    /\ generators = [g \in Generators |-> [state |-> "none"]]
    /\ locations = <<>>
    /\ debug_error = FALSE
    /\ pending = None
    /\ traces = [e \in Exceptions |-> Unborn]
    /\ failing = "no" /\ raised = None /\ story = NoStory

-----------------------------------------------------------------------------
(* Calls. *)

\* A script, or a statement at the terminal, starts.  An exception that was
\* left pending without a failure goes if there are constants to fold.
Start(line) ==
    /\ calls = <<>> /\ OK
    /\ calls' = <<Activation("user", line, None, FALSE, FALSE)>>
    /\ \/ pending' = None /\ debug_error' = (debug_error /\ ~err_occurred)
       \/ UNCHANGED <<pending, debug_error>>
    /\ UNCHANGED <<generators, locations, traces, failing, raised, story>>

GoneTo(line, tries) ==
    [calls EXCEPT ![Len(calls)] = [Inner EXCEPT !.line = line, !.tries = tries]]

\* The innermost code goes on to another instruction, in or out of a try block.
Step(line, tries) ==
    /\ CodeRuns /\ OK
    /\ calls' = GoneTo(line, tries)
    /\ UNCHANGED <<generators, locations, debug_error, pending, traces, failing, raised, story>>

\* vm_exec_func() enters a function.  A call is hidden when C code makes it
\* for an operator, a property or a file and names no calling frame.
Call(kind, line, hidden) ==
    /\ calls # <<>> /\ OK /\ Len(calls) < MaxCalls
    /\ kind = "user" => Depth < RECURSION_MAX
    /\ LET tfr == CallingFrame(hidden)
       IN  /\ calls' = Append(calls, Activation(kind, line, None, HasCode(calls[tfr]), hidden))
           /\ locations' = debug_push_location(tfr)
    /\ UNCHANGED <<generators, debug_error, pending, traces, failing, raised, story>>

\* Seeded fault: the trace is taken again at every level on the way out.
Marked_Again(trace) == [traces EXCEPT ![pending] = trace]

\* What debug_mark_error() would return, and the exception's trace after it:
\* a trace is taken once per flight, and given once per exception.
Marked(trace) ==
    IF ~debug_error /\ traces[pending] = NoTrace
    THEN [traces EXCEPT ![pending] = trace]
    ELSE traces

\* The call is refused at the recursion limit.  Its location is pushed, its
\* loop has no position yet, and a trace is taken from the callers alone.
RefuseCall(e, hidden) ==
    /\ calls # <<>> /\ OK /\ Depth >= RECURSION_MAX
    /\ Fresh(e)
    /\ replace_exception(e)
    /\ traces' = [traces EXCEPT ![e] = IF debug_error THEN NoTrace
                                       ELSE debug_push_location(CallingFrame(hidden))]
    /\ debug_error' = TRUE
    /\ Fail(IF hidden THEN "hidden" ELSE "called", e, Positions(calls))
    /\ UNCHANGED <<calls, generators, locations>>

\* The innermost call returns normally.
Return ==
    /\ calls # <<>> /\ OK
    /\ calls' = Outer
    /\ locations' = debug_pop_location(Inner)
    /\ generators' = IF Inner.kind = "generator"
                     THEN [generators EXCEPT ![Inner.of] = [state |-> "done"]]
                     ELSE generators
    /\ UNCHANGED <<debug_error, pending, traces, failing, raised, story>>

\* exit() takes every frame away and ends the program.
Exit ==
    /\ BuiltinRuns /\ OK
    /\ calls' = <<>> /\ locations' = <<>>
    /\ debug_error' = FALSE /\ pending' = None
    /\ generators' = [g \in Generators |-> [state |-> "none"]]
    /\ traces' = [e \in Exceptions |-> Unborn]
    /\ UNCHANGED <<failing, raised, story>>

-----------------------------------------------------------------------------
(* Generators.  Going on with one runs its frame below the code that asks, *)
(* but pushes no location and does not put the frame on the active list.   *)

\* A function whose code holds a yield returns its generator first of all.
MakeGenerator(g) ==
    /\ CodeRuns /\ OK /\ Inner.kind = "user" /\ Len(calls) > 1
    /\ generators[g].state = "none"
    /\ generators' = [generators EXCEPT ![g] = [state |-> "stopped", line |-> Inner.line]]
    /\ calls' = Outer
    /\ locations' = debug_pop_location(Inner)
    /\ UNCHANGED <<debug_error, pending, traces, failing, raised, story>>

Resume(g) ==
    /\ calls # <<>> /\ OK /\ Len(calls) < MaxCalls /\ Depth < RECURSION_MAX
    /\ generators[g].state = "stopped"
    /\ generators' = [generators EXCEPT ![g] = [state |-> "running"]]
    /\ calls' = Append(calls, Activation("generator", generators[g].line, g, FALSE, FALSE))
    /\ UNCHANGED <<locations, debug_error, pending, traces, failing, raised, story>>

Yield ==
    /\ CodeRuns /\ OK /\ Inner.kind = "generator" /\ ~Inner.tries
    /\ generators' = [generators EXCEPT ![Inner.of] = [state |-> "stopped", line |-> Inner.line]]
    /\ calls' = Outer
    /\ UNCHANGED <<locations, debug_error, pending, traces, failing, raised, story>>

\* At the recursion limit the generator is ended where it stopped.
RefuseResume(g, e) ==
    /\ calls # <<>> /\ OK /\ Depth >= RECURSION_MAX
    /\ generators[g].state = "stopped"
    /\ Fresh(e)
    /\ replace_exception(e)
    /\ traces' = [traces EXCEPT ![e] = IF debug_error THEN NoTrace
                                       ELSE Append(locations, generators[g].line)]
    /\ debug_error' = TRUE
    /\ generators' = [generators EXCEPT ![g] = [state |-> "error"]]
    /\ failing' = "called" /\ raised' = e
    /\ story' = [lines |-> Append(Positions(calls), generators[g].line), exact |-> FALSE]
    /\ UNCHANGED <<calls, locations>>

\* A generator that failed before fails again, and raises nothing this time.
AskFailed(g) ==
    /\ calls # <<>> /\ OK
    /\ generators[g].state = "error"
    /\ Fail("called", None, Positions(calls))
    /\ UNCHANGED <<calls, generators, locations, debug_error, pending, traces>>

\* Nobody refers to a generator that has ended, or to an exception, any more.
DropGenerator(g) ==
    /\ generators[g].state \in {"stopped", "done", "error"}
    /\ generators' = [generators EXCEPT ![g] = [state |-> "none"]]
    /\ UNCHANGED <<calls, locations, debug_error, pending, traces, failing, raised, story>>

DropException(e) ==
    /\ ~Fresh(e) /\ pending # e
    /\ traces' = [traces EXCEPT ![e] = Unborn]
    /\ UNCHANGED <<calls, generators, locations, debug_error, pending, failing, raised, story>>

-----------------------------------------------------------------------------
(* Failures. *)

\* An instruction or a built-in function raises a new exception.
RaiseNew(e) ==
    /\ calls # <<>> /\ OK
    /\ err_setstr(e)
    /\ Fail("own", e, Positions(calls))
    /\ UNCHANGED <<calls, generators, locations, debug_error>>

\* A throw statement, of an exception that was thrown or caught before or not.
err_set_from_user(e) ==
    /\ CodeRuns /\ OK
    /\ ~Fresh(e) /\ pending # e
    /\ replace_exception(e)
    /\ Fail("own", e, Positions(calls))
    /\ UNCHANGED <<calls, generators, locations, debug_error, traces>>

\* C code raises an exception and reports success all the same: a sort whose
\* result is ignored, a buffered write that fails while reading, and others.
Ghost(e) ==
    /\ calls # <<>> /\ OK
    /\ err_setstr(e)
    /\ UNCHANGED <<calls, generators, locations, debug_error, failing, raised, story>>

\* C code that tells failure by err_occurred() takes the ghost for its own.
TakeGhost ==
    /\ calls # <<>> /\ OK /\ err_occurred
    /\ Fail("own", None, Positions(calls))
    /\ UNCHANGED <<calls, generators, locations, debug_error, pending, traces>>

\* C code that clears the error first, to tell its own by it later.
ClearGhost ==
    /\ calls # <<>> /\ OK /\ err_occurred
    /\ pending' = None /\ debug_error' = FALSE
    /\ UNCHANGED <<calls, generators, locations, traces, failing, raised, story>>

\* Seeded fault: only the exception is cleared.
err_clear_KeepsFlag ==
    /\ ~OK /\ calls # <<>>
    /\ BuiltinRuns \/ failing = "hidden"
    /\ pending' = None
    /\ Settled
    /\ UNCHANGED <<calls, generators, locations, traces, debug_error>>

\* A built-in function, or an operator's hidden call, does without the result.
err_clear ==
    /\ ~OK /\ calls # <<>>
    /\ BuiltinRuns \/ failing = "hidden"
    /\ pending' = None /\ debug_error' = FALSE
    /\ Settled
    /\ UNCHANGED <<calls, generators, locations, traces>>

\* The failing call's own calls are over; its caller gets ErrorVar.
Unwound ==
    /\ calls' = Outer
    /\ locations' = debug_pop_location(Inner)
    /\ failing' = IF Inner.hidden THEN "hidden" ELSE "called"
    /\ UNCHANGED <<raised, story>>

Propagate ==
    /\ ~OK /\ BuiltinRuns
    /\ Unwound
    /\ UNCHANGED <<generators, debug_error, pending, traces>>

\* execute_loop() names a failure that nobody raised an exception for.
Unreported(e) ==
    /\ ~OK /\ CodeRuns /\ ~err_occurred
    /\ err_setstr(e)
    /\ raised' = e
    /\ UNCHANGED <<calls, generators, locations, debug_error, failing, story>>

\* The innermost code has a handler: it gets the exception, at its own line.
Handle(line) ==
    /\ ~OK /\ CodeRuns /\ err_occurred /\ Inner.tries
    /\ calls' = GoneTo(line, FALSE)
    /\ pending' = None /\ debug_error' = FALSE
    /\ Settled
    /\ UNCHANGED <<generators, locations, traces>>

\* It has none: the loop ends, and the first one that does takes the trace.
Leave ==
    /\ ~OK /\ CodeRuns /\ err_occurred /\ ~Inner.tries
    /\ traces' = Marked(Append(locations, Inner.line))
    /\ debug_error' = TRUE
    /\ generators' = IF Inner.kind = "generator"
                     THEN [generators EXCEPT ![Inner.of] = [state |-> "error"]]
                     ELSE generators
    /\ Unwound
    /\ UNCHANGED pending

\* The script or statement is over; what is pending is printed with its trace.
err_print_last ==
    /\ calls = <<>> /\ err_occurred
    /\ pending' = None
    /\ debug_error' = (debug_error /\ traces[pending] = NoTrace)
    /\ Settled
    /\ UNCHANGED <<calls, generators, locations, traces>>

Next ==
    \/ \E line \in Lines :
        \/ Start(line)
        \/ \E tries \in BOOLEAN : Step(line, tries)
        \/ \E kind \in {"user", "builtin"}, hidden \in BOOLEAN : Call(kind, line, hidden)
        \/ Handle(line)
    \/ \E e \in Exceptions :
        \/ \E hidden \in BOOLEAN : RefuseCall(e, hidden)
        \/ RaiseNew(e) \/ err_set_from_user(e) \/ Ghost(e) \/ Unreported(e) \/ DropException(e)
        \/ \E g \in Generators : RefuseResume(g, e)
    \/ \E g \in Generators : MakeGenerator(g) \/ Resume(g) \/ AskFailed(g) \/ DropGenerator(g)
    \/ Return \/ Yield \/ Exit \/ TakeGhost \/ ClearGhost \/ err_clear \/ Propagate \/ Leave \/ err_print_last

Spec == Init /\ [][Next]_vars

-----------------------------------------------------------------------------
(* Properties. *)

Activations == [kind : {"user", "builtin", "generator"}, line : Lines, tries : BOOLEAN,
                of : Generators \cup {None}, pushed : BOOLEAN, hidden : BOOLEAN]

TypeOK ==
    /\ calls \in Seq(Activations)
    /\ Len(calls) <= MaxCalls
    /\ generators \in [Generators -> [state : {"none", "running", "done", "error"}]
                                        \cup [state : {"stopped"}, line : Lines]]
    /\ locations \in Seq(Lines)
    /\ debug_error \in BOOLEAN
    /\ pending \in Exceptions \cup {None}
    /\ traces \in [Exceptions -> {Unborn, NoTrace} \cup Seq(Lines)]
    /\ pending # None => ~Fresh(pending)
    /\ failing \in {"no", "own", "called", "hidden"}
    /\ raised \in Exceptions \cup {None}
    /\ story \in [lines : Seq(Lines), exact : BOOLEAN]

\* The location stack (debug.c, vm_exec_func() in vm.c) is the positions of
\* the code that waits for a call to return, outermost first, however calls
\* end.  Code that waits for a generator is not in it, and a hidden call of a
\* generator's code has the position of whoever asked the generator.
Pushed(cs) == {i \in DOMAIN cs : cs[i].pushed}

LocationsMatch ==
    /\ TypeOK
    /\ Len(locations) = Cardinality(Pushed(calls))
    /\ NoGenerator(calls) => locations = Positions(Outer)

\* s can be had from t by leaving items out.
Within(s, t) ==
    \E place \in [DOMAIN s -> DOMAIN t] :
        /\ \A i, j \in DOMAIN s : i < j => place[i] < place[j]
        /\ \A i \in DOMAIN s : s[i] = t[place[i]]

\* The trace that an exception gets (debug_mark_error(), exception_add_trace())
\* tells where it was raised and, when no generator was at work, where all the
\* code in progress was at that time; with generators, some of it, in order, and
\* not where it was raised if it is a hidden call that is refused (OK before).
\* A trace from an earlier throw stays as it is.
TraceTells ==
    [][\A e \in Exceptions :
          /\ (traces[e] \notin {Unborn, NoTrace} => traces'[e] \in {Unborn, traces[e]})
          /\ (traces[e] # traces'[e] /\ traces'[e] \notin {Unborn, NoTrace}) =>
                /\ Within(traces'[e], story'.lines)
                /\ ~OK => Last(traces'[e]) = Last(story'.lines)
                /\ story'.exact => traces'[e] = story'.lines]_vars

\* An exception that reaches the end of the script has a trace and is printed
\* with it: debug_error is set exactly while an exception that has left the
\* code that raised it is under way, whatever was caught, cleared, thrown again
\* or left pending before.  What arrives is what the failing step raised.
NoTraceLost ==
    /\ debug_error => ~OK /\ err_occurred /\ traces[pending] \notin {Unborn, NoTrace}
    /\ (calls = <<>> /\ ~OK) => debug_error
    /\ (~OK /\ raised # None) => pending = raised
=============================================================================
