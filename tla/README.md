# EvilCandy in TLA+

EvilCandy is an interpreted language written in C: a one-pass compiler from
source to byte code, an optimiser, a stack machine, reference-counted objects,
and a library of built-in types.  This directory holds TLA+ models of the parts
where order, sharing and reuse decide whether the program is right, the TLC
configurations that check them, and proofs.  Paths below are relative to the
repository; the C files are in `src/`, headers in `inc/`.

To check a configuration: `tlc -config X.cfg M` where `M` is the module that the
table of runs names.  To check the proofs: `tlapm` on `FrameShape_proofs`,
`Import_proofs`, `VmFrames_proofs`, `Exceptions_proofs`, `VarPool_proofs`,
`Dict_proofs`, `Files_proofs` and `VmRefs_proofs` (the last three take some minutes).

## 1. The system

The interpreter is one thread.  What makes it hard is not parallelism but
*re-entry* (a generator's code resumes inside a built-in's code inside another
frame), *reuse* (frames, objects, stack slots and hash buckets are recycled at
once), *non-local exits* (exceptions, `break`, `return`, `exit()` cut through
stacks that others share) and *rewriting* (optimiser passes edit code that
jumps into itself).

    source --token.c--> tokens --assembler.c--> labelled code --assemble_post.c--> XptrType
                                                                                     |
        import.c/path.c <---- do_import ----   vm.c: execute_loop <-- vm_exec_func --+
                                                |        |      \
                          types/*.c (operators) +   types/generator.c   err.c/debug.c
                                  |                      |
                                 var.c: reference counts, free lists, deferred deletion

| component (sources) | state it keeps | operations | what is hard | correct when |
|---|---|---|---|---|
| code generation (`assembler.c`, `assemble.h`) | stack of assembly frames: code, labels, constants, scopes, nesting count | recursive descent, one function per statement or precedence level | labels set at the right place; every exit from a block matches what the block pushed | the compiled statement means what the language says |
| optimisation passes (`assemble_post.c`) | the frame's code and labels | save flags, constant operands, constant conditions, trivial jumps, unreachable code, NOPs, labels to offsets; repeated | jumps into the middle of a rewritten group; one pass's output is another's input | optimised code shows the same behaviour |
| instruction interpreter (`vm.c: execute_loop`, `vm.h`) | per frame: pc, operand stack, block stack | about 80 instructions; search for a handler | release builds check neither stack | an instruction finds the operands and blocks it was compiled for |
| frames and calls (`vm.c`, `function.c`) | active list, free list and its counter, VM stack, recursion counter | call, return, exception, generator creation, `exit()` | frames move between three owners; callbacks nest `execute_loop()` | nobody runs on a frame that was freed; stacks do not overlap; counters match |
| generators (`generator.c`) | state, frame | next, end, drop | asked while running, dropped while suspended | its frame lives as long as it may run |
| object storage (`var.c`, `var.h`) | count, type, free list per type, pending list, lock depth | new, reference, release, lock, unlock | deletion recurses through objects, classes and their free lists | nothing reachable is freed; the unreachable is |
| dictionaries (`dict.c`) | open-addressed table, order map, counts, thresholds | set (3 variants), delete, get, clear, iterate, views, union | dead buckets, resizing, the order map beside the table | it is a map in insertion order |
| classes (`class.c`, `property.c`, `method.c`) | method resolution order, attributes, private names | create, instantiate, attribute access | linearisation, instances of a class that goes | lookup follows the order; class outlives its instances |
| imports (`import.c`, `path.c`) | module cache, `sys.import_path`, breadcrumbs | import, search, cache | cycles, failures, nested directories | a module runs once; lookups start where the script is |
| exceptions and traces (`err.c`, `debug.c`) | pending exception, location stack, trace flag | set, get, clear, print | flags cleared on some paths only | a trace names the frames of its exception |
| argument unpacking (`vm_getargs.c`, `vm.c`) | none | format-directed unpacking, star and keyword arguments | partial failure leaves references | all or nothing |
| lexer (`token.c`) | buffered tokens, push-back | get, unget, seek | states inside f-strings and comments | unget inverts get |
| sequences (`array.c`, `tuple.c`, `range.c`, `set.c`, `iterator.c`) | items, positions of iterators | chunk insert and delete, slices, iteration | lists that change under an iterator | index arithmetic is exact |
| strings and bytes (`string.c`, `bytes.c`, `utf8.c`, ...) | bytes, width | search, slice, pad, format, encode | index and width arithmetic | as for sequences |
| numbers (`integer.c`, `float.c`, `complex.c`, `strto.c`, `op.c`) | none | arithmetic | 64-bit edges | division, modulo, shifts as documented |
| files (`builtin/io.c`) | raw file, buffer, position | read, write, seek, flush | position against buffered data | what is written is read back |
| byte code text (`reassemble.c`, `disassemble.c`) | tables of constants and labels | write, parse | references between functions | parse inverts write |
| sockets, built-in functions, small types, start-up, programs, tools, library scripts | little or none | wrappers | | |

`PROJECT.json` lists every component with its status, and under `hazards` the
lines where each of the hard behaviours bites.

### What is not modelled, and why

* Declarations, scopes, closures, assignment, calls, literals, classes and
  f-strings in the code generator; the passes that fold tuples and binary
  constants and that prune `.rodata`.  Planned, see section 3.
* What instructions compute: `CALL` in ExecuteLoop, `Name` in VmRefs stand for
  any result.
* The formats of `vm_getargs.c`, tuples, ranges and sets, comparison and sorting
  of lists, views and unions of dictionaries, byte code text: planned.
* The wording of messages, how a trace is laid out, how `locations.c` packs line
  numbers: wording only.  Floats and complex numbers, in arithmetic and in
  formats: out of TLC's reach.
* Sockets and system calls (thin wrappers), `programs/`, `tools/`, `lib/`.

## 2. Modules

    Statements  <- Assembler <- AssemblePost <- FlowPrograms ----.
                                                                 v
    ExecuteLoop <- FrameShape ------------------------------> MCFlow
    VmFrames <- MCVmFrames;   VmRefs <- MCVmRefs;   Exceptions <- MCExceptions
    ObjectHeap (abstract)  <~ VarPool                   (<~ : implemented by)
    Mapping (abstract)     <~ Dict <- MCDict
    Import <- MCImport
    FileBytes <- ByteFile (abstract)  <~ Files <- MCFiles
    SliceValues (reference definitions) <- Lists <- MCLists
    Classes
    TextMeaning (reference definitions) <- Text <- Literals <- Numbers -.
    TextMeaning                         <- Bytes -----------------------+-> Values <- MCValues
    Numbers <- Lexer <- Tokens <- MCTokens

    Proofs, each beside the module it is about:
    FrameShape <- FrameShape_proofs;   Import <- Import_proofs;   Files <- Files_proofs
    Exceptions <- Exceptions_proofs;   VmFrames <- VmFrames_proofs;   VarPool <- VarPool_proofs
    Dict <- Dict_proofs;   VmRefs <- VmRefs_proofs

### Compiler, optimiser and interpreter

* **Statements**: abstract syntax of the control statements and boolean
  conditions, and `Meaning(p, trace)`, a judge of traces.  A trace lists the
  visible events of a run: which call was made and whether it threw, which test
  came out how, which item was fetched.  The judge walks the source along it.
  It is the abstract specification of the pipeline and knows no instructions.
* **Assembler**: the recursive descent of `assembler.c` over that syntax, with
  labels, blocks and nesting as in the code (`assemble_while`, `assemble_foreach`,
  `assemble_try`, ...).
* **AssemblePost**: the passes of `assemble_post.c`, each as a function from
  frame to frame, the order and repetition of `optimize_instructions_in_frame()`,
  and `resolve_jump_labels()`.
* **FlowPrograms**: the families of programs that are compiled.
* **ExecuteLoop**: a state machine for one frame.  `ppii`, `stack`, `blocks` and
  `retval` are `fr->ppii`, the operand stack above the locals, `fr->blocks` and
  the way the loop ends.  One action per instruction or per group that moves the
  frame alike; `Raise` is the handler search after `RES_ERROR`/`RES_EXCEPTION`.
* **FrameShape**: which code deserves the interpreter's trust: every reachable
  instruction has one operand stack and one block stack, whatever path leads
  there.  `ShapeAssumption` states it of the code, the invariants of the frame.
* **MCFlow**: compile the program families, infer the shapes.

### Frames, calls, generators (VmFrames)

`calls` is the C stack of `execute_loop()`s and built-in callbacks; `active`,
`free`, `nr_free_frames`, `heap` are `vm.active_frames`, `vm.free_frames`, its
counter and what malloc gave; `gens` are generator objects.  Actions: a user
function is called (refused beyond `RECURSION_MAX`), a built-in is called
(`function_call`), a call is rejected, a generator function is called
(`vmframe_new_generator_frame`), return or exception, a generator is asked for an
item, yields, ends, is dropped; `exit()`.  Operand stacks are intervals
`base..sp-1`, so that overlap is visible.  `lost` is history: the frames of
generators that were dropped while they could still go on, which nothing ever
frees (GeneratorType has no `reset`).

### Exceptions and traces (Exceptions)

`pending` is `err->exception_last`, `locations` the stack of positions in debug.c,
`debug_error` the flag beside it, `traces` what each exception object carries.
`calls` are the scripts' functions, built-in functions and generators in
progress, with the position they are at, whether a `try` is open and whether
`vm_exec_func()` pushed a position for them.  `failing` says that ErrorVar was just
returned and to whom, so that every way out is a step of its own: a handler
that catches, a call that passes it on, a built-in that clears it, the end of a
generator, the end of the script.  A *hidden* call is one that C code makes
without an instruction (a comparison while sorting, a `__str__` while printing).
The code's ghosts are kept: built-ins that report success although their
helper failed leave an exception pending (`var_sort()` is one).
`ClearGhost` is C code that clears such a leftover first, as `int_pow()` does
(`integer.c:98`).

### References of instructions and calls (VmRefs)

A frame is its stack, its blocks and what `do_call_func()` holds on the C stack
while it calls; `count` is `v_refcnt`, `parts` what an object refers to.  Each
action is a handler of vm.c: what it pops and pushes, and, as two lists, the
references it takes and gives up, on the way that succeeds and on the one that
fails.  `count` changes by the two lists alone; `References` counts the slots,
parts and C variables that there are.  `do_call_func` goes through
`vm_exec_func()`, `function_call()` and `vmframe_unpack_args()` with bound
methods, variable and keyword arguments; `Leave`, `CallReturns`, `Handle` and
`Propagate` are the ways back.  `Delete` comes before anything else, since in the
code deletion is part of VAR_DECR_REF.  Iterators yield their items in any
order; the address of a new object is any, and so one is chosen.

### Object storage (VarPool, ObjectHeap)

VarPool has the state of `var.c`: `v_refcnt`, `v_type`, the free list inside each
type, `var_pending_free`, `var_locked`.  `work` is the C stack of
`var_delete__()` within itself, so that deletion takes its steps one reset item
at a time in the order of the code.  ObjectHeap is what everyone else assumes:
objects stay what they are while something refers to them, and an address is
given out only when nothing is there.

### Dictionaries (Dict, Mapping)

Dict has the fields of `struct dictvar_t` (`d_keys`, `d_vals`, `d_map`, `d_count`,
`d_used`, `d_size` and the two thresholds) and every operation that changes them:
three kinds of insertion, removal, clear, growth and shrinking with
`transfer_table()`.  Its loops are recursive functions: `Probes` is the sequence of
buckets that a search tries, `FirstBucket` where it stops; `Doublings` and `Halvings`
are the loops over sizes, `Doubled` and `Halved` one turn; `transfer_table` puts one key after the
other where a search for it finds the first empty bucket (`put`).
`Keys` are those that can be hashed: a call with another is refused before it looks
at the table (`dict.c:187`, 413) and changes nothing.  An entry of `d_map` is a number
here; in the code it is as wide as `d_size` asks for, and the width changes only
with the table.
Mapping is a map that remembers the order of insertion.
`iter` is an iterator in progress, its place in the map, and, as history, which
of the keys present it has yielded; it is followed until the table is rebuilt
or cleared under it, from when on its place means nothing.

### Imports (Import)

`running` is the stack of scripts in progress, the recursion of `evc_import()`
through `vm_exec_func()`; `cache` is `import_dict`, keyed by file identity;
`breadcrumbs` and `import_path` are the lists in `sys`; `began` counts how often a
module's code was begun.  A path is a directory and the file that is found
there, so that two paths may lead to one file.  `ImportReturns` and
`ImportBegins` are `evc_import()` up to the point where the importer has its
answer or the module's code begins, `ModuleEnds` is the rest of it, `Init` and
`MainEnds` are the two halves of `main()`.  Any script may import anything at any
time, catch the error of an import or end with it.

### Files (Files, ByteFile, FileBytes)

Files has the descriptor (`disk`, `off`, `open`), the buffers of `struct binfile_t`
and `struct textfile_t` (`outbuf`, `inbuf`, `inpos`, `ft_eof`) and one action per
method of the three classes.  The loop of `text_read()` and `do_text_readline()`
takes a step per turn (`TextDecode`, `TextFill`), with what it has decoded in
`call.out`.  The device holds `Space` bytes; `write(2)` beyond that stores what
fits and fails.  ByteFile is the promise: an array of bytes with one position;
each call is judged by its request and its answer.  FileBytes has what both
share: four bytes that make characters of one and of two bytes, lines, and how
much of a buffer can be decoded.

`Beyond` names calls that are known to break the promise (section 6): reading
`"nothing"`, seeking `"below"` the beginning, reading on a `"full"` device and
writing nothing behind a cut `"tail"`.  Not in the model: append mode, where `tell()` before the first flush does not know the
end; codecs of one byte per character, which are the case without `Lead`; a
descriptor or a file shared with others.

### Lists (Lists, SliceValues)

Lists is one list object: `slots` is the block `items` of `alloc_size`, `size` is
`v_size`, `refs` the references it holds, `lock` its lock.  An operation of `array.c`
is a function on that memory (`array_insert_chunk`, `array_delete_chunk`, the four
kinds of slice loops) and the actions are the methods and the generic
`var_setitem()`.  `printing` is `array_str()` in progress: an instance in the list
may run a script from its `__str__`, and then everything else may happen in
between.  The list may be its own source.  `stale` says that memory or a
reference was read that the list no longer has; the program has no meaning from
there on.  SliceValues says what the same operations mean, with a slice as a set of
positions.

Worth knowing, and not contradicted by any document: a slice of step -1 is
assigned upwards and one of step -2 downwards; a downward slice with its stop
left out never reaches the first item; `insert()` takes any negative index for the
end; a downward slice that ends below the first item can be read but not
assigned unless its step is -1; a slice of an empty list is that list itself.

### Classes

`class` are the classes in the order of their definition, each with the fields of
`struct type_t` (`bases`, `mro`, `methods`, `priv`, `all_priv`, whether there is a
`delegate_name`); `inst` the instances with the names in `inst_attr` and their
delegate; `stack` the frames, as far as they say whose method runs, for which
"this", and whether it is their first argument.  `mro_merge()` and
`type_init_private()` are folds; `instance_getattr()` answers where an attribute was
found and whose method it becomes.  Attributes are functions and are called; a
function that is called plainly has the "this" of its caller, as in
`vm_exec_func()`.  A class without an order leaves nothing behind, and an
`__init__` that throws is not followed.

Worth knowing: a private attribute can only be reached by code that runs for an
instance of *the very same* class.  A method inherited from the class that
declared it cannot (the test suite asks for that), while any function stored in
an instance, or called from one of its methods, can.

### Strings, bytes, integers (Text, Bytes, Literals, Numbers, Values)

Each method is an operator from values to its result, written after its C
function: a string is its characters *and* the width they are stored in, since
searching, comparing and widening depend on it; integers have `Bits` bits.
Literals reads and writes (`string_parse()`, `bytesvar_from_source()`, `repr()`,
`evc_strtol()`), Numbers is arithmetic and both ways to format.  TextMeaning says
what the methods mean: where a needle occurs, what the fields between
separators are, what centring is.  Values is the machine: one value, which any
method or conversion may replace, so that methods meet what other methods
leave (a cut string that is wider than it need be, bytes out of text).  Every
value reached is given to every method and compared with the meaning.  Where
the code is known to differ, a condition with a name says so.

### Tokens (Lexer, Tokens)

Lexer has the functions of `token.c` that find where a token ends: `str_slide()`
for everything quoted, f-strings with their fields, comments across lines,
numbers, names, delimiters.  Tokens has the state machine around them: the
line, `pgm` with `nexttok`, end of input, and `iatok`, what is kept of a typed line
and of tokens looked ahead at between one statement and the next.  The
assembler is an actor that reads up to a semicolon, goes back, looks ahead as
for `else`, refuses a statement, or fails to compile it.

Operators whose comment begins with *Seeded fault* are variants of the
definition that follows them; they are not used in any specification.  Each
shows that a property would notice that bug.

## 3. Plan

Done: the modules above.  Next, in this order:

1. **Closures** and declarations in Assembler: cells shared between frames;
   refinement to an environment model.
2. **Argument unpacking**: `vm_getargs()` as a function over format strings, with
   what was stored before a later failure.
3. **Tuples, ranges, sets**, comparison and sorting, in the manner of Lists.
4. **Byte code text**: that reassembly inverts disassembly.

Abstract specification planned: an environment of variables (Closures).

Theorems: section 5 has what is proved; of the invariants that are not, each is
about a recursive operator or a fold (section 5, "Only model-checked").  Next:
the loops of Lists as those of Dict, then `ReferencesExact`; with Closures, that
cells implement the environment.

## 4. Runs

| run | module / cfg | asks |
|---|---|---|
| `flow` | MCFlow / MCFlow.cfg | Is compiled and optimised code what its source says, on every path, and does it keep its shape? |
| `vm_frames` | MCVmFrames / MCVmFrames.cfg | Do nested calls, callbacks, generators and exit() keep frames, stacks and counters apart? |
| `vm_refs` | MCVmRefs / MCVmRefs.cfg | Does each instruction and call count the references it moves? |
| `var_pool` | VarPool / VarPool.cfg | Are counts exact, does storage implement plain objects, and is garbage reclaimed? |
| `dict` | MCDict / MCDict.cfg | Is the table sound and does it implement an ordered map? |
| `import` | MCImport / MCImport.cfg | Do imports keep the module cache, the breadcrumbs and the search path in step? |
| `files` | MCFiles / MCFiles.cfg | Do buffered files behave like an array of bytes with a position? |
| `lists` | MCLists / MCLists.cfg | Do indices, slices and methods mean what they say, whoever changes the list while it is printed? |
| `classes` | Classes / Classes.cfg | Is there an order of the bases whenever there can be, and do private names stay private? |
| `values` | MCValues / MCValues.cfg | Do methods of strings, bytes and integers mean the same for every value that other methods make, and does what is written read back? |
| `tokens` | MCTokens / MCTokens.cfg | Does the assembler get every token once, in order, with its meaning, whatever it goes back to, looks ahead at or refuses? |
| `exceptions` | MCExceptions / MCExceptions.cfg | Are positions pushed and popped in step, and does each exception carry the trace of where it was raised? |

Every property called *refuted* below is a definition of its module that says
what documents or comments say; put in place of the invariants of the module's
configuration, TLC gives a counterexample within seconds.  Where it takes other
values of the constants, section 6 names them.

### Properties

* `TraceMatchesSource`: at every moment the source allows the trace so far, and a
  finished run ended as the source ends (value, null or exception).
* `Terminates` (liveness): a run finishes or keeps showing events, so no cycle
  of silent instructions.
* `FrameHasShape`: a running frame has the operands and exactly the blocks that
  its instruction was compiled for.  `NothingUnderflows`: the consequences that
  `push()`, `pop()`, `FOREACH_ITER` and the block stack depend on.
* `FramesAccounted`, `RunningFramesLive`: a frame has one owner or is one that a
  dropped generator lost; no C function runs on a freed one, nor shares its frame, but
  for the loops of a generator that was asked for an item from within itself.  Such
  loops share a frame, and are without when one of them has ended; that this never
  happens is `NeverUnframed` (refuted).  `CallsNest`: the
  recursion counter is the nesting, with the loops that `exit()` cut off, parts of
  the VM stack follow each other, and
  a callback finds the frame of its caller unless that is a generator's.
  `ParentIsCaller` (refuted): even then.
* `LocationsMatch`: the stack of positions is what the code in progress waits at,
  after every way out.  `NoTraceLost`: an exception that leaves the code that
  raised it has a trace, and what arrives is what was raised.  `TraceTells`
  (action property): the trace taken names where it was raised and where its
  callers were, and is never replaced.
* In VmRefs, `NothingDangles`: what any stack, object or call refers to exists and is
  counted.  `BalancedSteps` (action property): a step neither loses a reference
  nor makes one up, but for the two error paths that are known to (section 6).
* `StorageSound`: counts equal references; what is reachable is an object; an
  address is in one list, and nothing waits without a lock.  `ImplementsHeap`
  (refinement), `Reclaimed` (liveness).
* `TableSound`, `ImplementsMap` (refinement); `IteratorsExact`: an iterator yields
  each key once, and one under which keys come and go, each that is there.
  `IterationExact` (refuted): also after `clear()`.
* `BreadcrumbsMatch`: the breadcrumbs are the paths of the scripts that run.
  `LoadingIsRunning`: a module is LOADING exactly while it runs, and none runs
  inside itself.  `RunsOnce`: a module's code is begun at most once.
  `PathGoesHome` (action property): when an import ends and changes the search
  path, the path begins with the directory of the script that goes on.
  `PathIsRunning` (refuted): it always begins with that of the script that runs.
* `ImplementsFile` (refinement): every answer, and every change of what others
  see, is that of an array of bytes with a position.  `BuffersExclusive`: never
  are both buffers of a binary file in use, which `do_bin_tell()` has a check
  for, and what is unread is what stands before the descriptor's offset.
  `SurvivesEnd` (refuted): a read at the end answers.
* `OperationsAgree`: in every state and for every argument, the loops and
  clamps of the code give what SliceValues says.  `ReferencesExact`: one reference
  for each place.  `LockedNeverGrows` (action property): a locked list does not grow, and
  printing meets no slot that is no item, but for items deleted meanwhile.
  `PrintReadsItems`, `SelfSourceSound` (refuted): not those either; a list may be
  assigned to itself.
* `OrderIfAny`: the stored order of a class names all it inherits from, once,
  and keeps the orders of its bases; a hierarchy is refused exactly if it has no
  such order.  `OutsidersSeePublic`: a name is private if its nearest definition
  is, and whoever wrote what, and through whatever delegates, code that does not
  run for an instance of the class gets nothing private.  `ReadYourWrites`
  (action property): who may write may read it back.
  `DelegateAnswers`: an instance without an answer gives its delegate's.
  `OverridesWin`, `SuperGoesUp`, `PrivateStaysInMethods` (refuted): see section 6.
* `TextAgrees`, `BytesAgree`: every method gives what it means, at every width.
  `NumbersAgree`: a result that a word can hold is exact, quotient and remainder
  belong together and bits are those of the number.  It says what the tutorial
  says, where the code follows it: nothing of results out of bounds
  (`OutOfBounds`), nor which way a division with different signs rounds
  (`SignsDiffer`).  `IntegersBounded` and `DivisionFloored` (refuted) are what the
  tutorial says, in full.  `WritingAgrees`: what is
  written reads back, as a literal, as an integer and through both formats.
* `OnceInOrder`: between two tokens the assembler gets there is nothing but
  blanks and comments, so none is lost, repeated or out of order.
  `RefusedNeverGiven`: a literal that means nothing never gets to the assembler,
  not even from what was saved of a typed line.
  `TokensMeanText`: a string, bytes or an integer has the value of its characters
  (an integer that of its digits in the base of its header, in two's complement
  where `strto.c:46` says so; `LeadingZero` aside), names and other numbers are their
  characters, and an integer is refused if and only if a word has not room for
  it.  What a double is worth is not modelled, only whether there is one.  The
  interpreter ends at nothing but what §6 lists: `NoStrayValue` (refuted) leaves
  the last of these out.

### Bounds, and why they are enough

* `flow`: loops of one and two levels around every way to leave a block, inside
  `try` with and without `finally`; conditions of depth two over two unknowns and
  constants, and one chain of three operands, which share a label.  Blocks interact with the next enclosing one only, so two levels show
  each pair.  `MaxTrace = 6` events reach the second iteration of the outer loop.
  `FRAME_NEST_MAX = 8` is above what these programs nest; that a program which
  nests deeper is refused by the compiler is in Assembler.
* `vm_frames`: 5 frames, 2 generators, `RECURSION_MAX = 2`, `MAX_FREE_FRAMES = 2`,
  4 activations: the limit, the full and the empty free list, a generator under a
  function under a generator and both orders of their ends occur, and so do three
  loops of one generator within each other.  When such a loop goes on after another
  one of its generator has ended, the program reads a freed frame: the model stops
  there (`Unframed`), since nothing that follows has a meaning.  What two loops of a
  generator find on the operand stack that they share is not followed.
* `vm_refs`: 7 addresses and three heaps with every kind of object, any three
  values as operands, any two instructions after one another, wherever a call or
  an exception leads; displays of two entries; calls of three kinds of function,
  plain and as methods, with up to two arguments and with or without keywords,
  and one instruction in them.  An instruction touches its operands only,
  so that states with more objects add nothing to a step.
* `var_pool`: 3 addresses: a class, an instance and what it refers to, or two
  instances of a class; free lists of length 1, so full ones occur; at most 2
  references from outside and 1 item per object, on the whole graph, as liveness
  needs it.
* `dict`: 3 keys, two of which collide in every table and the third in small
  ones; `INIT_SIZE = 2` in place of the code's 16 makes growth and shrinking
  frequent; 6 occupied or dead buckets take the table from 2 to 16 buckets.  One
  `clear()` per run; the second would begin from a table of the same form.

* `import`: 3 directories, 4 files and a directory that opens like a file; one
  file in two directories, one name in all of them, a name that leads below, an
  absolute one, the library directory also given by `-I`.  Every module can be
  running above every other, in any order, with every outcome.

* `files`: buffers of 2 bytes (8192 in the code) and characters of up to 2, so that
  refills happen within a read and cut characters in two; files of up to 4
  bytes on a device of 4, so that the buffer fits, overflows and fails to be
  stored; seeks up to one byte beyond that.  Reads of nothing, 1, 3 and all.

* `lists`: every list of up to 3 items out of two, one of them shared with others
  and one that talks when printed; indices to one past both ends, steps -2, -1,
  1, 2 and sources of 0 to 3 items, which meets every clamp, growing and
  shrinking blocks and slices shorter, longer and as long as what they get.
  With `MaxLen = 4` the run takes five minutes and says the same.

* `classes`: up to 4 classes with at most 3 bases each, and every list of bases for a
  fifth, so that there are bases which disagree about the order of two others; classes, names and
  delegates together at most `MaxSize = 4`: a private and a public name in a class or
  in a class and its base.  Instances and classes together at most `MaxUsed = 4`:
  a chain or circle of three delegates of one class, two instances of two.  Two
  frames: a method and a function called from it.  Classes never change, so it
  loses nothing that all are defined first.

* `dict` uses a VIEW without `res`, the answer of the last operation, which has no part
  in what comes next; the refinement judges it step by step.

* `values`: `MaxLen = 3` characters out of thirteen (letters in both cases, a digit's
  sign, blanks, ends of lines, what literals escape, `%`, characters of one, two and
  four bytes), `Bits = 6`.  Needles of up to three overlap with themselves, and
  differ from what is searched in each place.  All 64 integers are tried
  against all others.

* `tokens`: up to four or five pieces out of those that decide where a token ends:
  quotes, backslashes, prefixes, braces, comments, number headers, semicolons
  and ends of lines, typed and from a file.  Four pieces hold a string with an
  escaped quote, two statements on a line, and one that goes on on the next.
  `Bits = 4` makes 16 an integer that is refused, and `MaxExponent = 1` (308 in a
  double) does the same to `8e8`, `8e8j` and `.08`, while `.8` and `8e1` are read.
  Whatever memory held before a token was stored in it, its pointer is one of
  three kinds: none, one that ends the program when followed, and one that does
  so when it is given up, or never.

* `exceptions`: `MaxCalls = RECURSION_MAX = 3` calls in progress, two positions, two
  exceptions (one being handled while another is raised), one generator: a
  callback of a generator of a function, and a refused call at each depth.

Symmetry is used for addresses, frames, generators and keys that hash alike,
in runs that check invariants or refinement, never with liveness.

### Fairness

* ExecuteLoop: `WF(Next)`. `execute_loop()` is a `for (;;)` without a wait: while it
  has not returned it takes the next instruction.
* VarPool: `WF(Delete)`: a deletion that has begun is a C call that proceeds.
  `WF(Unlock)`, and `SF` of the outermost unlock: every `var_lock()` is paired with
  `var_unlock()` in the same function, around loops over one stack.
* The other modules check safety only and assume no fairness.

## 5. Proofs

The proofs hold for every value of the constants, so for any number of frames,
objects, files and calls.  Each invariant below was checked with TLC first.

### Frames of compiled code (`FrameShape_proofs`)

For every set of programs, every `FRAME_NEST_MAX` and every `MaxTrace`:

* `TypeCorrect`: `Spec => []TypeOK`,
* `ShapeKept`: `Spec => []FrameHasShape`,
* `StacksSuffice`: `Spec => []NothingUnderflows`.

Assumptions: the constants' types (`NestAssumption`, `BoundAssumption`,
`CodeAssumption`) and `ShapeAssumption`, that the code is shaped: each instruction
fits its own shape and hands each successor, handler and loop end the shape that
one has.  TLC evaluates all four in run `flow` for every compiled program of it,
so the theorems are about code that the compiler really emits.

The invariant is `Inv == ex \in Executables /\ TypeOK /\ FrameHasShape`.  Neither
part is inductive alone: that a pop leaves a sequence of values needs the shape
(the stack is not empty), and that a handler gets its shape needs the types of
blocks.  `NothingUnderflows` is no part of it; it follows, since a shaped
instruction's needs hold of its shape.  The argument: `Standing` collects what
shapedness says of the current instruction; `Arrives` shows that a step along an
edge restores `Inv`; `Raises` and `LeaveKeeps` do the same for exceptions and
for break, continue and POP_BLOCK; `StepHolds` takes the instructions one by one.

### Imports (`Import_proofs`)

For every tree of files, every working and library directory and every `-I`
option:

* `TypeCorrect`: `Spec => []TypeOK`,
* `BreadcrumbsBalanced`: `Spec => []BreadcrumbsMatch`,
* `NoCyclicLoad`: `Spec => []LoadingIsRunning`,
* `ExecutedOnce`: `Spec => []RunsOnce`,
* `PathAlwaysGoesHome`: `Spec => PathGoesHome` (action property),

from `PathsAssumption`, the types of the constants.  The invariant is the
conjunction of the first four.  `BreadcrumbsMatch` needs the types: only the main script
may lack a path, so which breadcrumb belongs to which script is fixed by whether
it does.  `RunsOnce` needs no more than that the entry is written before the
code runs.  That a module never runs inside itself needs both directions of
"LOADING exactly while it runs".  There is a lemma for each action
(`ReturnsKeeps`, `BeginsKeeps`, `EndsKeeps`, `MainKeeps`), and `CutType` and `PushPop`
for the lists.  `PathAlwaysGoesHome` needs `BreadcrumbsMatch` before and after the
step: only an import that pops can change the path without starting anything
(`EndsAtHome`), and the breadcrumb that is then on top is the path of the script
below (`HomeIsTop`), whose directory `pop_path()` makes the first.

### Frames and calls (`VmFrames_proofs`)

For every number of frames and generators, every `MAX_FREE_FRAMES`, `RECURSION_MAX` and
`MaxCalls`, and with generators that ask themselves:

* `FramesAlwaysAccounted`: `Spec => []FramesAccounted`,
* `RunningFramesAreLive`: `Spec => []RunningFramesLive`,
* `CallsAlwaysNest`: `Spec => []CallsNest`.

The parts of `Inv`: `Sound(l, held)` is about the lists of frames with
a set `held` of frames in nobody's list, those of generators and lost ones; the
allocator's functions are shown to keep it, each with the frame that it hands
over moving in or out of `held` (`AllocSound`, `FreeLastSound`, `FreeHeldSound`,
`ExitSound`), before any action is looked at.  `OwnersDiffer`: no two generators own one
frame.  `Nested` ties the calls in progress to the active list, by rank among those
that have a frame there, and to the stack; it says so of all calls, since a return
uncovers the one below.  `Runs`: a loop of a generator is on the frame that this owns,
unless the generator was asked from within itself and another of its loops has
ended; and one that was not asked so has one loop at most.  `ResumeStep` adds to the
generators of the first kind, `GeneratorEndsStep` takes the frame from their other
loops (`RunsEnded`), and everything else is shown not to: it is what tells apart the
frames that a second loop may be on from all others.  `Counted`: the recursion
counter is within its limit, and `Depth`, what is left of it without the loops that
`exit()` cut off, is the number of loops in progress.

### Exceptions (`Exceptions_proofs`)

For every depth of calls, any lines, exceptions and generators:

* `LocationsAlwaysMatch`: `Spec => []LocationsMatch`,
* `NoTraceIsLost`: `Spec => []NoTraceLost`,
* `TracesAlwaysTell`: `Spec => TraceTells` (action property).

`LocationsMatch` is about the code that runs now and is not inductive: a return
uncovers the call below, with what is left of the stack of positions.  `StackOK`
therefore says it of every call in progress: what was on the stack when it
began is, item by item, where code further out is, and without generators it is
where all of it is.  `StoryTold` does the same for the history that `TraceTells` is
stated with.  `StackStep`, `GeneratorsStep`, `ErrorsStep` and `StoryStep` each take one
part of the state through all actions.

### Object storage (`VarPool_proofs`)

For every set of addresses, every `MAX_FREELIST_SIZE` and all bounds:

* `StorageAlwaysSound`: `Spec => []StorageSound`,
* `StorageImplementsHeap`: `Spec => ImplementsHeap` (refinement),

from `PoolAssumption`, by which there are finitely many addresses: a count
is the size of a set.  `Held` is how many references there are to each address, from
items, from instances to their class, and from outside.  `References` and `FreeLists`
do not speak of counts; `Counted` ties counts, the objects that wait and the C stack
`work` to `Held`: an object's count is what it is held, and one more for an object
whose deletion is under way, which was nudged (`var.c:218`); whatever is on the
stack or waits has none left that refer to it, and is there once.  So the
induction over the C stack is on its contents as a set, not on its depth.  For
each way in which references change there is a lemma on `Held` (`HeldNew`,
`HeldLess`, `HeldRooted`, `HeldStored`, `HeldTaken`).  For the refinement, the objects
that a step collects are those whose `Held` is 0 afterwards (`HeapGone`): the abstract
heap may drop these and no other.

### Files (`Files_proofs`)

For every size of the buffer and of the device, every content and every argument:

* `BuffersAlwaysExclusive`: `Spec => []BuffersExclusive`, for all calls, those in
  `Beyond` and a C library whose `realloc(p, 0)` is null included;
* `FilesImplementByteFile`: `Undisturbed => (Spec => ImplementsFile)` (refinement), where
  `Undisturbed == Beyond = {} /\ ReallocOfNothing = "block"`.

That hypothesis cannot go either: for each element of `Beyond` TLC refutes the
refinement (section 6).  `FilesAssumption` gives types and that a file fits the device.

`SafeInv` is the types, that only files of a kind have its buffers, and that what is
unread stands before the descriptor's offset.  `RefInv` adds what holds between the
turns of a text read.  `Pending`: what has been decoded so far is what stands there
on the disk, whole characters, without an end of line, and fewer of them than
were asked for.  `AtEnd`: `ft_eof` means that the descriptor is at the end and what is
unread is a cut character.  The abstract file sees one position, `Pos`: the
descriptor's offset with what is written and without what is unread or decoded.
All turns but the last are stutters, and the last is the abstract read (`Round`,
with `RoundBad`, `RoundEnough`, `RoundEnds` and `RoundGoesOn` for its four outcomes).
How much of a buffer can be decoded is defined on the buffer, what the whole read
answers on the disk; the lemmas of the first part (`EndsOf`, `DecodedStops`, `LineOf`,
`RoundStops`) say both as `Stops(disk, a, b, n, e)`, a statement about places on the
disk, in which the turns can be added up.

### References of instructions and calls (`VmRefs_proofs`)

For every heap and stack that a run may begin with, any signatures, any number of
objects, parts and instructions and any depth of calls:

* `NothingEverDangles`: `Spec => []NothingDangles`,
* `StepsBalance`: `Spec => BalancedSteps` (action property),

from `ConstantsAssumption` (there are finitely many addresses, and the three fixed
objects are three) and `ScenariosAssumption`: what a run begins with refers to objects
that exist, and objects have the parts that their kind has (`PartsFit`).

`NothingDangles` is not inductive: that a handler may look into an operand, for the
value of a cell or the owner of a method, takes `HeapOK`; that it pops what it
pushed, and not a local or what an open block stands on, takes `FramesOK`, by
which blocks stand upon each other between the locals and the top of the stack;
that a return uncovers a frame that holds nothing else than its call, and that there
is one exception, takes `CallsOK`.  `Counted` is the rest: each count is at least the
references there are, and what has one exists.

Nothing is said of single counts after that.  `Occurrences` of a concatenation, of a
part cut out, of an item replaced or removed are sums (`OccursConcat`, `OccursCut`,
`OccursExcept`, `OccursRemove`); so are those of all frames and of all objects (`TotalChange`).
What a step does to the frames is `FramesMove(before, after, gone, come)`: the
references in `gone` have left the frames and those in `come` have come; `PartsMove` says
the same of the heap.  An action is then one equation between the sequences that it
names, what it takes and gives up against what moves (`MovedStep`, `WeighedStep`),
and there is a lemma of that form for each (`SucceedsStep`, `CreateStep`, `SetStep`,
`FrameStep`, `LeaveHolds`, ...).  The two that do not balance, `UnaryHolds` and
`DictHolds`, are inequalities: too much is kept, never too little.

### Dictionaries (`Dict_proofs`)

For any set of keys, any values and hashes, every `INIT_SIZE` that is a power of 2, and
all bounds:

* `SearchTriesEveryBucket`: a search tries every bucket,
* `TableAlwaysSound`: `Spec => []TableSound`,
* `IteratorsAlwaysExact`: `Spec => []IteratorsExact`,
* `DictImplementsMap`: `Spec => ImplementsMap` (refinement),

from `DictAssumption`: the types of the constants, and that `INIT_SIZE` is a power of 2
from 2 to 2^16 (16 in the code).  The set of keys may be infinite.

*Why a search ends.*  The comment of `seek_helper()` says that `5 * i + 1` modulo a power
of 2 comes to every bucket, and "I don't know the proof" (`dict.c:211`).  The proof
is about the sequence of numbers x, 5 x + 1, ... without the modulus.
`EveryJump`: 2^n turns add to x an odd multiple of 2^n (namely, (4 x + 1) times
one).  So (`EveryArrival`), if fewer than 2^n turns lead to b up to a multiple
of 2^n, either they lead there up to a multiple of 2^(n + 1), or those and 2^n
more do.  The hash matters only for the first turns: `PerturbEnds` bounds how many;
from then on the sequence is that of remainders (`ProbesStep`).

*The table.*  `BucketsOK` is about the buckets and the map: the first `d_count` entries
of the map are the buckets that are not empty, each once; a key is in one bucket,
with a value, and a search for it reaches that bucket before an empty one
(`Reached`).  This last is what makes DEAD buckets necessary and is why a removal
may not empty its bucket: another key's search may lead through it
(`StillReached`, `SeekFinds`).  `Table` adds that `d_used` is the number of keys.  It holds in
the middle of operations too, when the markers are those of another size.  `Rest`
is what a table is between operations: `Table`, the markers, no more than
`d_grow_size` buckets counted, nothing in the map from `d_grow_size` on, and nothing
beyond `d_count` if the table may shrink.  `transfer_table()` reads the whole of the
old map, and `clear()` leaves old entries there: the last two conditions are why
it never meets one.  A table that shrinks has none, and one that grows has
written over them all.

*Operations.*  Each is first shown for the table as it is before its size is looked at
(`AddTable`, `RemoveTable`, `ClearTable`, `ReplaceTable`), then for the order and the values
that the refinement sees (`AddMap`, `RemoveMap`), then with `Grown` and `Shrunk`, which
decide how many turns the loops over sizes take: at most one when growing, and
when shrinking as many as it takes to a size that is not below `INIT_SIZE`.
`Transfer` is the loop of `transfer_table()`, by `MovedStart`, `MovedOne`, `MovedNone` and `MovedAll`: after n
positions of the old map, the new table has the keys before n, in their order,
and room for the rest.

*The invariant.*  `IInv` is `Rest(d)`, that the length is `d_used`, that the map is clean as
long as there was no `clear()`, and that what an iterator has given are the keys
behind its place, which is not beyond `d_count`.  `TableSound` and `IteratorsExact` are not
inductive: that a search finds its key does not follow from where it ends now
but from `Reached`, for every key that is there.

*Induction.*  The library's induction theorems cannot be instantiated, but those about
well-founded relations say that a set of numbers has a least member, and that
is induction for all that can be said with a set (`LeastIn`, `AllNumbers`).  `Loops` uses it to
show that a recursive function has a value: of the finite sequences that do what
the loop does there is one of each length.  `Powers`, `ProbesStep`, `MovedAll` and
the lemmas on sizes each begin with it.

### Lists and ranks

What becomes of the set of a list's members, of its being without repetition and
of the rank of an element when one is added to or taken from either end is in
the first part of `VarPool_proofs` (free lists, objects that wait), `VmFrames_proofs` (frames),
`Exceptions_proofs` (positions) and `Dict_proofs` (the order of keys), each with as much of
it as it needs.

### Only model-checked

* That what the compiler emits is shaped and means what the source says
  (`TraceMatchesSource`); everything in Values and Tokens.  These are about
  RECURSIVE operators (the compiler on programs, the lexer and the methods on
  strings), for which the prover has no arithmetic; and the induction would be over
  trees and texts.
* `Terminates` and `Reclaimed`: liveness under fairness.
* The properties of Lists and Classes: the loops of `array.c`, `mro_merge()` and
  `type_init_private()` are folds and the search through delegates is a recursive
  function over classes, not over numbers.  That these have a value at all for
  every list, order and chain would have to be shown first, as `Loops` does it
  for the loops of Dict; it has not been done.

## 6. Where the code and its documents differ

TLC refutes the documented behaviour of the first group: with the configuration
named, or with the property named in place of the invariants of the module's
own configuration.  None of these is among the runs, which are twelve.

* `MCFlow.cfg` with `Executables <- WhileExecutables`: a `while` loop that ends by its
  test jumps past its POP_BLOCK (`src/assembler.c`, `assemble_while`).  The LOOP block
  stays open, and the next `break` in the enclosing loop only closes that.  This
  code has no shape: `ShapeAssumption` is false.
* With `DoExecutables`, `TraceMatchesSource` fails: `continue` in a `do` body goes to the
  start of the body; the test is not evaluated (`assemble_do`).
* With `ReturnNullExecutables`, `TraceMatchesSource` fails: `return;` in the middle of a
  function is an END instruction; `traverse_code()` stops before any END and
  `remove_unreachable_code()` keeps the last one only: the function goes on.
* With `TernaryExecutables`, `ShapeAssumption` is false: `simplify_conditional_jumps()`
  folds a LOAD_CONST into the B_IF after it even when the other branch of a
  conditional expression jumps to that B_IF.
* `NeverUnframed` of VmFrames: a generator's body may ask its own generator, since
  nothing sets the state to running; the inner loop ends and frees the frame under
  the outer one (`generator.c:31`).  `RunningFramesLive` says that no other way leads there.
* `abandoned = 0` of VmFrames: `exit()` from within functions frees their frames, but
  `recursion_counter` keeps counting the loops that never end: the clean-ups that
  run before the process ends may be refused with a RecursionError.
* `lost = {}` of VmFrames: a generator dropped before it ends leaves its frame, and
  what the frame holds, behind.
* `KwargsConsumed` of VmRefs: "@kwargs's reference will be consumed" (`vm.c:1850`):
  `vm_exec_func()` does not; `do_call_func()` gives it up, as is right.
* `RestUnwound` of VmRefs: "unwind the rest and fail" (`vm.c:988`): `do_defdict()` goes up to
  the n-th of 2 n operands and leaves the others counted for ever.  So does
  `unary_op_common()` with its operand when the operator fails.
* `IterationExact` of Dict: `clear()` without a resize leaves the order map as it was; an
  iterator can yield a later key twice.
* `PathIsRunning` of Import: a module that is found in a later directory of the search path,
  or by an absolute path, runs while the path still begins with the directory of
  its importer; once an import of its own has ended, the path begins with the
  module's own directory.  The same `import` before and after may find
  different files.
* `SurvivesEnd` of Files, with `ReallocOfNothing = "null"`: `raw_read()` ends the
  program at the end of a file when the C library gives no block for `realloc(p, 0)`.
* `ImplementsFile` with `Beyond = {"nothing"}`: `read(0)` on a binary file without a
  buffer fills it at position 0, which `tell()` takes for no buffer; on a text file
  it reads to the end and then fails.  (`{"below"}`) `seek()` to a negative position
  moves to the end of the buffer before it fails.  (`{"full"}`) A read that cannot
  flush what was written loses it and answers as if nothing had happened.
  (`{"tail"}`) Writing an empty string to a text file whose reading ended in a cut
  character drops the buffer and leaves `ft_eof` set, so that the next read answers ""
  where it failed before.
* `PrintReadsItems` of Lists: "Operation not permitted while object is locked"
  (`errmsg.c:96`): only insertions are kept away; an item's `__str__` may delete from
  the list being printed, and `array_str()` reads on to the size it had.  `append()`
  and slice assignment, when refused, leave the exception pending and report
  success.
* `SelfSourceSound` of Lists: `x.extend(x)` reads the items of `x` where they were before
  `array_resize()` moved them; `x[0:1] = x` may drop the last reference to the item
  it is about to store.
* `OverridesWin` of Classes: "The ``speak`` methods, on the other hand, are overloaded"
  (`Documentation/tutorial/classes_and_namespaces.rst:234`): with a class A, B derived
  from A that overloads a method, and C derived from B, an instance of C gets A's.
  A base's stored order does not have the base in it, so nothing tells
  `mro_merge()` that B comes before A.
* `SuperGoesUp` of Classes: "calling the parent class's" method
  (`classes_and_namespaces.rst:275`): `super()` looks above the class of the instance, not above the class whose method runs.  In an
  inherited method it finds that method again and recurses until refused.
* `PrivateStaysInMethods` of Classes: "it can be accessed only from within methods of the same class"
  (`classes_and_namespaces.rst:297`): any function called from, or stored in, an
  instance has its rights.
* `ParentIsCaller` of VmFrames: `vm_get_locals()` takes the last but one active frame
  for the caller; generators are not on that list.
* `IntegersBounded` of Values: "Operations which take an integer out of those boundaries
  will result in an exception" (`Documentation/tutorial/getting_started.rst:398`): `int_add()`,
  `int_sub()`, `int_mul()`, `int_negate()` and `int_lshift()` (`types/integer.c`) have no
  check and wrap round, in the build at hand (to C it is undefined); `ipow()` checks
  the squares, not the products: some powers out of bounds are silently wrong, and
  the smallest integer as a power is refused.
* `NoStrayValue` of Tokens: "not all tokens have this" (`token.c:1035`), a pointer to a
  value, and it is to be NULL then.  `tokenize()` leaves it unset in the token of an
  integer, float or complex literal that is out of range (`token.c:764` to 793,
  `emalloc()` at 738), looks behind it for a string (811) and stores the token all
  the same; `free_one_token()` gives up a reference through it, when the file's tokens
  are freed or, at the terminal, when the saved ones are flushed.
* `DivisionFloored` of Values: "Division between integers is floored"
  (`getting_started.rst:384`): `int_div()` is C's division, towards zero: `-3 / 2` is -1,
  and `%` has the sign of its left side.  The smallest integer divided by -1 ends
  the process.

The passing runs leave out exactly these cases: program families without them in
`FlowPrograms`, `Beyond = {}`, `ReallocOfNothing = "block"`; `ImplementsMap` reads the order from the
first `d_count` entries of the map, which `clear()` does not disturb, and
`IteratorsExact` is about dictionaries that were never cleared.  Run
`lists` has both of its cases in it and ends there: its invariants say when
`stale` may come about.

The second group is in the modules themselves, as the code has it; the
properties of the runs except it by a condition with a name.

* Strings (`NearMiss`, `Searchable` in Values): a search does not compare the second
  character, so `"abc".find("axc")` is 0; strings of four-byte characters are searched two bytes at a time;
  `find("")` is an assertion (`string.c:597`); `zfill()` writes a sign twice;
  cut strings keep a width they no longer need, so that equal ones differ.
* Bytes (`AtEnd`): where the C library has no `memmem()` and that of `helpers.c` is
  built, which is the one modelled, a match at the very end is missed and an empty
  needle is never found (the C library finds it at the start; what is searched for
  in Values is never empty); `count()` of
  more than one byte is 0; `rstrip()` leaves one byte; `\r\n` is two ends of lines;
  `zfill()` to less than the length writes out of bounds.
* Integers (`OutOfBounds`, `SignsDiffer`): see `IntegersBounded` and `DivisionFloored`
  above.
* Literals (`LowControls`): `repr()` of a control character is `\001`, which is read
  as a nullchar followed by two digits; `data_types.rst:387` gives such escapes
  as octal numbers.
* Formats (`MinusBehindZeros`): zeros are put before a sign; `%(name)s` ignores its
  argument and `{1}{0}` is refused.
* Lexer (`ThreeBackslashes`): at the third backslash in a row `str_slide()` loses
  count, a literal ends too early and `string_parse()` meets the end of it,
  "should have been trapped already" (`string.c:329`).  A field of an f-string
  that is not closed on its line is read past the end of it.
* Numbers (`LeadingZero`): a number that begins with 0 and no header is read in base 8
  as far as its digits are of that base: 010 is 8, and 08 is 0.  No document says so.
* Tokens (`Stranded`): a token looked ahead at that is the last of its typed line is
  saved without the line, and the next statement ends with it as if the input
  were over.
* Dictionaries: their order is that of insertion, as the code keeps it ("Array mapping
  entries in order to their indices", `dict.c:42`) and Mapping says.  Examples in
  `Documentation/tutorial/data_types.rst` show another: `{'b': 'two', 'a': 1}` after
  `'a'` was inserted first (233), and `['c', 'b', 'a']` for `dict(a=1, c=3, b=2)` (308).
  No text says what the order is.
* Exceptions: a pending exception that a built-in left behind while it reported
  success fails a later, innocent conversion, or is what the end of the script
  reports; the positions of code that waits for a generator are in no trace, and
  a hidden call of a generator's code records where the generator was asked from;
  a generator that ended with an exception and is asked again fails without one.
