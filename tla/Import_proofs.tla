--------------------------- MODULE Import_proofs ----------------------------
(***************************************************************************)
(* Breadcrumbs, cache states and running scripts stay in step, for any     *)
(* tree of files and any requests: proofs about Import.                    *)
(*                                                                         *)
(* The invariant is the conjunction of the four parts.  Which breadcrumb   *)
(* belongs to which script needs their types (a script without a path is   *)
(* the main one only), and that a module is begun once needs that its      *)
(* cache entry is written before its code runs.                            *)
(***************************************************************************)
EXTENDS Import, SequenceTheorems, TLAPS

Inv == TypeOK /\ BreadcrumbsMatch /\ LoadingIsRunning /\ RunsOnce
------------------------------------------------------------------------------
(* What push_path() finds is a path.                                       *)
LEMMA SearchType ==
    ASSUME NEW r \in Requests, NEW paths \in Seq(Dirs), NEW found \in Search(r, paths)
    PROVE  found \in Found
<1>1. CASE r \in Absolute
  <2>1. PICK p \in {Where[r]} \ {None} : found = [path |-> p, script |-> FALSE]
    BY <1>1 DEF Search
  <2> QED
    BY <1>1, <2>1, PathsAssumption DEF Found
<1>2. CASE r \notin Absolute
  <2>1. PICK i \in DOMAIN paths : /\ Where[<<paths[i], r>>] # None
                                  /\ found = [path |-> Where[<<paths[i], r>>], script |-> i = 1]
    BY <1>2 DEF Search
  <2>2. paths[i] \in Dirs /\ r \in Relative
    BY <1>2 DEF Requests
  <2> QED
    BY <2>1, <2>2, PathsAssumption DEF Found
<1> QED
  BY <1>1, <1>2

(* array_setitem(import_path, 0, ..) keeps the list a list of directories. *)
LEMMA SetFirstType ==
    ASSUME NEW paths \in Seq(Dirs), paths # << >>, NEW d \in Dirs
    PROVE  SetFirst(paths, d) \in Seq(Dirs) /\ SetFirst(paths, d) # << >>
BY DEF SetFirst

(* The breadcrumbs without the last one, and the directory of the one      *)
(* below it (pop_path).                                                    *)
LEMMA CutType ==
    ASSUME NEW S, NEW s \in Seq(S), s # << >>
    PROVE  /\ Cut(s) \in Seq(S)
           /\ Len(Cut(s)) = Len(s) - 1
           /\ \A i \in 1..(Len(s) - 1) : Cut(s)[i] = s[i]
           /\ Top(s) \in S
<1>1. Len(s) \in Nat /\ Len(s) >= 1 /\ \A i \in 1..(Len(s) - 1) : s[i] \in S
  OBVIOUS
<1>2. /\ SubSeq(s, 1, Len(s) - 1) \in Seq(S)
      /\ Len(SubSeq(s, 1, Len(s) - 1)) = Len(s) - 1
      /\ \A i \in 1..(Len(s) - 1) : SubSeq(s, 1, Len(s) - 1)[i] = s[i]
  <2> DEFINE n == Len(s) - 1
  <2>1. 1 \in Int /\ n \in Int /\ n >= 0 /\ \A i \in 1..n : s[i] \in S
    BY <1>1
  <2> HIDE DEF n
  <2>2. /\ SubSeq(s, 1, n) \in Seq(S)
        /\ Len(SubSeq(s, 1, n)) = IF 1 <= n THEN n - 1 + 1 ELSE 0
        /\ \A i \in 1..(n - 1 + 1) : SubSeq(s, 1, n)[i] = s[1 + i - 1]
    BY <2>1, SubSeqProperties
  <2>3. n - 1 + 1 = n /\ \A i \in 1..n : 1 + i - 1 = i
    BY <2>1
  <2> QED
    BY <2>1, <2>2, <2>3 DEF n
<1>3. s[Len(s)] \in S
  BY <1>1
<1> QED
  BY <1>2, <1>3 DEF Cut, Top

(* Where the path goes to when the last breadcrumb is s's.                 *)
LEMMA HomeType ==
    ASSUME NEW s \in Seq(Path)
    PROVE  Home(s) \in Dirs
<1>1. CASE s = << >>
  BY <1>1, PathsAssumption DEF Home
<1>2. CASE s # << >>
  <2>1. s[Len(s)] \in Path
    BY <1>2
  <2> QED
    BY <1>2, <2>1 DEF Home, Top, Path
<1> QED
  BY <1>1, <1>2

(* A path pushed and popped again leaves the breadcrumbs as they were.     *)
LEMMA PushPop ==
    ASSUME NEW S, NEW s \in Seq(S), NEW e \in S
    PROVE  Cut(Append(s, e)) = s
<1> DEFINE a == Append(s, e)
<1>1. /\ a \in Seq(S) /\ Len(a) = Len(s) + 1 /\ \A i \in 1..Len(s) : a[i] = s[i]
      /\ a # << >>
  BY AppendProperties
<1> HIDE DEF a
<1>3. Cut(a) \in Seq(S) /\ Len(Cut(a)) = Len(a) - 1 /\ \A i \in 1..(Len(a) - 1) : Cut(a)[i] = a[i]
  BY <1>1, CutType
<1>4. Len(Cut(a)) = Len(s) /\ \A i \in 1..Len(s) : Cut(a)[i] = s[i]
  BY <1>1, <1>3
<1>5. Cut(a) = s
  BY <1>3, <1>4
<1> QED
  BY <1>5 DEF a
------------------------------------------------------------------------------
(* The main script, with or without a path, begins in step.                *)
LEMMA InitHolds == Init => Inv
<1> SUFFICES ASSUME Init PROVE Inv
  OBVIOUS
<1>1. ASSUME NEW d \in Dirs
      PROVE  ImportPath(d) \in Seq(Dirs) /\ ImportPath(d) # << >>
  <2>1. <<d>> \in Seq(Dirs) /\ <<Library>> \in Seq(Dirs) /\ Added \in Seq(Dirs)
    BY PathsAssumption
  <2>2. <<d>> \o Added \in Seq(Dirs) /\ Len(<<d>> \o Added) = 1 + Len(Added)
    BY <2>1
  <2> QED
    BY <2>1, <2>2 DEF ImportPath
<1>2. cache \in [Files -> {"none", "LOADING", "LOADED", "ERROR"}] /\ began \in [Files -> Nat]
  BY DEF Init
<1>3. CASE /\ breadcrumbs = << >>
           /\ import_path = ImportPath(Cwd)
           /\ running = <<[path |-> None, module |-> None]>>
  <2>1. TypeOK
    BY <1>1, <1>2, <1>3, PathsAssumption DEF TypeOK, Script
  <2>2. BreadcrumbsMatch
    BY <1>3 DEF BreadcrumbsMatch
  <2>3. LoadingIsRunning /\ RunsOnce
    BY <1>3, PathsAssumption DEF Init, LoadingIsRunning, RunsOnce
  <2> QED
    BY <2>1, <2>2, <2>3 DEF Inv
<1>4. ASSUME NEW r \in Requests, NEW found \in Search(r, <<Cwd, Library>>),
             breadcrumbs = <<found.path>>,
             import_path = ImportPath(IF found.script THEN found.path.dir ELSE Cwd),
             running = <<[path |-> found.path, module |-> None]>>
      PROVE  Inv
  <2>1. found \in Found
    <3>1. <<Cwd, Library>> \in Seq(Dirs)
      BY PathsAssumption
    <3> QED
      BY <1>4, <3>1, SearchType
  <2>2. (IF found.script THEN found.path.dir ELSE Cwd) \in Dirs
    BY <2>1, PathsAssumption DEF Found, Path
  <2>3. TypeOK
    BY <1>1, <1>2, <1>4, <2>1, <2>2 DEF TypeOK, Script, Found
  <2>4. BreadcrumbsMatch
    BY <1>4 DEF BreadcrumbsMatch
  <2>5. LoadingIsRunning /\ RunsOnce
    BY <1>4, PathsAssumption DEF Init, LoadingIsRunning, RunsOnce
  <2> QED
    BY <2>3, <2>4, <2>5 DEF Inv
<1> QED
  BY <1>3, <1>4 DEF Init

(* What breadcrumbs there are, from the scripts that run.                  *)
LEMMA Crumbs ==
    ASSUME Inv, running # << >>
    PROVE  /\ running[1].path = None => Len(breadcrumbs) = Len(running) - 1
           /\ running[1].path # None => Len(breadcrumbs) = Len(running)
<1>1. running[1] \in Script /\ Len(running) \in Nat /\ Len(running) >= 1
  BY DEF Inv, TypeOK
<1>2. breadcrumbs \in Seq(Path) /\ Len(breadcrumbs) \in Nat
  BY DEF Inv, TypeOK
<1> DEFINE shift == Len(running) - Len(breadcrumbs)
<1>3. /\ shift \in {0, 1}
      /\ shift = 1 => running[1].path = None
      /\ shift = 0 => running[1].path = breadcrumbs[1]
  BY <1>1, <1>2 DEF Inv, BreadcrumbsMatch
<1>4. shift = 0 => breadcrumbs[1] \in Path
  BY <1>1, <1>2
<1> QED
  BY <1>1, <1>2, <1>3, <1>4, PathsAssumption

(* An import that gives its importer a value or an error at once.          *)
LEMMA ReturnsKeeps == Inv /\ ImportReturns => Inv'
<1> SUFFICES ASSUME Inv, ImportReturns PROVE Inv'
  OBVIOUS
<1>1. PICK found \in Found :
         /\ \/ cache' = cache
            \/ cache[found.path.file] = "none" /\ cache' = [cache EXCEPT ![found.path.file] = "ERROR"]
         /\ pop_path(Append(breadcrumbs, found.path))
  BY SearchType DEF ImportReturns, Inv, TypeOK
<1>2. found.path \in Path
  BY DEF Found
<1>3. breadcrumbs' = breadcrumbs
  BY <1>1, <1>2, PushPop DEF pop_path, Inv, TypeOK
<1>4. import_path' \in Seq(Dirs) /\ import_path' # << >>
  BY <1>1, <1>3, HomeType, SetFirstType DEF pop_path, Inv, TypeOK
<1>5. running' = running /\ began' = began
  BY DEF ImportReturns
<1>6. \/ cache' = cache
      \/ /\ found.path.file \in Files /\ cache[found.path.file] = "none"
         /\ cache' = [cache EXCEPT ![found.path.file] = "ERROR"]
  BY <1>1, <1>2 DEF Path
<1>7. TypeOK' /\ RunsOnce'
  BY <1>3, <1>4, <1>5, <1>6 DEF Inv, TypeOK, RunsOnce
<1>8. BreadcrumbsMatch'
  BY <1>3, <1>5 DEF Inv, BreadcrumbsMatch
<1>9. LoadingIsRunning'
  BY <1>5, <1>6 DEF Inv, LoadingIsRunning, TypeOK
<1> QED
  BY <1>7, <1>8, <1>9 DEF Inv

(* An import that begins the code of a module.                             *)
LEMMA BeginsKeeps == Inv /\ ImportBegins => Inv'
<1> SUFFICES ASSUME Inv, ImportBegins PROVE Inv'
  OBVIOUS
<1> DEFINE script(p) == [path |-> p, module |-> p.file]
<1>1. PICK found \in Found :
         /\ cache[found.path.file] = "none"
         /\ cache' = [cache EXCEPT ![found.path.file] = "LOADING"]
         /\ breadcrumbs' = Append(breadcrumbs, found.path)
         /\ import_path' = Pushed(found, import_path)
         /\ running' = Append(running, script(found.path))
         /\ began' = [began EXCEPT ![found.path.file] = @ + 1]
  BY SearchType DEF ImportBegins, Inv, TypeOK
<1> DEFINE p == found.path
           f == p.file
           n == Len(running)
<1>2. p \in Path /\ f \in Files /\ p.dir \in Dirs
  BY DEF Found, Path
<1>3. script(p) \in Script
  BY <1>2 DEF Script
<1>4. n \in Nat /\ n >= 1 /\ running \in Seq(Script) /\ breadcrumbs \in Seq(Path)
  BY DEF ImportBegins, Inv, TypeOK
<1>5. /\ running' \in Seq(Script) /\ Len(running') = n + 1
      /\ \A i \in 1..n : running'[i] = running[i]
      /\ running'[n + 1].path = p /\ running'[n + 1].module = f
  BY <1>1, <1>3, <1>4
<1>6. /\ breadcrumbs' \in Seq(Path) /\ Len(breadcrumbs') = Len(breadcrumbs) + 1
      /\ \A i \in DOMAIN breadcrumbs : breadcrumbs'[i] = breadcrumbs[i]
      /\ breadcrumbs'[Len(breadcrumbs) + 1] = p
  BY <1>1, <1>2, <1>4
<1>7. import_path' \in Seq(Dirs) /\ import_path' # << >>
  BY <1>1, <1>2, SetFirstType DEF Pushed, Inv, TypeOK
<1>8. TypeOK'
  BY <1>1, <1>2, <1>5, <1>6, <1>7 DEF Inv, TypeOK
<1>9. BreadcrumbsMatch'
  <2> DEFINE shift == Len(running) - Len(breadcrumbs)
  <2>1. /\ shift \in {0, 1}
        /\ shift = 1 => running[1].path = None
        /\ \A i \in DOMAIN breadcrumbs : running[i + shift].path = breadcrumbs[i]
    BY DEF Inv, BreadcrumbsMatch
  <2>2. Len(running') - Len(breadcrumbs') = shift /\ running'[1] = running[1]
    BY <1>4, <1>5, <1>6
  <2>3. ASSUME NEW i \in DOMAIN breadcrumbs'
        PROVE  running'[i + shift].path = breadcrumbs'[i]
    <3>1. CASE i \in DOMAIN breadcrumbs
      <4>1. i + shift \in 1..n
        BY <1>4, <2>1, <3>1
      <4> QED
        BY <1>5, <1>6, <2>1, <3>1, <4>1
    <3>2. CASE i = Len(breadcrumbs) + 1
      <4>1. i + shift = n + 1
        BY <1>4, <3>2
      <4> QED
        BY <1>5, <1>6, <3>2, <4>1
    <3> QED
      BY <1>4, <1>6, <3>1, <3>2
  <2> QED
    BY <2>1, <2>2, <2>3 DEF BreadcrumbsMatch
<1>10. LoadingIsRunning'
  <2>1. f # None
    BY <1>2, PathsAssumption
  <2>3. DOMAIN running = 1..n /\ DOMAIN running' = 1..(n + 1)
    BY <1>4, <1>5
  <2>2. \A i \in 1..n : running[i].module # f
    <3>1. cache[f] # "LOADING"
      BY <1>1
    <3>2. cache[f] = "LOADING" <=> \E i \in DOMAIN running : running[i].module = f
      BY <1>2 DEF Inv, LoadingIsRunning
    <3> QED
      BY <2>3, <3>1, <3>2
  <2>4. \A i \in DOMAIN running' : running'[i].module = None <=> i = 1
    BY <1>4, <1>5, <2>1, <2>3 DEF Inv, LoadingIsRunning
  <2>5. ASSUME NEW g \in Files
        PROVE  cache'[g] = "LOADING" <=> \E i \in DOMAIN running' : running'[i].module = g
    <3>1. CASE g = f
      <4>1. cache'[g] = "LOADING"
        BY <1>1, <1>2, <3>1 DEF Inv, TypeOK
      <4>2. n + 1 \in DOMAIN running'
        BY <1>4, <2>3
      <4> QED
        BY <1>5, <3>1, <4>1, <4>2
    <3>2. CASE g # f
      <4>1. cache'[g] = cache[g]
        BY <1>1, <1>2, <3>2 DEF Inv, TypeOK
      <4>2. cache[g] = "LOADING" <=> \E i \in 1..n : running[i].module = g
        BY <2>3 DEF Inv, LoadingIsRunning
      <4>3. (\E i \in 1..(n + 1) : running'[i].module = g) <=> \E i \in 1..n : running[i].module = g
        BY <1>4, <1>5, <3>2
      <4> QED
        BY <2>3, <4>1, <4>2, <4>3
    <3> QED
      BY <3>1, <3>2
  <2>6. \A i, j \in DOMAIN running' : running'[i].module = running'[j].module => i = j
    <3>1. \A i, j \in 1..n : running[i].module = running[j].module => i = j
      BY <2>3 DEF Inv, LoadingIsRunning
    <3> QED
      BY <1>4, <1>5, <2>2, <2>3, <3>1
  <2> QED
    BY <2>4, <2>5, <2>6 DEF LoadingIsRunning
<1>11. RunsOnce'
  BY <1>1, <1>2 DEF Inv, TypeOK, RunsOnce
<1> QED
  BY <1>8, <1>9, <1>10, <1>11 DEF Inv

(* The end of a module, with a value or an exception.                      *)
LEMMA EndsKeeps == Inv /\ ModuleEnds => Inv'
<1> SUFFICES ASSUME Inv, ModuleEnds PROVE Inv'
  OBVIOUS
<1> DEFINE n == Len(running)
           f == running[n].module
<1>1. PICK state \in {"LOADED", "ERROR"} : cache' = [cache EXCEPT ![f] = state]
  BY DEF ModuleEnds, Top
<1>2. n \in Nat /\ n > 1 /\ running \in Seq(Script) /\ breadcrumbs \in Seq(Path)
  BY DEF ModuleEnds, Inv, TypeOK
<1>3. running # << >> /\ DOMAIN running = 1..n /\ running[n] \in Script
  BY <1>2
<1>4. f \in Files
  <2>1. f # None
    BY <1>2, <1>3 DEF Inv, LoadingIsRunning
  <2> QED
    BY <1>3, <2>1 DEF Script
<1>5. /\ running' \in Seq(Script) /\ Len(running') = n - 1
      /\ \A i \in 1..(n - 1) : running'[i] = running[i]
  BY <1>2, <1>3, CutType DEF ModuleEnds
<1>6. breadcrumbs # << >>
  <2>1. Len(breadcrumbs) = n - 1 \/ Len(breadcrumbs) = n
    BY <1>3, Crumbs
  <2> QED
    BY <1>2, <2>1
<1>7. /\ breadcrumbs' \in Seq(Path) /\ Len(breadcrumbs') = Len(breadcrumbs) - 1
      /\ \A i \in 1..(Len(breadcrumbs) - 1) : breadcrumbs'[i] = breadcrumbs[i]
  BY <1>2, <1>6, CutType DEF ModuleEnds, pop_path
<1>8. import_path' \in Seq(Dirs) /\ import_path' # << >>
  BY <1>7, HomeType, SetFirstType DEF ModuleEnds, pop_path, Inv, TypeOK
<1>9. began' = began
  BY DEF ModuleEnds
<1>10. TypeOK'
  BY <1>1, <1>4, <1>5, <1>7, <1>8, <1>9 DEF Inv, TypeOK
<1>11. BreadcrumbsMatch'
  <2> DEFINE shift == Len(running) - Len(breadcrumbs)
  <2>1. /\ shift \in {0, 1}
        /\ shift = 1 => running[1].path = None
        /\ \A i \in DOMAIN breadcrumbs : running[i + shift].path = breadcrumbs[i]
    BY DEF Inv, BreadcrumbsMatch
  <2>2. Len(running') - Len(breadcrumbs') = shift /\ running'[1] = running[1]
    BY <1>2, <1>5, <1>7
  <2>3. ASSUME NEW i \in DOMAIN breadcrumbs'
        PROVE  running'[i + shift].path = breadcrumbs'[i]
    <3>1. i \in 1..(Len(breadcrumbs) - 1)
      BY <1>7
    <3>2. i \in DOMAIN breadcrumbs /\ i + shift \in 1..(n - 1)
      BY <1>2, <2>1, <3>1
    <3> QED
      BY <1>5, <1>7, <2>1, <3>1, <3>2
  <2> QED
    BY <2>1, <2>2, <2>3 DEF BreadcrumbsMatch
<1>12. LoadingIsRunning'
  <2>1. DOMAIN running' = 1..(n - 1)
    BY <1>2, <1>5
  <2>2. \A i \in 1..(n - 1) : running[i].module # f
    BY <1>2, <1>3 DEF Inv, LoadingIsRunning
  <2>3. \A i \in DOMAIN running' : running'[i].module = None <=> i = 1
    BY <1>2, <1>3, <1>5, <2>1 DEF Inv, LoadingIsRunning
  <2>4. ASSUME NEW g \in Files
        PROVE  cache'[g] = "LOADING" <=> \E i \in DOMAIN running' : running'[i].module = g
    <3>1. CASE g = f
      BY <1>1, <1>4, <1>5, <2>1, <2>2, <3>1 DEF Inv, TypeOK
    <3>2. CASE g # f
      <4>1. cache'[g] = cache[g]
        BY <1>1, <1>4, <3>2 DEF Inv, TypeOK
      <4>2. cache[g] = "LOADING" <=> \E i \in 1..n : running[i].module = g
        BY <1>3 DEF Inv, LoadingIsRunning
      <4>3. \A i \in 1..n : running[i].module = g => i \in 1..(n - 1)
        BY <1>2, <3>2
      <4>4. 1..(n - 1) \subseteq 1..n
        BY <1>2
      <4>5. (\E i \in 1..(n - 1) : running'[i].module = g) <=> \E i \in 1..n : running[i].module = g
        BY <1>5, <4>3, <4>4
      <4> QED
        BY <2>1, <4>1, <4>2, <4>5
    <3> QED
      BY <3>1, <3>2
  <2>5. \A i, j \in DOMAIN running' : running'[i].module = running'[j].module => i = j
    <3>1. \A i, j \in 1..n : running[i].module = running[j].module => i = j
      BY <1>3 DEF Inv, LoadingIsRunning
    <3> QED
      BY <1>2, <1>5, <2>1, <3>1
  <2> QED
    BY <2>3, <2>4, <2>5 DEF LoadingIsRunning
<1>13. RunsOnce'
  BY <1>1, <1>4, <1>9 DEF Inv, TypeOK, RunsOnce
<1> QED
  BY <1>10, <1>11, <1>12, <1>13 DEF Inv

(* The end of the main script.                                             *)
LEMMA MainKeeps == Inv /\ MainEnds => Inv'
<1> SUFFICES ASSUME Inv, MainEnds PROVE Inv'
  OBVIOUS
<1>0. /\ Len(running) = 1 /\ running \in Seq(Script) /\ breadcrumbs \in Seq(Path)
      /\ running' = << >> /\ cache' = cache /\ began' = began
  BY DEF MainEnds, Inv, TypeOK
<1>1. /\ running # << >> /\ DOMAIN running = 1..1 /\ Len(breadcrumbs) \in Nat
      /\ Top(running) = running[1]
  <2>1. Len(breadcrumbs) \in Nat
    BY <1>0
  <2>2. running # << >> /\ DOMAIN running = 1..1
    BY <1>0
  <2>3. Top(running) = running[1]
    BY <1>0 DEF Top
  <2> QED
    BY <2>1, <2>2, <2>3
<1>2. breadcrumbs' = << >> /\ import_path' \in Seq(Dirs) /\ import_path' # << >>
  <2>1. CASE running[1].path = None
    <3>1. Len(breadcrumbs) = 0
      BY <1>0, <1>1, <2>1, Crumbs
    <3> QED
      BY <1>0, <1>1, <2>1, <3>1 DEF MainEnds, Inv, TypeOK
  <2>2. CASE running[1].path # None
    <3>1. Len(breadcrumbs) = 1 /\ breadcrumbs # << >>
      BY <1>0, <1>1, <2>2, Crumbs
    <3>2. pop_path(breadcrumbs)
      BY <1>0, <1>1, <2>2 DEF MainEnds
    <3>3. breadcrumbs' \in Seq(Path) /\ Len(breadcrumbs') = 0
      BY <1>0, <1>1, <3>1, <3>2, CutType DEF pop_path
    <3>4. import_path' \in Seq(Dirs) /\ import_path' # << >>
      BY <3>2, <3>3, HomeType, SetFirstType DEF pop_path, Inv, TypeOK
    <3> QED
      BY <3>3, <3>4
  <2> QED
    BY <2>1, <2>2
<1>3. TypeOK' /\ BreadcrumbsMatch'
  BY <1>0, <1>1, <1>2 DEF Inv, TypeOK, BreadcrumbsMatch
<1>4. LoadingIsRunning'
  <2>1. \A f \in Files : cache[f] # "LOADING"
    <3>1. running[1].module = None
      BY <1>0, <1>1 DEF Inv, LoadingIsRunning
    <3> QED
      BY <1>0, <1>1, <3>1, PathsAssumption DEF Inv, LoadingIsRunning
  <2> QED
    BY <1>0, <1>1, <2>1 DEF LoadingIsRunning
<1>5. RunsOnce'
  BY <1>0, <1>1 DEF Inv, RunsOnce
<1> QED
  BY <1>3, <1>4, <1>5 DEF Inv

(* Every step, a stutter included, keeps the invariant.                    *)
LEMMA StepHolds == Inv /\ [Next]_vars => Inv'
<1>1. Inv /\ UNCHANGED vars => Inv'
  BY DEF Inv, vars, TypeOK, BreadcrumbsMatch, LoadingIsRunning, RunsOnce
<1> QED
  BY <1>1, ReturnsKeeps, BeginsKeeps, EndsKeeps, MainKeeps DEF Next

LEMMA InvHolds == Spec => []Inv
BY InitHolds, StepHolds, PTL DEF Spec
------------------------------------------------------------------------------
(* Types are kept, for any tree of files.                                  *)
THEOREM TypeCorrect == Spec => []TypeOK
BY InvHolds, PTL DEF Inv

(* push_path() and pop_path() stay paired: whatever imports were begun,    *)
(* refused, failed or ended with an exception, the breadcrumbs are the     *)
(* paths of the scripts that run.                                          *)
THEOREM BreadcrumbsBalanced == Spec => []BreadcrumbsMatch
BY InvHolds, PTL DEF Inv

(* A module is in state LOADING exactly while its code runs, and its code  *)
(* never runs inside itself.                                               *)
THEOREM NoCyclicLoad == Spec => []LoadingIsRunning
BY InvHolds, PTL DEF Inv

(* The code of a module is begun at most once in a program's life.         *)
THEOREM ExecutedOnce == Spec => []RunsOnce
BY InvHolds, PTL DEF Inv

------------------------------------------------------------------------------
AtHome(crumbs, scripts) ==
    Home(crumbs) = IF \A i \in DOMAIN scripts : scripts[i].path = None THEN Cwd
                   ELSE Top(scripts).path.dir

(* The last breadcrumb is the path of the script that runs; there is none  *)
(* exactly when no script that runs has a path.                            *)
LEMMA HomeIsTop ==
    ASSUME NEW crumbs \in Seq(Path), NEW scripts \in Seq(Script),
           Len(scripts) - Len(crumbs) \in {0, 1},
           Len(scripts) - Len(crumbs) = 1 => scripts[1].path = None,
           \A i \in DOMAIN crumbs : scripts[i + (Len(scripts) - Len(crumbs))].path = crumbs[i]
    PROVE  AtHome(crumbs, scripts)
<1> DEFINE n == Len(scripts)
           m == Len(crumbs)
<1>1. /\ n \in Nat /\ m \in Nat /\ DOMAIN scripts = 1..n /\ DOMAIN crumbs = 1..m
      /\ n - m \in {0, 1} /\ (n - m = 1 => scripts[1].path = None)
      /\ \A i \in 1..m : scripts[i + (n - m)].path = crumbs[i]
  OBVIOUS
<1>2. crumbs = << >> <=> m = 0
  OBVIOUS
<1>3. \A i \in 1..m : crumbs[i] \in Path
  OBVIOUS
<1> HIDE DEF n, m
<1>4. CASE m = 0
  <2>1. \A i \in DOMAIN scripts : scripts[i].path = None
    BY <1>1, <1>4
  <2> QED
    BY <1>2, <1>4, <2>1 DEF Home, AtHome
<1>5. CASE m # 0
  <2>1. m \in 1..m /\ n \in 1..n /\ m + (n - m) = n
    BY <1>1, <1>5
  <2>2. scripts[n].path = crumbs[m] /\ crumbs[m] # None
    <3>1. scripts[m + (n - m)].path = crumbs[m]
      BY <1>1, <2>1
    <3> QED
      BY <1>3, <2>1, <3>1, PathsAssumption
  <2>3. ~ \A i \in DOMAIN scripts : scripts[i].path = None
    BY <1>1, <2>1, <2>2
  <2>4. Home(crumbs) = crumbs[m].dir
    BY <1>2, <1>5 DEF Home, Top, m
  <2> QED
    BY <2>2, <2>3, <2>4 DEF Top, n, AtHome
<1> QED
  BY <1>4, <1>5

(* Whoever pops, the path begins where the breadcrumbs then lead.          *)
LEMMA PopGoesHome ==
    ASSUME NEW crumbs, pop_path(crumbs), import_path \in Seq(Dirs), import_path # << >>
    PROVE  import_path'[1] = Home(breadcrumbs')
BY DEF pop_path, SetFirst

(* An import or a script that ends pops; only a module that begins does    *)
(* not, and then one script more is running.                               *)
LEMMA EndsAtHome ==
    Inv /\ [Next]_vars =>
      (Len(running') <= Len(running) /\ import_path' # import_path
          => import_path'[1] = IF \A i \in DOMAIN running' : running'[i].path = None THEN Cwd
                               ELSE Top(running').path.dir)
<1> SUFFICES ASSUME Inv, [Next]_vars, Len(running') <= Len(running), import_path' # import_path
             PROVE  import_path'[1] = IF \A i \in DOMAIN running' : running'[i].path = None THEN Cwd
                                      ELSE Top(running').path.dir
  OBVIOUS
<1>1. /\ import_path \in Seq(Dirs) /\ import_path # << >>
      /\ running \in Seq(Script)
  BY DEF Inv, TypeOK
<1>2. TypeOK' /\ BreadcrumbsMatch'
  BY StepHolds DEF Inv
<1>3. Home(breadcrumbs') = IF \A i \in DOMAIN running' : running'[i].path = None THEN Cwd
                           ELSE Top(running').path.dir
  <2>1. AtHome(breadcrumbs', running')
    BY <1>2, HomeIsTop DEF TypeOK, BreadcrumbsMatch
  <2> QED
    BY <2>1 DEF AtHome
<1>4. ~ ImportBegins
  <2> SUFFICES ASSUME ImportBegins PROVE FALSE
    OBVIOUS
  <2>1. PICK e : running' = Append(running, e)
    BY DEF ImportBegins
  <2>2. Len(running') = Len(running) + 1
    BY <1>1, <2>1
  <2> QED
    BY <1>1, <2>2
<1>5. \E crumbs : pop_path(crumbs)
  <2>1. CASE ImportReturns
    BY <2>1 DEF ImportReturns
  <2>2. CASE ModuleEnds
    BY <2>2 DEF ModuleEnds
  <2>3. CASE MainEnds
    BY <2>3 DEF MainEnds
  <2> QED
    BY <1>4, <2>1, <2>2, <2>3 DEF Next, vars
<1>6. import_path'[1] = Home(breadcrumbs')
  BY <1>1, <1>5, PopGoesHome
<1> QED
  BY <1>3, <1>6

(* However an import ends, the path goes back to the directory of the      *)
(* script that goes on, in any tree of files and after any imports.        *)
THEOREM PathAlwaysGoesHome == Spec => PathGoesHome
BY InvHolds, EndsAtHome, PTL DEF Spec, PathGoesHome
=============================================================================
