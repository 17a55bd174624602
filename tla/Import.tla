------------------------------- MODULE Import -------------------------------
(***************************************************************************)
(* Imports: the module cache of src/src/import.c and the search path of    *)
(* src/src/path.c, while scripts import each other.                        *)
(*                                                                         *)
(* running is the stack of scripts that are being executed: the main       *)
(* script, and above it the modules, each imported by the one below.  A    *)
(* path is a directory and the file found there; two paths may name the    *)
(* same file (a link).  What a script asks for is a request: relative to   *)
(* the directories of sys.import_path, or absolute.                        *)
(***************************************************************************)
EXTENDS Naturals, Sequences, FiniteSets

CONSTANTS Dirs, Files,
          Relative, Absolute,   \* requests
          Where,                \* (directory, relative) or absolute request -> path or None
          NotRegular,           \* files that open, but cannot be imported
          Cwd,                  \* the working directory
          Library,              \* RCDATADIR
          Added,                \* directories of -I options, in order
          None

Requests == Relative \cup Absolute
Path     == [dir : Dirs, file : Files]

ASSUME PathsAssumption ==
    /\ Cwd \in Dirs /\ Library \in Dirs /\ Added \in Seq(Dirs)
    /\ NotRegular \subseteq Files
    /\ None \notin Path /\ None \notin Files
    /\ \A d \in Dirs, r \in Relative : Where[<<d, r>>] \in Path \cup {None}
    /\ \A r \in Absolute : Where[r] \in Path \cup {None}

VARIABLES
    cache,         \* file -> "none" or the state in import_dict
    breadcrumbs,   \* sys.breadcrumbs
    import_path,   \* sys.import_path
    running,       \* scripts in progress: [path, module]
    began          \* file -> how often its code was begun as a module's

vars == <<cache, breadcrumbs, import_path, running, began>>

Script  == [path : Path \cup {None}, module : Files \cup {None}]
Top(s)  == s[Len(s)]
Cut(s)  == SubSeq(s, 1, Len(s) - 1)

------------------------------------------------------------------------------
(* push_path and push_path_from: what a request finds, at most one         *)
(* [path, script], where script says that it was found in the first        *)
(* directory of the list.                                                  *)
Found == [path : Path, script : BOOLEAN]

Search(r, paths) ==
    IF r \in Absolute THEN {[path |-> p, script |-> FALSE] : p \in {Where[r]} \ {None}}
    ELSE LET hits == {i \in DOMAIN paths : Where[<<paths[i], r>>] # None}
         IN  {[path |-> Where[<<paths[i], r>>], script |-> i = 1] :
                 i \in {h \in hits : \A j \in hits : h <= j}}

SetFirst(paths, d) == [paths EXCEPT ![1] = d]

Pushed(found, paths) == IF found.script THEN SetFirst(paths, found.path.dir) ELSE paths

(* pop_path: the first directory becomes that of the script below, or the  *)
(* working directory when there is none.                                   *)
(* Seeded fault: without a script below there is no directory.             *)
Home_NoCwd(crumbs) == IF crumbs = << >> THEN None ELSE Top(crumbs).dir

Home(crumbs) == IF crumbs = << >> THEN Cwd ELSE Top(crumbs).dir

(* Seeded fault: the directory is that of the script that ends.            *)
pop_path_Own(crumbs) == /\ breadcrumbs' = Cut(crumbs)
                        /\ import_path' = SetFirst(import_path, Home(crumbs))

pop_path(crumbs) == /\ breadcrumbs' = Cut(crumbs)
                    /\ import_path' = SetFirst(import_path, Home(Cut(crumbs)))

------------------------------------------------------------------------------
(* The main script is a file, or text that has no path (-c, a pipe, the    *)
(* interactive mode).  -I options come too late for the search of its file.*)
ImportPath(first) == <<first>> \o Added \o <<Library>>

Init == /\ cache = [f \in Files |-> "none"]
        /\ began = [f \in Files |-> 0]
        /\ \/ /\ breadcrumbs = << >>
              /\ import_path = ImportPath(Cwd)
              /\ running = <<[path |-> None, module |-> None]>>
           \/ \E r \in Requests : \E found \in Search(r, <<Cwd, Library>>) :
                 /\ breadcrumbs = <<found.path>>
                 /\ import_path = ImportPath(IF found.script THEN found.path.dir ELSE Cwd)
                 /\ running = <<[path |-> found.path, module |-> None]>>

(* evc_import() of a request by the running script, up to the point where  *)
(* the importer has its value or error, or the module's code begins.  When *)
(* no file is found the importer gets an error and nothing else changes.   *)

(* module_makekey() refuses the file; reimport() gives the value, or the   *)
(* error when the module is still LOADING or has failed; the file does not *)
(* compile.  In each case the path was pushed and is popped.               *)
(* Seeded fault: a file that is refused stays among the breadcrumbs.       *)
ImportReturns_KeepsPath ==
    /\ running # << >>
    /\ \E r \in Requests : \E found \in Search(r, import_path) :
          /\ found.path.file \in NotRegular
          /\ breadcrumbs' = Append(breadcrumbs, found.path)
          /\ import_path' = Pushed(found, import_path)
    /\ UNCHANGED <<cache, running, began>>

ImportReturns ==
    /\ running # << >>
    /\ \E r \in Requests : \E found \in Search(r, import_path) :
          LET f == found.path.file
          IN  /\ \/ /\ f \in NotRegular \/ cache[f] # "none"
                    /\ UNCHANGED cache
                 \/ /\ f \notin NotRegular /\ cache[f] = "none"
                    /\ cache' = [cache EXCEPT ![f] = "ERROR"]
              /\ pop_path(Append(breadcrumbs, found.path))
    /\ UNCHANGED <<running, began>>

(* Seeded fault: a module that failed is tried again.                      *)
ImportBegins_Retries ==
    /\ running # << >>
    /\ \E r \in Requests : \E found \in Search(r, import_path) :
          LET f == found.path.file
          IN  /\ f \notin NotRegular /\ cache[f] \in {"none", "ERROR"}
              /\ cache' = [cache EXCEPT ![f] = "LOADING"]
              /\ breadcrumbs' = Append(breadcrumbs, found.path)
              /\ import_path' = Pushed(found, import_path)
              /\ running' = Append(running, [path |-> found.path, module |-> f])
              /\ began' = [began EXCEPT ![f] = @ + 1]

ImportBegins ==
    /\ running # << >>
    /\ \E r \in Requests : \E found \in Search(r, import_path) :
          LET f == found.path.file
          IN  /\ f \notin NotRegular /\ cache[f] = "none"
              /\ cache' = [cache EXCEPT ![f] = "LOADING"]
              /\ breadcrumbs' = Append(breadcrumbs, found.path)
              /\ import_path' = Pushed(found, import_path)
              /\ running' = Append(running, [path |-> found.path, module |-> f])
              /\ began' = [began EXCEPT ![f] = @ + 1]

(* Seeded fault: an exception leaves the module in state LOADING.          *)
ModuleEnds_KeepsLoading ==
    /\ Len(running) > 1
    /\ \E state \in {"LOADED", "LOADING"} :
          cache' = [cache EXCEPT ![Top(running).module] = state]
    /\ pop_path(breadcrumbs)
    /\ running' = Cut(running)
    /\ UNCHANGED began

(* The running module returns a value or throws: the importer goes on with *)
(* the value or the exception, which it may catch or end with in turn.     *)
ModuleEnds ==
    /\ Len(running) > 1
    /\ \E state \in {"LOADED", "ERROR"} :
          cache' = [cache EXCEPT ![Top(running).module] = state]
    /\ pop_path(breadcrumbs)
    /\ running' = Cut(running)
    /\ UNCHANGED began

MainEnds ==
    /\ Len(running) = 1
    /\ IF Top(running).path = None THEN UNCHANGED <<breadcrumbs, import_path>>
       ELSE pop_path(breadcrumbs)
    /\ running' = << >>
    /\ UNCHANGED <<cache, began>>

Next == ImportReturns \/ ImportBegins \/ ModuleEnds \/ MainEnds

Spec == Init /\ [][Next]_vars
------------------------------------------------------------------------------
TypeOK == /\ cache \in [Files -> {"none", "LOADING", "LOADED", "ERROR"}]
          /\ breadcrumbs \in Seq(Path)
          /\ import_path \in Seq(Dirs) /\ import_path # << >>
          /\ running \in Seq(Script)
          /\ began \in [Files -> Nat]

(* The breadcrumbs are the paths of the scripts that run, whichever way    *)
(* the imports before ended (push_path, pop_path).                         *)
BreadcrumbsMatch ==
    LET shift == Len(running) - Len(breadcrumbs)
    IN  /\ shift \in {0, 1}
        /\ shift = 1 => running[1].path = None
        /\ \A i \in DOMAIN breadcrumbs : running[i + shift].path = breadcrumbs[i]

(* A module is LOADING exactly while it runs, and no module runs inside    *)
(* itself: the cyclic import is an error instead (module_new, reimport).   *)
LoadingIsRunning ==
    /\ \A i \in DOMAIN running : running[i].module = None <=> i = 1
    /\ \A f \in Files : cache[f] = "LOADING" <=> \E i \in DOMAIN running : running[i].module = f
    /\ \A i, j \in DOMAIN running : running[i].module = running[j].module => i = j

(* A module's code is begun at most once, however often, under whatever    *)
(* name and wherever in a circle of imports it is asked for.               *)
RunsOnce == \A f \in Files : began[f] <= 1 /\ (began[f] = 1 => cache[f] # "none")

(* When an import ends, however it ends, the search path begins with the   *)
(* directory of the script that goes on (pop_path).                        *)
PathGoesHome ==
    [][Len(running') <= Len(running) /\ import_path' # import_path
          => import_path'[1] = IF \A i \in DOMAIN running' : running'[i].path = None THEN Cwd
                               ELSE Top(running').path.dir]_vars

(* The tutorial: the search path begins with "." or the directory of the   *)
(* import being executed.                                                  *)
PathIsRunning ==
    running # << >> /\ Top(running).path # None
        => import_path[1] \in {Cwd, Top(running).path.dir}
=============================================================================
