SPECIFICATION Spec
CONSTANTS
  here = here  lib = lib  sub = sub
  f1 = f1  f2 = f2  f3 = f3  f4 = f4  dir = dir
  a = a  b = b  c = c  absolute = absolute
  Dirs = {here, lib, sub}
  Files = {f1, f2, f3, f4, dir}
  Relative = {a, b, c}
  Absolute = {absolute}
  Where <- Tree
  NotRegular = {dir}
  Cwd = here
  Library = lib
  Added <- AddedDirs
  None = None
CHECK_DEADLOCK FALSE
INVARIANTS
  TypeOK
  BreadcrumbsMatch
  LoadingIsRunning
  RunsOnce
PROPERTY PathGoesHome
