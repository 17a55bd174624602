------------------------------ MODULE MCImport ------------------------------
(* Three directories with files of the same names; a link in one leads to  *)
(* a file of another, and one name is that of a directory.                 *)
EXTENDS Import

CONSTANTS here, lib, sub,       \* directories
          f1, f2, f3, f4, dir,  \* files; dir is a directory
          a, b, c, absolute     \* requests; c asks for a file below

P(d, f) == [dir |-> d, file |-> f]

Tree == [w \in (Dirs \X Relative) \cup Absolute |->
            CASE w = <<here, a>> -> P(here, f1)
              [] w = <<here, c>> -> P(sub, f2)
              [] w = <<lib, a>>  -> P(lib, f3)
              [] w = <<lib, b>>  -> P(lib, f2)
              [] w = <<lib, c>>  -> P(lib, dir)
              [] w = <<sub, a>>  -> P(sub, f1)
              [] w = <<sub, b>>  -> P(sub, f4)
              [] w = absolute    -> P(sub, f3)
              [] OTHER           -> None]
AddedDirs == <<lib>>
=============================================================================
