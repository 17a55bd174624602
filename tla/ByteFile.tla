------------------------------ MODULE ByteFile ------------------------------
(***************************************************************************)
(* What a file promises to a script: an array of bytes with one position,  *)
(* whatever is buffered on the way.  The stored bytes lag behind until a   *)
(* flush, a seek or the end of the file object.                            *)
(***************************************************************************)
EXTENDS FileBytes

CONSTANTS Space                \* the device holds no more bytes

VARIABLES file,                \* kind and permissions
          stored,              \* what others see
          content,             \* what the script has made of it
          pos, open,
          request, answer      \* the last call and its result

vars == <<file, stored, content, pos, open, request, answer>>

Asked(op) == open /\ request'.op = op

Rest == After(content, pos)

Init == /\ file \in [kind : {"raw", "binary", "text"}, readable : BOOLEAN, writable : BOOLEAN]
        /\ stored \in Seq(Byte) /\ content = stored
        /\ pos = 0 /\ open = TRUE
        /\ request = AskFor("open") /\ answer = Nothing

(* At any time the buffer may go out, as a whole.                          *)
MayStore == stored' \in {stored, content'}
Stores   == stored' = content'

(* What is intended does not fit: some of it is stored, the rest is gone.  *)
Fails(intended) ==
    /\ Len(intended) > Space
    /\ answer' = Failure
    /\ content' = stored'
    /\ \A i \in DOMAIN stored' : \/ i \in DOMAIN stored /\ stored'[i] = stored[i]
                                 \/ i \in DOMAIN intended /\ stored'[i] = intended[i]
    /\ pos' \in Nat

Takes(k) == answer' = Bytes(Upto(Rest, k)) /\ pos' = pos + k

(* n bytes, or all there are.                                              *)
ReadBytes(n) == Takes(IF n < 0 THEN Len(Rest) ELSE Least(n, Len(Rest)))

(* As many whole characters of s as there are, up to n.  When something    *)
(* else stands before the n-th, the call fails and the position is         *)
(* somewhere before it.                                                    *)
ReadWhole(s, n) ==
    LET k == Decoded(s, n)
    IN  IF k = Len(s) \/ Characters(Upto(s, k)) = n THEN Takes(k)
        ELSE answer' = Failure /\ pos' \in pos..pos + k

Read == /\ Asked("read") /\ file.readable
        /\ IF file.kind = "text" THEN ReadWhole(Rest, request'.n) ELSE ReadBytes(request'.n)
        /\ UNCHANGED <<content, open>> /\ MayStore

ReadLine == /\ Asked("readline") /\ file.readable /\ file.kind = "text"
            /\ ReadWhole(Line(Rest), -1)
            /\ UNCHANGED <<content, open>> /\ MayStore

Write ==
    LET bytes == request'.bytes
        new   == WriteAt(content, pos, bytes)
    IN  /\ Asked("write") /\ file.writable
        /\ \/ /\ content' = new /\ pos' = pos + Len(bytes)
              /\ answer' = Number(Len(bytes))
              /\ MayStore
           \/ Fails(new)
        /\ UNCHANGED open

Flush == /\ Asked("flush")
         /\ \/ answer' = Nothing /\ Stores /\ UNCHANGED <<content, pos>>
            \/ Fails(content)
         /\ UNCHANGED open

Tell == /\ Asked("tell")
        /\ answer' = Number(pos)
        /\ UNCHANGED <<stored, content, pos, open>>

Seek ==
    LET target == request'.n + CASE request'.from = "set" -> 0
                                 [] request'.from = "cur" -> pos
                                 [] request'.from = "end" -> Len(content)
    IN  /\ Asked("seek")
        /\ \/ /\ IF target >= 0 THEN pos' = target /\ answer' = Number(target)
                 ELSE answer' = Failure /\ UNCHANGED pos
              /\ Stores /\ UNCHANGED content
           \/ Fails(content)
        /\ UNCHANGED open

Close == /\ request'.op = "close"
         /\ \/ answer' = Nothing /\ open' = FALSE
               /\ Stores /\ UNCHANGED content /\ pos' \in Nat
            \/ open /\ Fails(content) /\ UNCHANGED open

(* A file that is no longer referred to closes; what was not stored by     *)
(* then is lost.                                                           *)
Dropped == /\ Asked("drop") /\ open' = FALSE
           /\ content' = stored /\ pos' \in Nat
           /\ answer' = Nothing /\ UNCHANGED stored

(* A file that is closed, or lacks the permission or the operation.        *)
Refused == /\ \/ ~open
              \/ request'.op = "write" /\ ~file.writable
              \/ request'.op \in {"read", "readline"} /\ ~file.readable
              \/ request'.op = "readline" /\ file.kind # "text"
           /\ answer' \in {Failure, Nothing}
           /\ UNCHANGED <<stored, content, pos, open>>

Next == /\ UNCHANGED file
        /\ \/ Read \/ ReadLine \/ Write \/ Flush \/ Tell \/ Seek
           \/ Close \/ Dropped \/ Refused

Spec == Init /\ [][Next]_vars
=============================================================================
