----------------------------- MODULE FileBytes ------------------------------
(***************************************************************************)
(* What files hold and what calls on them answer: shared by the abstract   *)
(* ByteFile and by Files, the buffered files of src/src/builtin/io.c.      *)
(*                                                                         *)
(* A byte is one of four: Letter and Newline are characters of their own,  *)
(* Lead and Trail make one together, and Zero fills a gap.  That is UTF-8   *)
(* as far as reading by characters, or by lines, can tell.                 *)
(***************************************************************************)
EXTENDS Integers, Sequences, FiniteSets

CONSTANTS Letter, Lead, Trail, Newline, Zero

Byte == {Letter, Lead, Trail, Newline, Zero}

ASSUME BytesAssumption == Cardinality(Byte) = 5

Least(a, b)    == IF a <= b THEN a ELSE b
Upto(s, n)     == SubSeq(s, 1, n)
After(s, n)    == SubSeq(s, n + 1, Len(s))
------------------------------------------------------------------------------
(* write(2) at an offset: beyond the end the gap is filled, and no bytes   *)
(* are no change.                                                          *)
WriteAt(data, at, bytes) ==
    IF bytes = << >> THEN data
    ELSE [i \in 1..(IF at + Len(bytes) > Len(data) THEN at + Len(bytes) ELSE Len(data)) |->
             IF i \in at + 1..at + Len(bytes) THEN bytes[i - at]
             ELSE IF i <= Len(data) THEN data[i] ELSE Zero]

(* read(2), at most n bytes from an offset.                                *)
ReadAt(data, at, n) == SubSeq(data, at + 1, Least(at + n, Len(data)))
------------------------------------------------------------------------------
(* The first k bytes are whole characters.                                 *)
Whole(s, k) ==
    \A i \in 1..k : /\ s[i] = Lead => i < k /\ s[i + 1] = Trail
                    /\ s[i] = Trail => i > 1 /\ s[i - 1] = Lead

Characters(s) == Cardinality({i \in DOMAIN s : s[i] # Trail})

(* The most bytes that are whole characters, no more than n of them; n < 0 *)
(* stands for any number.                                                  *)
Decoded(s, n) ==
    LET ends == {k \in 0..Len(s) : Whole(s, k) /\ (n < 0 \/ Characters(Upto(s, k)) <= n)}
    IN  CHOOSE k \in ends : \A other \in ends : other <= k

(* What follows can be no character, however the file goes on.             *)
Malformed(s) == s # << >> /\ \/ s[1] = Trail
                             \/ s[1] = Lead /\ Len(s) > 1 /\ s[2] # Trail

(* The bytes of the first line, its end included, or all.                  *)
Line(s) == LET ends == {i \in DOMAIN s : s[i] = Newline}
           IN  IF ends = {} THEN s
               ELSE Upto(s, CHOOSE i \in ends : \A other \in ends : i <= other)
------------------------------------------------------------------------------
(* What a script asks (n counts, offsets or -1; from is SEEK_SET, SEEK_CUR *)
(* or SEEK_END) and what it is answered.                                   *)
Origins == {"set", "cur", "end"}
Ask(op, n, bytes, from) == [op |-> op, n |-> n, bytes |-> bytes, from |-> from]
AskFor(op)              == Ask(op, 0, << >>, "set")

Answer(is, bytes, number) == [is |-> is, bytes |-> bytes, number |-> number]
Bytes(s)  == Answer("bytes", s, 0)
Number(n) == Answer("number", << >>, n)
Nothing   == Answer("nothing", << >>, 0)
Failure   == Answer("failure", << >>, 0)
=============================================================================
