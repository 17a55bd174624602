------------------------------- MODULE Files --------------------------------
(***************************************************************************)
(* Files of scripts: src/src/builtin/io.c.  A raw file is a file           *)
(* descriptor.  A binary file has a buffer on either side of it, a text    *)
(* file has one for reading and decodes what it takes from it.             *)
(*                                                                         *)
(* One descriptor on one file of the device, which nobody else changes.    *)
(* Calls are one step each, but for reads from a text file, which loop:    *)
(* they take a step for each time round.  A buffer that is NULL is empty   *)
(* (the code keeps no empty one), and fb_outbuf is its chunks in a row.    *)
(***************************************************************************)
EXTENDS FileBytes

CONSTANTS Space,            \* what the device holds
          IO_BUFFER_SIZE,
          Initial,          \* what the file may hold when it is opened
          Counts, Offsets, Chunks,   \* arguments of read, seek, write
          MaxOffset,        \* bound: nobody seeks further
          Beyond,           \* calls that go wrong and are made all the same
          ReallocOfNothing  \* realloc(p, 0): "block", or "null" as in glibc

ASSUME FilesAssumption ==
    /\ Space \in Nat /\ IO_BUFFER_SIZE \in Nat \ {0}
    /\ Initial \subseteq {bytes \in Seq(Byte) : Len(bytes) <= Space}
    /\ Chunks \subseteq Seq(Byte)
    /\ MaxOffset \in Nat
    /\ Counts \subseteq Int /\ Offsets \subseteq Int
    /\ Beyond \subseteq {"nothing", "below", "full", "tail"}
    /\ ReallocOfNothing \in {"block", "null"}

VARIABLES
    file,              \* fr_type (by class), fr_readable, fr_writable
    disk,              \* the bytes on the device
    off, open,         \* of the descriptor: offset, fr_fd >= 0
    outbuf,            \* fb_outbuf; its length is fb_outbuf_size
    inbuf, inpos,      \* fb_inbuf, fb_inbuf_pos; ft_buf, ft_bufpos
    ft_eof,
    call,              \* a read of a text file in progress
    request, answer    \* the last call that returned and its result

vars == <<file, disk, off, open, outbuf, inbuf, inpos, ft_eof, call, request, answer>>

Kinds  == {"raw", "binary", "text"}
Unread == Len(inbuf) - inpos

(* call: nothing, dead (the process has ended), or a read: how many        *)
(* characters are wanted, the bytes decoded so far, at_eof, the next step. *)
Idle == [at |-> "idle", request |-> AskFor("none"), out |-> << >>, at_eof |-> FALSE]
Dead == [Idle EXCEPT !.at = "dead"]

Init == /\ file \in [kind : Kinds, readable : BOOLEAN, writable : BOOLEAN]
        /\ file.readable \/ file.writable
        /\ disk \in Initial
        /\ off = 0 /\ open = TRUE
        /\ outbuf = << >> /\ inbuf = << >> /\ inpos = 0 /\ ft_eof = FALSE
        /\ call = Idle
        /\ request = AskFor("open") /\ answer = Nothing

Returns(asked, result) == request' = asked /\ answer' = result
Untouched == UNCHANGED <<disk, off, open, outbuf, inbuf, inpos, ft_eof, call>>

On(kind)   == call = Idle /\ file.kind = kind
Usable(op) == /\ open
              /\ op = "read" => file.readable
              /\ op = "write" => file.writable
------------------------------------------------------------------------------
(* The descriptor                                                          *)

(* raw_write_wrapper: the device takes what fits, then write(2) fails.     *)
RawWrite(bytes, at) ==
    LET room == IF at >= Space THEN 0 ELSE Least(Len(bytes), Space - at)
    IN  [disk |-> WriteAt(disk, at, Upto(bytes, room)), off |-> at + room,
         ok |-> room = Len(bytes)]

(* raw_read: n < 0 stands for the size of the file.                        *)
RawRead(data, at, n) == ReadAt(data, at, IF n < 0 THEN Len(data) ELSE n)

(* Reading nothing where there was something asked for shrinks the buffer  *)
(* to no bytes, and erealloc() takes a null pointer for a failure.         *)
ReadKills(data, got, n) ==
    /\ got = << >> /\ n # 0 /\ ~(n < 0 /\ data = << >>)
    /\ ReallocOfNothing = "null"

Dies == call' = Dead /\ UNCHANGED <<disk, off, open, outbuf, inbuf, inpos, ft_eof, request, answer>>

do_raw_read(n) ==
    LET got == RawRead(disk, off, n)
    IN  /\ On("raw") /\ Usable("read")
        /\ IF ReadKills(disk, got, n) THEN Dies
           ELSE /\ off' = off + Len(got)
                /\ Returns(Ask("read", n, << >>, "set"), Bytes(got))
                /\ UNCHANGED <<disk, open, outbuf, inbuf, inpos, ft_eof, call>>

do_raw_write(bytes) ==
    LET written == RawWrite(bytes, off)
    IN  /\ On("raw") /\ Usable("write")
        /\ disk' = written.disk /\ off' = written.off
        /\ Returns(Ask("write", 0, bytes, "set"),
                   IF written.ok THEN Number(Len(bytes)) ELSE Failure)
        /\ UNCHANGED <<open, outbuf, inbuf, inpos, ft_eof, call>>

(* lseek(2): nothing changes when it fails.                                *)
Target(data, at, n, from) ==
    n + CASE from = "set" -> 0 [] from = "cur" -> at [] from = "end" -> Len(data)

Lseek(asked, data, at, n, from) ==
    LET target == Target(data, at, n, from)
    IN  /\ target <= MaxOffset
        /\ off' = IF target < 0 THEN at ELSE target
        /\ Returns(asked, IF target < 0 THEN Failure ELSE Number(target))

do_raw_tell == /\ On("raw") /\ open
               /\ Returns(AskFor("tell"), Number(off)) /\ Untouched

do_raw_seek(n, from) ==
    /\ On("raw") /\ open
    /\ Lseek(Ask("seek", n, << >>, from), disk, off, n, from)
    /\ UNCHANGED <<disk, open, outbuf, inbuf, inpos, ft_eof, call>>

(* do_raw_close and, for text files, do_text_close: once more is no error. *)
CloseRaw == /\ file.kind \in {"raw", "text"} /\ call = Idle
            /\ open' = FALSE
            /\ Returns(AskFor("close"), Nothing)
            /\ UNCHANGED <<disk, off, outbuf, inbuf, inpos, ft_eof, call>>
------------------------------------------------------------------------------
(* Binary files                                                            *)

(* bin_flush: whether or not it succeeds the buffer is empty thereafter.   *)
bin_flush(bytes, at) == RawWrite(bytes, at)

do_bin_read(n) ==
    LET asked   == Ask("read", n, << >>, "set")
        flushed == bin_flush(outbuf, off)
        need    == IF n < 0 THEN -1
                   ELSE IF n - Unread < IO_BUFFER_SIZE THEN IO_BUFFER_SIZE ELSE n - Unread
        got     == RawRead(flushed.disk, flushed.off, need)
        taken   == IF n < 0 THEN Len(got) ELSE Least(n - Unread, Len(got))
    IN  /\ On("binary") /\ Usable("read")
        /\ IF inbuf # << >> /\ n >= 0 /\ n <= Unread
           THEN /\ Returns(asked, Bytes(SubSeq(inbuf, inpos + 1, inpos + n)))
                /\ IF inpos + n = Len(inbuf) THEN inbuf' = << >> /\ inpos' = 0
                   ELSE inpos' = inpos + n /\ UNCHANGED inbuf
                /\ UNCHANGED <<disk, off, open, outbuf, ft_eof, call>>
           ELSE /\ n = 0 => "nothing" \in Beyond
                /\ ~flushed.ok => "full" \in Beyond
                /\ IF ReadKills(flushed.disk, got, need) THEN Dies
                   ELSE /\ disk' = flushed.disk /\ off' = flushed.off + Len(got)
                        /\ outbuf' = << >>
                        /\ Returns(asked, Bytes(After(inbuf, inpos) \o Upto(got, taken)))
                        /\ inbuf' = got /\ inpos' = taken
                        /\ UNCHANGED <<open, ft_eof, call>>

(* Seeded fault: the read buffer stays valid.                              *)
do_bin_write_KeepsInbuf(bytes) ==
    LET all     == outbuf \o bytes
        flushed == bin_flush(all, off)
    IN  /\ On("binary") /\ Usable("write")
        /\ IF Len(all) > IO_BUFFER_SIZE
           THEN /\ disk' = flushed.disk /\ off' = flushed.off /\ outbuf' = << >>
                /\ Returns(Ask("write", 0, bytes, "set"),
                           IF flushed.ok THEN Number(Len(bytes)) ELSE Failure)
           ELSE /\ outbuf' = all
                /\ Returns(Ask("write", 0, bytes, "set"), Number(Len(bytes)))
                /\ UNCHANGED <<disk, off>>
        /\ UNCHANGED <<inbuf, inpos, open, ft_eof, call>>

(* Unread bytes are given back to the descriptor, then bin_write.          *)
do_bin_write(bytes) ==
    LET all     == outbuf \o bytes
        flushed == bin_flush(all, off - Unread)
    IN  /\ On("binary") /\ Usable("write")
        /\ inbuf' = << >> /\ inpos' = 0
        /\ IF Len(all) > IO_BUFFER_SIZE
           THEN /\ disk' = flushed.disk /\ off' = flushed.off /\ outbuf' = << >>
                /\ Returns(Ask("write", 0, bytes, "set"),
                           IF flushed.ok THEN Number(Len(bytes)) ELSE Failure)
           ELSE /\ outbuf' = all /\ off' = off - Unread
                /\ Returns(Ask("write", 0, bytes, "set"), Number(Len(bytes)))
                /\ UNCHANGED disk
        /\ UNCHANGED <<open, ft_eof, call>>

do_bin_flush ==
    LET flushed == bin_flush(outbuf, off)
    IN  /\ On("binary") /\ open
        /\ disk' = flushed.disk /\ off' = flushed.off /\ outbuf' = << >>
        /\ Returns(AskFor("flush"), IF flushed.ok THEN Nothing ELSE Failure)
        /\ UNCHANGED <<open, inbuf, inpos, ft_eof, call>>

do_bin_tell ==
    /\ On("binary") /\ open
    /\ Returns(AskFor("tell"),
               Number(IF outbuf = << >> /\ inpos = 0 THEN off ELSE off + Len(outbuf) - Unread))
    /\ Untouched

do_bin_seek(n, from) ==
    LET asked   == Ask("seek", n, << >>, from)
        flushed == bin_flush(outbuf, off)
        by      == IF from = "cur" THEN n - Unread ELSE n
    IN  /\ On("binary") /\ open
        /\ Target(flushed.disk, flushed.off, by, from) < 0 /\ Unread # 0 => "below" \in Beyond
        /\ disk' = flushed.disk /\ outbuf' = << >>
        /\ IF ~flushed.ok
           THEN /\ off' = flushed.off
                /\ Returns(asked, Failure)
                /\ UNCHANGED <<inbuf, inpos>>
           ELSE /\ inbuf' = << >> /\ inpos' = 0
                /\ Lseek(asked, flushed.disk, flushed.off, by, from)
        /\ UNCHANGED <<open, ft_eof, call>>

do_bin_close ==
    LET flushed == bin_flush(outbuf, off)
    IN  /\ On("binary")
        /\ IF ~open THEN Untouched /\ Returns(AskFor("close"), Nothing)
           ELSE /\ disk' = flushed.disk /\ off' = flushed.off /\ outbuf' = << >>
                /\ IF flushed.ok
                   THEN /\ inbuf' = << >> /\ inpos' = 0 /\ open' = FALSE
                        /\ Returns(AskFor("close"), Nothing)
                   ELSE /\ Returns(AskFor("close"), Failure)
                        /\ UNCHANGED <<inbuf, inpos, open>>
                /\ UNCHANGED <<ft_eof, call>>
------------------------------------------------------------------------------
(* Text files                                                              *)

(* text_read and do_text_readline begin, with an empty string_writer_t.    *)
TextReadBegins(asked) ==
    /\ On("text") /\ Usable("read")
    /\ asked.op = "read" /\ asked.n = 0 => "nothing" \in Beyond
    /\ call' = [at |-> "decode", request |-> asked, out |-> << >>, at_eof |-> FALSE]
    /\ UNCHANGED <<disk, off, open, outbuf, inbuf, inpos, ft_eof, request, answer>>

TextReadEnds(result) == call' = Idle /\ Returns(call.request, result)

Wanted == IF call.request.op = "readline" \/ call.request.n < 0 THEN -1
          ELSE call.request.n - Characters(call.out)

Clearbuf == inbuf' = << >> /\ inpos' = 0

(* Once round the loop, up to text_fillbuf.  What is no character fails    *)
(* where the data begins; but a character of three bytes or four, which    *)
(* begins like one of two here, may be cut by the end of its line, and     *)
(* only fails behind what was taken.                                       *)
TextDecode ==
    LET line  == call.request.op = "readline"
        rest  == After(inbuf, inpos)
        data  == IF line THEN Line(rest) ELSE rest
        k     == Decoded(data, Wanted)
        out   == call.out \o Upto(data, k)
        enough == IF line THEN Newline \in {data[i] : i \in DOMAIN data}
                  ELSE Wanted >= 0 /\ Wanted = Characters(Upto(data, k))
        bad    == Malformed(After(data, k))
        cut    == bad /\ After(data, k)[1] = Lead
    IN  /\ call.at = "decode"
        /\ IF inbuf = << >> \/ Wanted = 0
           THEN /\ IF call.at_eof
                   THEN TextReadEnds(IF inbuf = << >> THEN Bytes(call.out) ELSE Failure)
                   ELSE call' = [call EXCEPT !.at = "fill"] /\ UNCHANGED <<request, answer>>
                /\ UNCHANGED <<inbuf, inpos>>
           ELSE \/ /\ bad /\ (line \/ ~enough)
                   /\ TextReadEnds(Failure) /\ UNCHANGED <<inbuf, inpos>>
                \/ /\ ~bad \/ (enough /\ (line => cut))
                   /\ IF inpos + k = Len(inbuf) THEN Clearbuf
                      ELSE inpos' = inpos + k /\ UNCHANGED inbuf
                   /\ IF enough THEN TextReadEnds(IF line /\ k # Len(data) THEN Failure ELSE Bytes(out))
                      ELSE IF call.at_eof
                      THEN TextReadEnds(IF k = Len(data) THEN Bytes(out) ELSE Failure)
                      ELSE call' = [call EXCEPT !.at = "fill", !.out = out] /\ UNCHANGED <<request, answer>>
        /\ UNCHANGED <<disk, off, open, outbuf, ft_eof>>

(* text_fillbuf: what was left goes before what is read.                   *)
TextFill ==
    LET got == RawRead(disk, off, IO_BUFFER_SIZE)
        again(eof) == [call EXCEPT !.at = "decode", !.at_eof = eof]
    IN  /\ call.at = "fill"
        /\ IF ft_eof THEN call' = again(TRUE) /\ UNCHANGED <<off, inbuf, inpos, ft_eof>>
           ELSE IF ReadKills(disk, got, IO_BUFFER_SIZE)
           THEN call' = Dead /\ UNCHANGED <<off, inbuf, inpos, ft_eof>>
           ELSE IF got = << >>
           THEN ft_eof' = TRUE /\ call' = again(TRUE) /\ UNCHANGED <<off, inbuf, inpos>>
           ELSE /\ off' = off + Len(got)
                /\ inbuf' = After(inbuf, inpos) \o got /\ inpos' = 0
                /\ call' = again(FALSE)
                /\ UNCHANGED ft_eof
        /\ UNCHANGED <<disk, open, outbuf, request, answer>>

do_text_write(bytes) ==
    LET written == RawWrite(bytes, off - Unread)
    IN  /\ On("text") /\ Usable("write")
        /\ bytes = << >> /\ ft_eof /\ Unread # 0 => "tail" \in Beyond
        /\ Clearbuf
        /\ disk' = written.disk /\ off' = written.off
        /\ Returns(Ask("write", 0, bytes, "set"),
                   IF written.ok THEN Number(Len(bytes)) ELSE Failure)
        /\ UNCHANGED <<open, outbuf, ft_eof, call>>

(* Nothing waits to be written, and the file may even be closed.           *)
do_text_flush == On("text") /\ Returns(AskFor("flush"), Nothing) /\ Untouched

do_text_tell == /\ On("text") /\ open
                /\ Returns(AskFor("tell"), Number(off - Unread)) /\ Untouched

(* Seeded fault: the end of file is remembered across a seek.              *)
do_text_seek_KeepsEof(n, from) ==
    LET by == IF from = "cur" THEN n - Unread ELSE n
    IN  /\ On("text") /\ open
        /\ Target(disk, off, by, from) < 0 /\ Unread # 0 => "below" \in Beyond
        /\ Clearbuf
        /\ Lseek(Ask("seek", n, << >>, from), disk, off, by, from)
        /\ UNCHANGED <<disk, open, outbuf, ft_eof, call>>

do_text_seek(n, from) ==
    LET by == IF from = "cur" THEN n - Unread ELSE n
    IN  /\ On("text") /\ open
        /\ Target(disk, off, by, from) < 0 /\ Unread # 0 => "below" \in Beyond
        /\ Clearbuf /\ ft_eof' = FALSE
        /\ Lseek(Ask("seek", n, << >>, from), disk, off, by, from)
        /\ UNCHANGED <<disk, open, outbuf, call>>
------------------------------------------------------------------------------
(* filerr_closed, filerr_permit                                            *)
Refused ==
    /\ call = Idle
    /\ \E op \in {"read", "write", "flush", "tell", "seek"} :
          /\ ~Usable(op)
          /\ op = "flush" => file.kind = "binary"
          /\ Returns(AskFor(op), Failure)
    /\ Untouched

(* binfile_reset, textfile_reset, rawfile_reset: the last reference goes.  *)
Reset ==
    /\ call = Idle /\ open
    /\ open' = FALSE /\ outbuf' = << >> /\ Clearbuf
    /\ Returns(AskFor("drop"), Nothing)
    /\ UNCHANGED <<disk, off, ft_eof, call>>

Next == /\ UNCHANGED file
        /\ \/ \E n \in Counts : do_raw_read(n) \/ do_bin_read(n)
                                \/ TextReadBegins(Ask("read", n, << >>, "set"))
           \/ TextReadBegins(AskFor("readline")) \/ TextDecode \/ TextFill
           \/ \E bytes \in Chunks : do_raw_write(bytes) \/ do_bin_write(bytes) \/ do_text_write(bytes)
           \/ \E n \in Offsets, from \in Origins :
                 do_raw_seek(n, from) \/ do_bin_seek(n, from) \/ do_text_seek(n, from)
           \/ do_raw_tell \/ do_bin_tell \/ do_text_tell
           \/ do_bin_flush \/ do_text_flush
           \/ CloseRaw \/ do_bin_close \/ Refused \/ Reset

Spec == Init /\ [][Next]_vars
------------------------------------------------------------------------------
TypeOK == /\ file \in [kind : Kinds, readable : BOOLEAN, writable : BOOLEAN]
          /\ disk \in Seq(Byte) /\ outbuf \in Seq(Byte) /\ inbuf \in Seq(Byte)
          /\ off \in Nat /\ inpos \in Nat
          /\ open \in BOOLEAN /\ ft_eof \in BOOLEAN
          /\ call.at \in {"idle", "decode", "fill", "dead"}

(* Only one buffer is in use, which do_bin_tell suspects could fail; what  *)
(* is unread was read just before the offset, so that going back by it     *)
(* never goes below the beginning (do_bin_write, do_text_write).           *)
BuffersExclusive ==
    /\ TypeOK
    /\ outbuf # << >> => inbuf = << >>
    /\ inpos <= Len(inbuf)
    /\ Unread <= off
    /\ After(inbuf, inpos) = SubSeq(disk, off - Unread + 1, off)

(* Reading where nothing is left to read gives nothing, as the regression  *)
(* test for text files expects.                                            *)
SurvivesEnd == call.at # "dead"

(* The file is an array of bytes with a position: buffers, refills and     *)
(* characters cut in two by them do not show.                              *)
File == INSTANCE ByteFile WITH
            stored  <- disk,
            content <- WriteAt(disk, off, outbuf),
            pos     <- off + Len(outbuf) - Unread - Len(call.out)

ImplementsFile == File!Spec
=============================================================================
