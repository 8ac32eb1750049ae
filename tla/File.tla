-------------------------------- MODULE File --------------------------------
(***************************************************************************)
(* Bu::File (src/stable/file.cpp): a file behind a descriptor.  core is    *)
(* the File object: whether its descriptor is open, the modes it was       *)
(* opened with and bEos.  The kernel's side is abs: the bytes of each file *)
(* that exists, the offset of the descriptor, and whether a read took none.*)
(***************************************************************************)
EXTENDS Integers, SequencesExt

CONSTANTS Names,            \* of files; a temporary name is one of them
          MaxSize           \* bound: bytes of a file

VARIABLES core, abs
vars == <<core, abs>>

Hole == 0                   \* a byte nobody wrote
Byte == 1..2
Flag == {"Read", "Write", "Create", "Append", "Truncate", "Exclusive"}
Upto(n, m) == IF n < m THEN n ELSE m
-----------------------------------------------------------------------------
\* getPosixFlags throws without Read and Write; Exclusive is Create and O_EXCL.
getPosixFlags(flags) == flags \cap {"Read", "Write", "Append"}   \* those that stay with the descriptor
MayOpen(flags) == flags \cap {"Read", "Write"} # {}
Creates(flags) == flags \cap {"Create", "Exclusive"} # {}

\* open(2)
OpenSucceeds(files, n, flags) ==
    /\ MayOpen(flags)
    /\ n \in DOMAIN files => "Exclusive" \notin flags
    /\ n \notin DOMAIN files => Creates(flags)
Opened(files, n, flags) ==
    IF n \in DOMAIN files /\ ~("Truncate" \in flags /\ "Write" \in flags) THEN files
    ELSE [m \in DOMAIN files \cup {n} |-> IF m = n THEN <<>> ELSE files[m]]

Init == /\ core = [fd |-> -1, flags |-> {}, bEos |-> FALSE]
        /\ \E old \in SUBSET Names : abs = [files |-> [n \in old |-> <<1, 2>>], name |-> "", pos |-> 0, temp |-> {}, empty |-> FALSE]

Open == \E n \in Names, flags \in SUBSET Flag :
    /\ core.fd = -1 /\ OpenSucceeds(abs.files, n, flags)
    /\ core' = [fd |-> 3, flags |-> getPosixFlags(flags), bEos |-> FALSE]
    /\ abs' = [abs EXCEPT !.files = Opened(@, n, flags), !.name = n, !.pos = 0, !.temp = {}, !.empty = FALSE]

\* Mutant: a temporary file may be one that is there.
TempTakesAny(files) == DOMAIN files \cup Names

\* tempFile: names are tried until one could be made.
tempNames(files) == {n \in Names : OpenSucceeds(files, n, {"Read", "Write", "Create", "Exclusive"})}

tempFile == \E n \in tempNames(abs.files) :
    /\ core.fd = -1
    /\ core' = [fd |-> 3, flags |-> {"Read", "Write"}, bEos |-> FALSE]
    /\ abs' = [abs EXCEPT !.files = Opened(@, n, {"Create"}), !.name = n, !.pos = 0, !.temp = DOMAIN abs.files, !.empty = FALSE]

close == /\ core.fd >= 0
         /\ core' = [core EXCEPT !.fd = -1, !.bEos = TRUE]
         /\ UNCHANGED abs

Bytes == abs.files[abs.name]

\* Mutant: fewer bytes than were asked for are the end.
ShortIsEos(c, n, got) == [c EXCEPT !.bEos = got < n]

eos(c, n, got) == [c EXCEPT !.bEos = @ \/ got = 0]

read == \E n \in 1..2 :
    /\ core.fd >= 0 /\ "Read" \in core.flags
    /\ LET got == IF abs.pos >= Len(Bytes) THEN 0 ELSE Upto(n, Len(Bytes) - abs.pos)
       IN  /\ core' = eos(core, n, got)
           /\ abs' = [abs EXCEPT !.pos = @ + got, !.empty = @ \/ got = 0]

\* write(2) at the offset, or at the end with O_APPEND; a gap reads as zeros.
Patched(s, at, b) == [k \in 1..(IF Len(s) < at + 1 THEN at + 1 ELSE Len(s)) |->
                          IF k = at + 1 THEN b ELSE IF k <= Len(s) THEN s[k] ELSE Hole]
write == \E b \in Byte :
    /\ core.fd >= 0 /\ "Write" \in core.flags
    /\ LET at == IF "Append" \in core.flags THEN Len(Bytes) ELSE abs.pos
       IN  /\ at < MaxSize
           /\ abs' = [abs EXCEPT !.files[abs.name] = Patched(@, at, b), !.pos = at + 1]
    /\ UNCHANGED core

\* lseek fails on a position before the start and leaves the offset; the flag is cleared anyway.
moved(to) == /\ core.fd >= 0 /\ to <= MaxSize
             /\ core' = [core EXCEPT !.bEos = FALSE]
             /\ abs' = [abs EXCEPT !.pos = IF to < 0 THEN @ ELSE to, !.empty = FALSE]
seek == \E o \in -1..1 : moved(abs.pos + o)
setPos == \E p \in 0..MaxSize : moved(p)
setPosEnd == \E p \in -1..1 : core.fd >= 0 /\ moved(Len(Bytes) + p)

setSize == \E n \in 0..MaxSize :
    /\ core.fd >= 0 /\ "Write" \in core.flags
    /\ abs' = [abs EXCEPT !.files[abs.name] = [k \in 1..n |-> IF k <= Len(@) THEN @[k] ELSE Hole]]
    /\ UNCHANGED core

Next == Open \/ tempFile \/ close \/ read \/ write \/ seek \/ setPos \/ setPosEnd \/ setSize

Spec == Init /\ [][Next]_vars
-----------------------------------------------------------------------------
\* isEos answers yes only when a read has returned nothing since the last move: a program that reads
\* until isEos has met the end and lost nothing on the way, also where a read came back short.
EosIsTheEnd == core.fd >= 0 /\ core.bEos => abs.empty

\* A temporary file is a new one.
TempIsNew == abs.name \notin abs.temp
=============================================================================
