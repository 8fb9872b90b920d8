----------------------------- MODULE FileHooks -----------------------------
(***************************************************************************)
(* The file hooks unixio_rpi.c gives the Kermit engine (k.openf, readf,    *)
(* writef, closef, getdirdata, accessf, set in _EK_init): the engine       *)
(* calls them one at a time from the worker thread, so each is one atomic  *)
(* step.  The engine itself (kermit.c) is not part of the repository: the  *)
(* order of its calls is left free, except that kreadfile is called only   *)
(* while a file is open or before any was (fread on a NULL FILE* would     *)
(* crash).  The root directory is fs, a file's content the sequence of its *)
(* bytes; names are model values, kadd_rootpath's joining of the root path *)
(* being left out.  k->binary is BINARY of kermit.h, which is not in the   *)
(* repository: both modes are explored.                                    *)
(***************************************************************************)
EXTENDS Crc32, FiniteSets

CONSTANTS
  Names,      \* the names a directory entry or a request may carry
  DotNames,   \* the names that begin with '.'
  DirOrder,   \* the order in which readdir returns the names
  Contents,   \* the contents a file may have
  WriteData,  \* the data the engine may hand to kwritefile
  K_DIR_MAX,  \* the cap on the entries of a listing
  ZinLen,     \* k->zinlen, IBUFLEN (512) in the build
  NULL,       \* a NULL pointer
  NoFile      \* no such file, or no open file

ASSUME /\ DotNames \subseteq Names
       /\ DirOrder \in Seq(Names) /\ Len(DirOrder) = Cardinality(Names)
       /\ << >> \in Contents /\ Contents \subseteq Seq(Byte)
       /\ K_DIR_MAX \in Nat \ {0} /\ ZinLen \in Nat /\ ZinLen >= 3

CR == 13
LF == 10

\* A directory entry: d_type, whether fopen(..., "r") succeeds (for a link,
\* whether its target exists), and the content.
Entry == {e \in [type : {"reg", "lnk", "dir"}, readable : BOOLEAN,
                 data : Contents] : e.type = "dir" => e.data = << >>}

VARIABLES
  fs,       \* the root directory: name -> entry, or NoFile
  binary,   \* k->binary
  ifile,    \* static FILE *ifile: NoFile, or the open file and its offset
  zinbuf,   \* i_buf[IBUFLEN + 8]
  zinptr,   \* k->zinptr, an index into zinbuf, or NULL
  zincnt,   \* k->zincnt
  pdf,      \* the listing kgetdirdata last wrote, or NULL
  ret,      \* the last hook called and the value it returned
  out,      \* auxiliary: the bytes kreadfile returned since kopenfile
  eof       \* auxiliary: kreadfile returned -1 since kopenfile
vars == <<fs, binary, ifile, zinbuf, zinptr, zincnt, pdf, ret, out, eof>>

Init ==
  /\ fs \in [Names -> Entry \cup {NoFile}]
  /\ binary \in BOOLEAN
  /\ ifile = NoFile
  /\ zinbuf = [i \in 0 .. ZinLen + 7 |-> 0]
  /\ zinptr = NULL /\ zincnt = 0           \* memset(&k, 0, sizeof(k))
  /\ pdf = NULL /\ ret = <<"none", 0>>
  /\ out = << >> /\ eof = FALSE

-----------------------------------------------------------------------------
\* kopenfile: mode 1 sets ifile = fopen(name, "r") and resets the input
\* buffer; a failed fopen leaves ifile NULL.  Mode 2 (create) is not
\* implemented and falls through to the default X_ERROR.
kopenfile(n, mode) ==
  /\ IF mode = 1
     THEN IF fs[n] # NoFile /\ fs[n].readable
          THEN /\ ifile' = [name |-> n, pos |-> 0]
               /\ zinbuf' = [zinbuf EXCEPT ![0] = 0]
               /\ zinptr' = 0 /\ zincnt' = 0
               /\ out' = << >> /\ eof' = FALSE
               /\ ret' = <<"openf", "X_OK">>
          ELSE /\ ifile' = NoFile /\ ret' = <<"openf", "X_ERROR">>
               /\ UNCHANGED <<zinbuf, zinptr, zincnt, out, eof>>
     ELSE /\ ret' = <<"openf", "X_ERROR">>
          /\ UNCHANGED <<ifile, zinbuf, zinptr, zincnt, out, eof>>
  /\ UNCHANGED <<fs, binary, pdf>>

\* Binary refill: fread(k->zinbuf, 1, k->zinlen, ifile).
BinaryFill(data, pos) ==
  LET s == SubSeq(data, pos + 1, IF pos + ZinLen < Len(data) THEN pos + ZinLen
                                                         ELSE Len(data))
  IN [buf |-> s, pos |-> pos + Len(s)]

\* Text refill: getc until zincnt reaches zinlen - 2 or EOF, an LF being
\* stored as CR LF.
RECURSIVE TextFill(_, _, _)
TextFill(data, pos, buf) ==
  IF Len(buf) >= ZinLen - 2 \/ pos >= Len(data)
  THEN [buf |-> buf, pos |-> pos]
  ELSE TextFill(data, pos + 1,
                buf \o (IF data[pos + 1] = LF THEN <<CR, LF>>
                                              ELSE <<data[pos + 1]>>))

\* zinbuf after the refill wrote s and the terminating '\0'.
Stored(s) ==
  [i \in DOMAIN zinbuf |-> IF i < Len(s) THEN s[i + 1]
                           ELSE IF i = Len(s) THEN 0 ELSE zinbuf[i]]

\* A refill that reads nothing returns -1: binary mode returns before the
\* terminator is written, text mode after.
ReadEof(f) ==
  /\ ifile' = [ifile EXCEPT !.pos = f.pos]
  /\ zinbuf' = IF binary THEN zinbuf ELSE Stored(f.buf)
  /\ zincnt' = 0 /\ ret' = <<"readf", -1>> /\ eof' = TRUE
  /\ UNCHANGED <<zinptr, out>>

\* The mutant below keeps the pointer where the last buffer left it.
RefillPtrKept(p) == p

\* k->zinptr = k->zinbuf after a refill that read something.
RefillPtr(p) == 0

\* (k->zincnt)--; return (*(k->zinptr)++ & 0xff) from buffer zb at p.
ReturnByte(zb, p, cnt) ==
  /\ zincnt' = cnt - 1 /\ zinptr' = p + 1
  /\ ret' = <<"readf", zb[p]>> /\ out' = Append(out, zb[p])
  /\ UNCHANGED eof

\* kreadfile: -1 while zinptr is NULL; the next buffered byte; or a refill
\* of the buffer from the file, then its first byte or -1 at the end.
kreadfile ==
  /\ ifile # NoFile \/ zinptr = NULL
  /\ CASE zinptr = NULL ->
            ret' = <<"readf", -1>> /\ UNCHANGED <<ifile, zinbuf, zinptr, zincnt, out, eof>>
       [] zincnt >= 1 ->
            ReturnByte(zinbuf, zinptr, zincnt) /\ UNCHANGED <<ifile, zinbuf>>
       [] OTHER ->
            LET data == fs[ifile.name].data
                f    == IF binary THEN BinaryFill(data, ifile.pos)
                                  ELSE TextFill(data, ifile.pos, << >>)
            IN IF f.buf = << >>
               THEN ReadEof(f)
               ELSE /\ ifile' = [ifile EXCEPT !.pos = f.pos]
                    /\ zinbuf' = Stored(f.buf)
                    /\ ReturnByte(Stored(f.buf), RefillPtr(zinptr), Len(f.buf))
  /\ UNCHANGED <<fs, binary, pdf>>

\* static int ofile = -1: kopenfile never opens an output file.
ofile == -1

\* kwritefile: write(ofile, ...) on the unopened descriptor fails, so
\* binary mode returns X_ERROR; text mode writes each run of bytes between
\* CRs up to the terminating NUL, and fails if any run is not empty.
kwritefile(s) ==
  /\ LET nul  == {i \in DOMAIN s : s[i] = 0}
         upto == IF nul = {} THEN s ELSE SubSeq(s, 1, Min(nul) - 1)
     IN ret' = <<"writef", IF binary \/ \E i \in DOMAIN upto : upto[i] # CR
                           THEN "X_ERROR" ELSE "X_OK">>
  /\ UNCHANGED <<fs, binary, ifile, zinbuf, zinptr, zincnt, pdf, out, eof>>

\* kclosefile: mode 1 closes ifile if open; mode 2 finds ofile < 0 and
\* does nothing; any other mode is an error.
kclosefile(mode) ==
  /\ ret' = <<"closef", IF mode \in {1, 2} THEN "X_OK" ELSE "X_ERROR">>
  /\ ifile' = IF mode = 1 THEN NoFile ELSE ifile
  /\ UNCHANGED <<fs, binary, zinbuf, zinptr, zincnt, pdf, out, eof>>

\* kaccessfile: stat(), which follows a link.
kaccessfile(n) ==
  /\ ret' = <<"accessf", IF fs[n] # NoFile /\ (fs[n].type = "lnk" => fs[n].readable)
                         THEN "X_OK" ELSE "X_ERROR">>
  /\ UNCHANGED <<fs, binary, ifile, zinbuf, zinptr, zincnt, pdf, out, eof>>

\* The mutant below stops only once the count has passed K_DIR_MAX.
DirFullLate(cnt) == cnt > K_DIR_MAX

\* if (cnt == K_DIR_MAX) break;
DirFull(cnt) == cnt = K_DIR_MAX

\* An entry passes the d_type test (DT_REG or DT_LNK) and fopen succeeds.
Opens(n) == fs[n] # NoFile /\ fs[n].type \in {"reg", "lnk"} /\ fs[n].readable

\* The while (readdir) loop of kgetdirdata from the entries ents on, with
\* the records list written so far: a file whose CRC fails is skipped
\* unless its name begins with '.', when its etag is 0.
RECURSIVE DirLoop(_, _)
DirLoop(ents, list) ==
  IF ents = << >> THEN list
  ELSE LET n    == Head(ents)
           c    == CRCF_calc_crc(fs[n].data, 0, 0)
           next == Append(list, [filename |-> n,
                                 etag |-> IF c.ret = 0 THEN c.crc ELSE <<0, 0>>])
       IN IF ~Opens(n) \/ (c.ret # 0 /\ n \notin DotNames)
          THEN DirLoop(Tail(ents), list)
          ELSE IF DirFull(Len(next)) THEN next ELSE DirLoop(Tail(ents), next)

\* kgetdirdata: K_ERROR when opendir fails, else the listing and X_OK.
kgetdirdata(opened) ==
  /\ IF opened THEN pdf' = DirLoop(DirOrder, << >>) /\ ret' = <<"getdirdata", "X_OK">>
               ELSE ret' = <<"getdirdata", "K_ERROR">> /\ UNCHANGED pdf
  /\ UNCHANGED <<fs, binary, ifile, zinbuf, zinptr, zincnt, out, eof>>

Next ==
  \/ \E n \in Names, mode \in {1, 2, 3} : kopenfile(n, mode)
  \/ kreadfile
  \/ \E s \in WriteData : kwritefile(s)
  \/ \E mode \in {1, 2, 3} : kclosefile(mode)
  \/ \E n \in Names : kaccessfile(n)
  \/ \E opened \in BOOLEAN : kgetdirdata(opened)

Spec == Init /\ [][Next]_vars

-----------------------------------------------------------------------------
\* The CRC the reference computes for each possible content.
RefCrcOfContent == [c \in Contents \ {<< >>} |-> ReferenceCrc(c)]

\* The bytes a reader of file data should get: the file itself in binary
\* mode, every LF preceded by a CR in text mode.
Expected(data) ==
  IF binary THEN data
  ELSE FlattenSeq([i \in DOMAIN data |->
                     IF data[i] = LF THEN <<CR, LF>> ELSE <<data[i]>>])

(* kreadfile hands out the open file through the 8 bytes of slack of      *)
(* i_buf, refilling it from fread or the getc loop and resetting zinptr:  *)
(* what it returned since kopenfile is always a prefix of the file (with  *)
(* CR LF line ends in text mode), and the whole of it once it returned -1. *)
ReadStreamsFile ==
  ifile # NoFile =>
    LET exp == Expected(fs[ifile.name].data)
    IN IsPrefix(out, exp) /\ (eof => out = exp)

(* Spec section 4.4: the listing names, in readdir order, the regular      *)
(* files and links of the directory that fopen can open, an empty one only *)
(* if its name begins with '.' (the comment in kgetdirdata: "0-length      *)
(* files" are accepted for dotfiles, the others rejected), and stops after *)
(* K_DIR_MAX entries.                                                     *)
ListingSelectsEligible ==
  pdf # NULL =>
    LET E == SelectSeq(DirOrder,
                       LAMBDA n : Opens(n) /\ (fs[n].data # << >> \/ n \in DotNames))
    IN [i \in DOMAIN pdf |-> pdf[i].filename]
         = SubSeq(E, 1, IF Len(E) < K_DIR_MAX THEN Len(E) ELSE K_DIR_MAX)

(* Spec section 4.2: every etag is the CRC of section 4.2 of the whole     *)
(* file, as computed bit by bit by the reference, or 0 for an empty        *)
(* dotfile: the word loop, the stale cache bytes of the last block and the *)
(* 0xFF padding of CRCF_calc_crc_soft and Crc32Fast's nibble table agree    *)
(* with the plain polynomial division.                                     *)
EtagIsReferenceCrc ==
  pdf # NULL =>
    \A i \in DOMAIN pdf :
      LET data == fs[pdf[i].filename].data
      IN pdf[i].etag = IF data = << >> THEN <<0, 0>> ELSE RefCrcOfContent[data]
=============================================================================
