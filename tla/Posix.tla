------------------------------- MODULE Posix -------------------------------
(***************************************************************************)
(* A process and its files, as POSIX has them: what the system calls of    *)
(* the host do, and what those of the program on the target should do.     *)
(*                                                                         *)
(* A process is a record: fds maps open descriptors to a file and an       *)
(* offset, files holds contents, names maps paths (sequences of names from *)
(* the root) to files or Directory, and cwd is a path.  A call gives the   *)
(* process after it, its result (negative for an error) and what it left   *)
(* in the caller's buffer.                                                 *)
(***************************************************************************)
EXTENDS Integers, Sequences, SequencesExt, FiniteSets, FiniteSetsExt

Directory == -1

ENOENT == -2
EBADF  == -9
ENOMEM == -12
EEXIST == -17
EISDIR == -21
ERANGE == -34

LowestFrom(used, n) == Min(n .. n + Cardinality(used) \ used)
Lowest(used)        == LowestFrom(used, 0)

Done(p, ret)        == [p |-> p, ret |-> ret, buf |-> <<>>]
Filled(p, ret, buf) == [p |-> p, ret |-> ret, buf |-> buf]

With(f, x, v)  == [y \in {x} \cup DOMAIN f |-> IF y = x THEN v ELSE f[y]]
Without(f, x) == Restrict(f, DOMAIN f \ {x})

\* The number of characters of a path whose names have one character.
Length(path) == IF path = <<>> THEN 1 ELSE 2 * Len(path)

\* A path argument is absolute or starts from the working directory.
Resolve(p, path) == IF path.abs THEN path.parts ELSE p.cwd \o path.parts
IsDirectory(p, path) == path \in DOMAIN p.names /\ p.names[path] = Directory
Creatable(p, path) == path \notin DOMAIN p.names /\ path # <<>> /\ IsDirectory(p, Front(path))

\* bytes put at an offset of a file, which is filled with zeros up to there.
Patch(file, off, bytes) ==
  LET filled == file \o [i \in 1 .. off - Len(file) |-> 0]
  IN  SubSeq(filled, 1, off) \o bytes \o SubSeq(file, off + Len(bytes) + 1, Len(file))
From(file, off, len) == SubSeq(file, off + 1, Min({off + len, Len(file)}))

\* Calls on a descriptor.
OnDescriptor(p, c) ==
  IF c.fd \notin DOMAIN p.fds THEN Done(p, EBADF)
  ELSE
  LET fd   == c.fd
      file == p.files[p.fds[fd].file]
      pos  == p.fds[fd].pos
      PutAt(q, off) == [q EXCEPT !.files[p.fds[fd].file] = Patch(file, off, c.data)]
  IN  CASE c.n = "close"     -> Done([p EXCEPT !.fds = Without(@, fd)], 0)
        [] c.n = "read"      -> LET b == From(file, pos, c.len)
                                IN Filled([p EXCEPT !.fds[fd].pos = pos + Len(b)], Len(b), b)
        [] c.n = "pread"     -> LET b == From(file, c.off, c.len) IN Filled(p, Len(b), b)
        [] c.n = "write"     -> Done([PutAt(p, pos) EXCEPT !.fds[fd].pos = pos + Len(c.data)],
                                     Len(c.data))
        [] c.n = "pwrite"    -> Done(PutAt(p, c.off), Len(c.data))
        [] c.n = "lseek"     -> Done([p EXCEPT !.fds[fd].pos = c.off], c.off)
        [] c.n = "ftruncate" -> Done([p EXCEPT !.files[p.fds[fd].file] =
                                        SubSeq(Patch(@, c.len, <<>>), 1, c.len)], 0)
        [] c.n = "fstat"     -> Filled(p, 0, << Len(file) >>)
        [] c.n = "fcntl" /\ c.cmd = "F_DUPFD" ->
             LET new == LowestFrom(DOMAIN p.fds, c.arg)
             IN  Done([p EXCEPT !.fds = With(@, new, @[fd])], new)
        [] c.n = "fcntl" /\ c.cmd = "F_GETFD" -> Done(p, 0)

\* Calls on a path.
OnPath(p, c) ==
  LET path  == Resolve(p, c.path)
      there == path \in DOMAIN p.names
      file  == p.names[path]
  IN  CASE c.n = "openat" ->
             IF ~there /\ ~(c.create /\ Creatable(p, path)) THEN Done(p, ENOENT)
             ELSE IF there /\ file = Directory THEN Done(p, EISDIR)
             ELSE LET new == Cardinality(DOMAIN p.files)
                      f   == IF there THEN file ELSE new
                      fd  == Lowest(DOMAIN p.fds)
                  IN  Done([p EXCEPT !.fds = With(@, fd, [file |-> f, pos |-> 0]),
                                     !.names = With(@, path, f),
                                     !.files = IF there THEN @ ELSE With(@, f, <<>>)], fd)
        [] c.n \in {"fstatat", "lstat"} ->
             IF ~there THEN Done(p, ENOENT)
             ELSE Filled(p, 0, << IF file = Directory THEN 0 ELSE Len(p.files[file]) >>)
        [] c.n = "faccessat" -> Done(p, IF there THEN 0 ELSE ENOENT)
        [] c.n = "unlinkat"  -> IF ~there THEN Done(p, ENOENT)
                                ELSE IF file = Directory THEN Done(p, EISDIR)
                                ELSE Done([p EXCEPT !.names = Without(@, path)], 0)
        [] c.n = "mkdirat"   -> IF there THEN Done(p, EEXIST)
                                ELSE IF ~Creatable(p, path) THEN Done(p, ENOENT)
                                ELSE Done([p EXCEPT !.names = With(@, path, Directory)], 0)
        [] c.n = "chdir"     -> IF IsDirectory(p, path) THEN Done([p EXCEPT !.cwd = path], 0)
                                ELSE Done(p, ENOENT)

\* Calls on two paths; only files are linked and renamed here.
OnTwoPaths(p, c) ==
  LET old == Resolve(p, c.path)
      new == Resolve(p, c.new)
  IN  IF old \notin DOMAIN p.names \/ ~(new \in DOMAIN p.names \/ Creatable(p, new))
      THEN Done(p, ENOENT)
      ELSE IF IsDirectory(p, old) \/ IsDirectory(p, new) THEN Done(p, EISDIR)
      ELSE CASE c.n = "linkat" ->
                  IF new \in DOMAIN p.names THEN Done(p, EEXIST)
                  ELSE Done([p EXCEPT !.names = With(@, new, p.names[old])], 0)
             [] c.n = "renameat" ->
                  IF old = new THEN Done(p, 0)
                  ELSE Done([p EXCEPT !.names = With(Without(@, old), new, p.names[old])], 0)

getcwd(p, c) ==
  IF Length(p.cwd) + 1 > c.size THEN Done(p, ERANGE) ELSE Filled(p, Length(p.cwd) + 1, p.cwd)

Call(p, c) ==
  CASE c.n \in {"close", "read", "pread", "write", "pwrite", "lseek", "ftruncate",
                "fstat", "fcntl"}       -> OnDescriptor(p, c)
    [] c.n \in {"openat", "fstatat", "lstat", "faccessat", "unlinkat", "mkdirat",
                "chdir"}                -> OnPath(p, c)
    [] c.n \in {"linkat", "renameat"}   -> OnTwoPaths(p, c)
    [] c.n = "getcwd"                   -> getcwd(p, c)
============================================================================
