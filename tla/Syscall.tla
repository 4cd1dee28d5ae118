------------------------------ MODULE Syscall ------------------------------
(***************************************************************************)
(* The system call proxy (syscall.cc): each call of the program on the     *)
(* target becomes a call of the host process, whose descriptors and names  *)
(* are not those the program uses.  The proxy is a record of the host      *)
(* process, the descriptor table, the chroot path or NoChroot, the         *)
(* program's arguments and the exit code.                                  *)
(***************************************************************************)
EXTENDS Posix, CommandLine

NoChroot == << "none" >>
\* A word of magicmem; 8 of them are 64 bytes.
WordBytes == 8

\* fds_t.  The descriptors of the target are indices from 0.
lookup(fds, fd) == IF fd >= Len(fds) THEN -1 ELSE fds[fd + 1]
alloc(fds, fd) ==
  LET free == {i \in 1 .. Len(fds) : fds[i] = -1}
  IN  IF free = {} THEN Append(fds, fd) ELSE [fds EXCEPT ![Min(free)] = fd]
Index(fds, fd) == Min({i \in 0 .. Len(fds) - 1 : fds[i + 1] = fd})
deallocNot(fds, fd) == fds
dealloc(fds, fd) == [fds EXCEPT ![fd + 1] = -1]

\* The constructor duplicates stdin once and stdout twice; own is the host
\* process before it.
dup(p, fd) == [p EXCEPT !.fds = With(@, Lowest(DOMAIN @), @[fd])]
syscall_t(own, chroot, args) ==
  LET h == dup(dup(dup(own, 0), 1), 1)
      new == DOMAIN h.fds \ DOMAIN own.fds
  IN  [host |-> h, fds |-> SetToSortSeq(new, LAMBDA a, b : a < b),
       chroot |-> chroot, args |-> args, exitcode |-> 0]

do_chroot(s, path) ==
  IF s.chroot # NoChroot /\ path.abs THEN [path EXCEPT !.parts = s.chroot \o @] ELSE path
undo_chroot(s, path) ==
  IF s.chroot = NoChroot THEN path
  ELSE IF IsPrefix(s.chroot, path) THEN SubSeq(path, Len(s.chroot) + 1, Len(path))
  ELSE <<>>

Reply(s, r) == [s |-> [s EXCEPT !.host = r.p], ret |-> r.ret, buf |-> r.buf]

\* sys_read, sys_pread, sys_write, sys_pwrite, sys_lseek, sys_fcntl,
\* sys_ftruncate: whatever the host returns is the answer, for fcntl with
\* F_DUPFD a descriptor of the host that the table does not get.
OnDescriptorCall(s, c) == Reply(s, Call(s.host, [c EXCEPT !.fd = lookup(s.fds, @)]))

\* A failed fstat leaves an error, but the error is never -1 here, so the
\* buffer is written, with whatever was on the stack.
Junk == << "junk" >>
OrJunk(a) == IF a.ret < 0 THEN [a EXCEPT !.buf = Junk] ELSE a
sys_fstat(s, c) == OrJunk(OnDescriptorCall(s, c))

sys_close(s, c) ==
  LET a == OnDescriptorCall(s, c)
  IN  IF a.ret < 0 THEN a ELSE [a EXCEPT !.s.fds = dealloc(@, c.fd)]

sys_openat(s, c) ==
  LET a == Reply(s, Call(s.host, [c EXCEPT !.path = do_chroot(s, @)]))
  IN  IF a.ret < 0 THEN a
      ELSE LET table == alloc(s.fds, a.ret)
           IN [a EXCEPT !.s.fds = table, !.ret = Index(table, a.ret)]

\* sys_faccessat, sys_unlinkat, sys_mkdirat, all relative to AT_FDCWD
OnPathCall(s, c) == Reply(s, Call(s.host, [c EXCEPT !.path = do_chroot(s, @)]))
\* sys_lstat, sys_fstatat
StatPath(s, c) == OrJunk(OnPathCall(s, c))
\* sys_renameat, sys_linkat
OnTwoPathsOldOnly(s, c) == Reply(s, Call(s.host, [c EXCEPT !.path = do_chroot(s, @)]))
OnTwoPathsCall(s, c) ==
  Reply(s, Call(s.host, [c EXCEPT !.path = do_chroot(s, @), !.new = do_chroot(s, @)]))

sys_getcwd(s, c) ==
  LET r   == Call(s.host, c)
      tmp == undo_chroot(s, r.buf)
  IN  IF r.ret < 0 THEN Reply(s, r)
      ELSE IF c.size <= Length(tmp) THEN Reply(s, Done(s.host, ENOMEM))
      ELSE Reply(s, Filled(s.host, Length(tmp) + 1, tmp))

\* chdir takes its path as it is.
sys_chdir(s, c) == Reply(s, Call(s.host, c))

\* argc, argv, NULL and an empty envp, then the strings and their ends.
MainvarsBytes(args) ==
  (Len(args) + 3) * WordBytes + FoldLeft(LAMBDA n, t : n + strlen(t) + 1, 0, args)
sys_getmainvars(s, c) ==
  IF MainvarsBytes(s.args) > c.size
  THEN Reply(s, Done(s.host, ENOMEM))
  ELSE Reply(s, Filled(s.host, 0, s.args))

sys_exit(s, c) == Reply([s EXCEPT !.exitcode = 2 * c.code + 1], Done(s.host, 0))

\* The call that dispatch finds in the table.
dispatch(s, c) ==
  CASE c.n \in {"read", "pread", "write", "pwrite", "lseek", "fcntl", "ftruncate"}
                                                -> OnDescriptorCall(s, c)
    [] c.n = "close"                            -> sys_close(s, c)
    [] c.n = "fstat"                            -> sys_fstat(s, c)
    [] c.n = "openat"                           -> sys_openat(s, c)
    [] c.n \in {"faccessat", "unlinkat", "mkdirat"} -> OnPathCall(s, c)
    [] c.n \in {"fstatat", "lstat"}             -> StatPath(s, c)
    [] c.n \in {"linkat", "renameat"}           -> OnTwoPathsCall(s, c)
    [] c.n = "getcwd"                           -> sys_getcwd(s, c)
    [] c.n = "chdir"                            -> sys_chdir(s, c)
    [] c.n = "getmainvars"                      -> sys_getmainvars(s, c)
    [] c.n = "exit"                             -> sys_exit(s, c)
============================================================================
