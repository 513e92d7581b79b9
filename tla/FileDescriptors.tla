-------------------------- MODULE FileDescriptors --------------------------
(* The POSIX model a program under analysis is linked with                  *)
(* (runtime/POSIX/fd.c, fd_init.c): a table of descriptors, each on a       *)
(* symbolic file of fixed size or on a file of the host, and the failures   *)
(* that --max-fail injects.  Every call of the library is one action.       *)
(*                                                                          *)
(* Open flags and permissions are sets of bits, as in the C code:           *)
(* O_RDONLY is the empty set.  The host (syscall) is nondeterministic.  The *)
(* symbolic numbers *read_fail, *write_fail ... are constant and compared   *)
(* with a growing call counter, so each of them fails at most one call, and *)
(* which one is open: a call may fail unless its kind has failed before.    *)
EXTENDS Integers, FiniteSets, FiniteSetsExt, Sequences

CONSTANTS MaxFds,         \* MAX_FDS
          Size,           \* file_length of klee_init_fds
          MaxFailures,    \* max_failures of klee_init_fds
          SaveAllWrites,  \* save_all_writes_flag of klee_init_fds
          FileModes,      \* the symbolic st_mode of "A" and stdin: type and permission bits
          Paths,          \* the arguments of the calls: paths,
          OpenFlags,      \*   sets of open flags,
          Perms,          \*   sets of permission bits,
          CallFds,        \*   descriptors, of the table or not,
          Buffers,        \*   sequences of bytes
          SeekOffsets,    \*   and distances to seek
          MaxCount,       \* bound: largest count of a read or write
          MaxCalls        \* bound: number of calls of one behaviour

ASSUME TableAssumption ==
  /\ MaxFds \in Nat /\ MaxFds >= 3
  /\ Size \in Nat \ {0}
  /\ MaxFailures \in Nat

ASSUME ArgumentAssumption ==
  /\ MaxCount \in Nat /\ MaxCalls \in Nat
  /\ SeekOffsets \subseteq Int
  /\ \A buf \in Buffers : Len(buf) \in 0 .. MaxCount

VARIABLES fds,           \* __exe_env.fds
          umask,         \* __exe_env.umask
          inode,         \* st_ino # 0, per symbolic file
          mode,          \* st_mode, per symbolic file: type and permission bits
          contents,      \* contents, per symbolic file
          maxFailures,   \* __exe_fs.max_failures
          failed,        \* the kinds of calls whose symbolic number was met
          osFds,         \* descriptors the host has handed out
          written,       \* the file a POSIX system would hold, per symbolic file
          last,          \* the last call and its outcome
          calls          \* number of calls so far

files == <<inode, mode, contents, written>>

vars == <<fds, umask, inode, mode, contents, maxFailures, failed, osFds, written, last, calls>>

Fd == 0 .. MaxFds - 1

SymFiles == {"A", "stdin"}

Host == "host"

Bits == {"r", "w"}

O_RDONLY == {}

O_ACCMODE == {"O_WRONLY", "O_RDWR"}

Has(flags, bits) == flags \cap bits # {}

ClosedEntry == [open |-> FALSE, fd |-> 0, off |-> 0, dfile |-> Host, cloexec |-> FALSE,
           access |-> {}]

\* The outcome of a call: what it returned, and the descriptor given to the host.
Done(op, arg, result, host) ==
  /\ calls < MaxCalls
  /\ calls' = calls + 1
  /\ last' = [op |-> op, arg |-> arg, result |-> result, host |-> host]

Error(e) == <<"error", e>>

Ok(v) == <<"ok", v>>

NoHost == -1

\* A call on the host either fails with its errno or succeeds.
HostResults == {Error("host"), Ok(0)}

evenUnlinked(path) == path \in SymFiles \ {"stdin"}

__get_sym_file(path) == path \in SymFiles \ {"stdin"} /\ inode[path]

__get_file(fd) == fd \in Fd /\ fds[fd].open

symbolic(fd) == fds[fd].dfile # Host

FreeFds == {fd \in Fd : ~fds[fd].open}

\* A call of this kind may be the one its symbolic number names.
mayFail(op) == maxFailures > 0 /\ op \notin failed

injectUncounted(op) == maxFailures' = maxFailures /\ failed' = failed \cup {op}

inject(op) == maxFailures' = maxFailures - 1 /\ failed' = failed \cup {op}

noInjection == UNCHANGED <<maxFailures, failed>>

---------------------------------------------------------------------------
\* open and openat

has_permission(flags, m) ==
  /\ ~((Has(flags, O_RDONLY) \/ Has(flags, {"O_RDWR"})) /\ "r" \in m)
  /\ ~(Has(flags, {"O_WRONLY", "O_RDWR"}) /\ "w" \notin m)

\* The errno an open of a symbolic file fails with, if any.
openErrors(flags, m) ==
  CASE Has(flags, {"O_CREAT"}) /\ Has(flags, {"O_EXCL"}) -> {"EEXIST"}
    [] Has(flags, {"O_TRUNC"}) /\ Has(flags, O_RDONLY) -> {"EACCES"}
    [] Has(flags, {"O_EXCL"}) /\ ~Has(flags, {"O_CREAT"}) -> {"EACCES"}
    [] ~has_permission(flags, m) -> {"EACCES"}
    [] OTHER -> {}

accessOf(flags) ==
  CASE flags \cap O_ACCMODE = O_RDONLY -> {"r"}
    [] flags \cap O_ACCMODE = {"O_WRONLY"} -> {"w"}
    [] OTHER -> {"r", "w"}

\* The mode bits an open leaves on a symbolic file: the type and mode & ~umask.
reopenedMode(path, perm) == [mode[path] EXCEPT !.perm = perm \ umask]

__fd_open(path, flags, perm) ==
  LET arg == [path |-> path, flags |-> flags, perm |-> IF path \in SymFiles THEN mode[path].perm ELSE {}]
      fd == Min(FreeFds)
      entry == [ClosedEntry EXCEPT !.open = TRUE, !.access = accessOf(flags)]
  IN \/ /\ FreeFds = {}
        /\ Done("open", arg, Error("EMFILE"), NoHost)
        /\ UNCHANGED <<fds, mode, osFds>>
     \/ /\ FreeFds # {} /\ __get_sym_file(path)
        /\ \E e \in openErrors(flags, mode[path].perm) :
              Done("open", arg, Error(e), NoHost)
        /\ fds' = [fds EXCEPT ![fd] = [ClosedEntry EXCEPT !.dfile = path]]
        /\ UNCHANGED <<mode, osFds>>
     \/ /\ FreeFds # {} /\ __get_sym_file(path)
        /\ openErrors(flags, mode[path].perm) = {}
        /\ Done("open", arg, Ok(fd), NoHost)
        /\ mode' = [mode EXCEPT ![path] = reopenedMode(path, perm)]
        /\ fds' = [fds EXCEPT ![fd] = [entry EXCEPT !.dfile = path]]
        /\ UNCHANGED osFds
     \/ /\ FreeFds # {} /\ ~__get_sym_file(path)
        /\ Done("open", arg, Error("host"), NoHost)
        /\ fds' = [fds EXCEPT ![fd] = ClosedEntry]
        /\ UNCHANGED <<mode, osFds>>
     \/ /\ FreeFds # {} /\ ~__get_sym_file(path)
        /\ Done("open", arg, Ok(fd), NoHost)
        /\ osFds' = osFds \cup {Max(osFds) + 1}
        /\ fds' = [fds EXCEPT ![fd] = [entry EXCEPT !.fd = Max(osFds) + 1]]
        /\ UNCHANGED mode

open(path, flags, perm) ==
  /\ __fd_open(path, flags, perm)
  /\ noInjection
  /\ UNCHANGED <<umask, inode, contents, written>>

\* What the *at calls do with a directory descriptor before they look at the path.
atErrors(base) ==
  CASE ~__get_file(base) -> {"EBADF"}
    [] symbolic(base) -> {"ENOENT"}
    [] OTHER -> {}

__fd_openat(base, path, flags, perm) ==
  /\ \/ /\ \E e \in atErrors(base) : Done("openat", base, Error(e), NoHost)
        /\ UNCHANGED <<fds, mode, osFds>>
     \/ /\ atErrors(base) = {}
        /\ __fd_open(path, flags, perm)
  /\ noInjection
  /\ UNCHANGED <<umask, inode, contents, written>>

setUmask(m) ==
  /\ umask' = m
  /\ Done("umask", m, Ok(umask), NoHost)
  /\ noInjection
  /\ UNCHANGED <<fds, files, osFds>>

---------------------------------------------------------------------------
\* Calls on descriptors.

\* A descriptor that is not open is refused before anything else happens.
badFd(op, fd) ==
  /\ ~__get_file(fd)
  /\ Done(op, fd, Error("EBADF"), NoHost)
  /\ noInjection
  /\ UNCHANGED <<fds, umask, files, osFds>>

\* The call the symbolic number names fails and does nothing else.
injected(op, fd, e) ==
  /\ mayFail(op)
  /\ Done(op, fd, Error(e), NoHost)
  /\ inject(op)
  /\ UNCHANGED <<fds, umask, files, osFds>>

\* The host's descriptor stays open: the call that would close it is compiled out.
close(fd) ==
  \/ badFd("close", fd)
  \/ __get_file(fd) /\ injected("close", fd, "EIO")
  \/ /\ __get_file(fd)
     /\ fds' = [fds EXCEPT ![fd] = ClosedEntry]
     /\ Done("close", fd, Ok(0), NoHost)
     /\ noInjection
     /\ UNCHANGED <<umask, files, osFds>>

\* The number of bytes a read of a symbolic file returns.
readCount(off, count) ==
  IF Size < off THEN 0 ELSE IF off + count > Size THEN Size - off ELSE count

read(fd, count) ==
  \/ /\ count = 0
     /\ Done("read", fd, Ok(0), NoHost)
     /\ noInjection
     /\ UNCHANGED <<fds, umask, files, osFds>>
  \/ count > 0 /\ badFd("read", fd)
  \/ count > 0 /\ __get_file(fd) /\ injected("read", fd, "EIO")
  \/ /\ count > 0 /\ __get_file(fd) /\ symbolic(fd)
     /\ LET f == fds[fd]
            n == readCount(f.off, count)
        IN /\ fds' = [fds EXCEPT ![fd].off = @ + n]
           /\ Done("readFile", [dfile |-> f.dfile, off |-> f.off],
                   Ok([i \in 1 .. n |-> contents[f.dfile][f.off + i]]), NoHost)
     /\ noInjection
     /\ UNCHANGED <<umask, files, osFds>>
  \/ /\ count > 0 /\ __get_file(fd) /\ ~symbolic(fd)
     /\ \E n \in 0 .. count :
           /\ fds' = [fds EXCEPT ![fd].off = IF fds[fd].fd = 0 THEN @ ELSE @ + n]
           /\ Done("readHost", fd, Ok(n), fds[fd].fd)
     /\ noInjection
     /\ UNCHANGED <<umask, files, osFds>>

\* The number of bytes a write changes.
writeCountShort(off, count) ==
  IF off + count < Size THEN count ELSE IF off < Size THEN Size - off - 1 ELSE 0

writeCount(off, count) ==
  IF off + count <= Size THEN count ELSE IF off < Size THEN Size - off ELSE 0

\* The offset after a write of a symbolic file.
offsetByStored(off, count) == off + writeCount(off, count)

offsetAfterWrite(off, count) == off + count

writeFile(fd, buf) ==
  LET f == fds[fd]
      count == Len(buf)
      n == writeCount(f.off, count)
      \* f's bytes with those of buf from the offset on
      Over(c, m) == [i \in DOMAIN c |->
                       IF i \in f.off + 1 .. f.off + m THEN buf[i - f.off] ELSE c[i]]
  IN IF SaveAllWrites /\ f.off + count > Size
     THEN /\ Done("write", fd, Error("assert"), NoHost)
          /\ UNCHANGED <<fds, contents, written>>
     ELSE /\ contents' = [contents EXCEPT ![f.dfile] = Over(@, n)]
          /\ written' = [written EXCEPT ![f.dfile] = Over(@, count)]
          /\ fds' = [fds EXCEPT ![fd].off = offsetAfterWrite(@, count)]
          /\ Done("write", fd, Ok(count), NoHost)

write(fd, buf) ==
  \/ badFd("write", fd)
  \/ __get_file(fd) /\ injected("write", fd, "EIO")
  \/ /\ __get_file(fd) /\ symbolic(fd)
     /\ writeFile(fd, buf)
     /\ noInjection
     /\ UNCHANGED <<umask, inode, mode, osFds>>
  \/ /\ __get_file(fd) /\ ~symbolic(fd)
     /\ \E n \in 0 .. Len(buf) :
           /\ fds' = [fds EXCEPT ![fd].off = IF fds[fd].fd \in {1, 2} THEN @ ELSE @ + n]
           /\ Done("writeHost", fd, Ok(n), fds[fd].fd)
     /\ noInjection
     /\ UNCHANGED <<umask, files, osFds>>

\* The new offset of a seek in a symbolic file.
seekTo(f, offset, whence) ==
  CASE whence = "SEEK_SET" -> offset
    [] whence = "SEEK_CUR" -> f.off + offset
    [] whence = "SEEK_END" -> Size + offset

seekValid(f, offset, whence) == seekTo(f, offset, whence) >= 0

__fd_lseek(fd, offset, whence) ==
  \/ badFd("lseek", fd)
  \/ /\ __get_file(fd) /\ symbolic(fd)
     /\ IF seekValid(fds[fd], offset, whence)
        THEN /\ fds' = [fds EXCEPT ![fd].off = seekTo(fds[fd], offset, whence)]
             /\ Done("lseek", fd, Ok(fds'[fd].off), NoHost)
        ELSE /\ Done("lseek", fd, Error("EINVAL"), NoHost)
             /\ UNCHANGED fds
     /\ noInjection
     /\ UNCHANGED <<umask, files, osFds>>
  \/ /\ __get_file(fd) /\ ~symbolic(fd)
     /\ \/ /\ Done("lseek", fd, Error("host"), fds[fd].fd)
           /\ UNCHANGED fds
        \/ /\ offset >= 0
           /\ fds' = [fds EXCEPT ![fd].off = IF whence = "SEEK_CUR" THEN @ + offset ELSE offset]
           /\ Done("lseek", fd, Ok(fds'[fd].off), fds[fd].fd)
     /\ noInjection
     /\ UNCHANGED <<umask, files, osFds>>

\* The entry dup2 copies is read after newfd was closed; the result of that close
\* is dropped, so an injected failure of it only uses the failure up.
copied(oldfd, newfd, entry) == [entry EXCEPT !.cloexec = FALSE]

dup2(oldfd, newfd) ==
  \/ /\ ~__get_file(oldfd) \/ newfd \notin Fd
     /\ Done("dup2", <<oldfd, newfd>>, Error("EBADF"), NoHost)
     /\ noInjection
     /\ UNCHANGED <<fds, umask, files, osFds>>
  \/ /\ __get_file(oldfd) /\ newfd \in Fd
     /\ \/ /\ fds[newfd].open /\ mayFail("close")
           /\ inject("close")
           /\ fds' = [fds EXCEPT ![newfd] = copied(oldfd, newfd, fds[oldfd])]
        \/ /\ noInjection
           /\ LET closed == [fds EXCEPT ![newfd] = IF @.open THEN ClosedEntry ELSE @]
              IN fds' = [closed EXCEPT ![newfd] = copied(oldfd, newfd, closed[oldfd])]
     /\ Done("dup2", <<oldfd, newfd>>, Ok(newfd), NoHost)
     /\ UNCHANGED <<umask, files, osFds>>

dup(oldfd) ==
  \/ badFd("dup", oldfd)
  \/ /\ __get_file(oldfd) /\ FreeFds = {}
     /\ Done("dup", oldfd, Error("EMFILE"), NoHost)
     /\ noInjection
     /\ UNCHANGED <<fds, umask, files, osFds>>
  \/ /\ __get_file(oldfd) /\ FreeFds # {}
     /\ dup2(oldfd, Min(FreeFds))

---------------------------------------------------------------------------
\* Calls that only answer: the result for a symbolic file, per call.

fstatResult(fd) == Ok(0)

fsyncResult(fd) == Ok(0)

fchdirResult(fd) == Error("ENOENT")

fchownResult(fd) == Error("EPERM")

fstatfsResult(fd) == Error("EBADF")

getdentsResult(fd) == Error("EINVAL")

ioctlResult(fd, request) ==
  CASE request \in {"TCGETS", "TCSETS", "TCSETSF", "TIOCGWINSZ"} ->
         IF mode[fds[fd].dfile].type = "chr" THEN Ok(0) ELSE Error("ENOTTY")
    [] request = "TCSETSW" -> IF fd = 0 THEN Ok(0) ELSE Error("ENOTTY")
    [] request = "TIOCSWINSZ" ->
         IF mode[fds[fd].dfile].type = "chr" THEN Error("EINVAL") ELSE Error("ENOTTY")
    [] request = "FIONREAD" ->
         IF mode[fds[fd].dfile].type = "chr"
         THEN Ok(IF fds[fd].off < Size THEN Size - fds[fd].off ELSE 0)
         ELSE Error("ENOTTY")
    [] OTHER -> Error("EINVAL")

fdAnswers(fd) ==
  {<<"fstat", fstatResult(fd)>>, <<"fsync", fsyncResult(fd)>>, <<"fchdir", fchdirResult(fd)>>,
   <<"fchown", fchownResult(fd)>>, <<"fstatfs", fstatfsResult(fd)>>,
   <<"getdents", getdentsResult(fd)>>}
  \cup {<<"ioctl", ioctlResult(fd, r)>> : r \in {"TCGETS", "TCSETSW", "TIOCSWINSZ", "FIONREAD"}}

FdOps == {"fstat", "fsync", "fchdir", "fchown", "fstatfs", "getdents", "ioctl"}

\* The descriptor each of these calls gives to the host: the host's own, but for
\* fchown, which passes on the program's number.
hostFd(op, fd) == IF op = "fchown" THEN fd ELSE fds[fd].fd

fdCall(fd) ==
  \/ badFd("fdCall", fd)
  \/ /\ __get_file(fd)
     /\ IF symbolic(fd)
        THEN \E a \in fdAnswers(fd) : Done(a[1], fd, a[2], NoHost)
        ELSE \E op \in FdOps, r \in HostResults : Done(op, fd, r, hostFd(op, fd))
     /\ noInjection
     /\ UNCHANGED <<fds, umask, files, osFds>>

__fd_ftruncate(fd) ==
  \/ badFd("ftruncate", fd)
  \/ __get_file(fd) /\ injected("ftruncate", fd, "EIO")
  \/ /\ __get_file(fd)
     /\ IF symbolic(fd) THEN Done("ftruncate", fd, Error("EIO"), NoHost)
        ELSE \E r \in HostResults : Done("ftruncate", fd, r, fds[fd].fd)
     /\ noInjection
     /\ UNCHANGED <<fds, umask, files, osFds>>

fcntl(fd, cmd, arg) ==
  \/ badFd("fcntl", fd)
  \/ /\ __get_file(fd) /\ symbolic(fd)
     /\ fds' = IF cmd = "F_SETFD" THEN [fds EXCEPT ![fd].cloexec = arg] ELSE fds
     /\ Done("fcntl", fd,
             CASE cmd = "F_GETFD" -> Ok(fds[fd].cloexec)
               [] cmd \in {"F_SETFD", "F_GETFL"} -> Ok(0)
               [] OTHER -> Error("EINVAL"), NoHost)
     /\ noInjection
     /\ UNCHANGED <<umask, files, osFds>>
  \/ /\ __get_file(fd) /\ ~symbolic(fd)
     /\ \E r \in HostResults : Done("fcntl", fd, r, fds[fd].fd)
     /\ noInjection
     /\ UNCHANGED <<fds, umask, files, osFds>>

---------------------------------------------------------------------------
\* Calls on paths: the result for a symbolic file, per call.

accessResult(path) == Ok(0)

utimesResult(path) == Ok(0)

statResult(path) == Ok(0)

lstatResult(path) == Ok(0)

chdirResult(path) == Error("ENOENT")

__df_chown(path) == Error("EPERM")

lchownResult(path) == __df_chown(path)

statfsResult(path) == Error("ENOENT")

readlinkResult(path) == IF mode[path].type = "lnk" THEN Ok(5) ELSE Error("EINVAL")

pathAnswers(path) ==
  {<<"access", accessResult(path)>>, <<"utimes", utimesResult(path)>>,
   <<"stat", statResult(path)>>, <<"lstat", lstatResult(path)>>,
   <<"chdir", chdirResult(path)>>, <<"chown", __df_chown(path)>>,
   <<"lchown", lchownResult(path)>>, <<"statfs", statfsResult(path)>>,
   <<"readlink", readlinkResult(path)>>}

pathCall(path) ==
  /\ IF __get_sym_file(path)
     THEN \E a \in pathAnswers(path) : Done(a[1], path, a[2], NoHost)
     ELSE \E r \in HostResults : Done("pathCall", path, r, NoHost)
  /\ noInjection
  /\ UNCHANGED <<fds, umask, files, osFds>>

\* fstatat and futimesat
atCall(base, path) ==
  \/ /\ \E e \in atErrors(base) : Done("at", base, Error(e), NoHost)
     /\ noInjection
     /\ UNCHANGED <<fds, umask, files, osFds>>
  \/ /\ atErrors(base) = {}
     /\ IF __get_sym_file(path) THEN Done("at", path, statResult(path), NoHost)
        ELSE \E r \in HostResults : Done("at", path, r, fds[base].fd)
     /\ noInjection
     /\ UNCHANGED <<fds, umask, files, osFds>>

\* chmod_fail and fchmod_fail are never allocated: with failures to inject,
\* reading them is an access of a null pointer, which ends the path.
nullFailure == maxFailures > 0

__df_chmod(path, perm) == mode' = [mode EXCEPT ![path].perm = perm]

chmodAny(op, path, arg, perm) ==
  \/ /\ nullFailure
     /\ Done(op, arg, Error("null"), NoHost)
     /\ UNCHANGED mode
  \/ /\ ~nullFailure /\ path # Host
     /\ \/ __df_chmod(path, perm) /\ Done(op, arg, Ok(0), NoHost)
        \/ Done(op, arg, Error("EPERM"), NoHost) /\ UNCHANGED mode
  \/ /\ ~nullFailure /\ path = Host
     /\ \E r \in HostResults : Done(op, arg, r, NoHost)
     /\ UNCHANGED mode

chmod(path, perm) ==
  /\ chmodAny("chmod", IF __get_sym_file(path) THEN path ELSE Host, path, perm)
  /\ noInjection
  /\ UNCHANGED <<fds, umask, inode, contents, written, osFds>>

fchmod(fd, perm) ==
  \/ badFd("fchmod", fd)
  \/ /\ __get_file(fd)
     /\ chmodAny("fchmod", fds[fd].dfile, fd, perm)
     /\ noInjection
     /\ UNCHANGED <<fds, umask, inode, contents, written, osFds>>

rmdirOk(path) == mode[path].type = "dir"

unlinkOk(path) == mode[path].type = "reg"

unlinkError(path) == IF mode[path].type = "dir" THEN "EISDIR" ELSE "EPERM"

remove(op, path, ok, err) ==
  /\ inode' = IF __get_sym_file(path) /\ ok THEN [inode EXCEPT ![path] = FALSE] ELSE inode
  /\ Done(op, path, IF ~__get_sym_file(path) THEN Error("EPERM")
                    ELSE IF ok THEN Ok(0) ELSE Error(err), NoHost)
  /\ noInjection
  /\ UNCHANGED <<fds, umask, mode, contents, written, osFds>>

rmdir(path) == remove("rmdir", path, path \in SymFiles /\ rmdirOk(path), "ENOTDIR")

unlink(path) ==
  remove("unlink", path, path \in SymFiles /\ unlinkOk(path),
         IF path \in SymFiles THEN unlinkError(path) ELSE "EPERM")

unlinkat(base, path) == unlink(path)

getcwd ==
  \/ injected("getcwd", 0, "ERANGE")
  \/ /\ \E r \in HostResults : Done("getcwd", 0, r, NoHost)
     /\ noInjection
     /\ UNCHANGED <<fds, umask, files, osFds>>

\* "/" and everything else
chroot(root) ==
  /\ Done("chroot", root, IF root THEN Ok(0) ELSE Error("ENOENT"), NoHost)
  /\ noInjection
  /\ UNCHANGED <<fds, umask, files, osFds>>

ready(asked, osReady) ==
  {fd \in asked : symbolic(fd)}
    \cup {fd \in Fd : __get_file(fd) /\ ~symbolic(fd) /\ fds[fd].fd \in osReady}

select(asked) ==
  LET toHost == {fds[fd].fd : fd \in {g \in asked : ~symbolic(g)}}
      sym == {fd \in asked : symbolic(fd)}
  IN /\ IF \E fd \in asked : ~__get_file(fd)
        THEN Done("select", asked, Error("EBADF"), NoHost)
        ELSE \/ /\ toHost # {}
                /\ Done("select", asked, IF sym = {} THEN Error("host")
                                         ELSE Ok([set |-> sym, count |-> Cardinality(sym)]),
                        NoHost)
             \/ \E osReady \in SUBSET toHost :
                  Done("select", asked,
                       Ok([set |-> IF toHost = {} THEN sym ELSE ready(asked, osReady),
                           count |-> Cardinality(sym) + Cardinality(osReady)]), NoHost)
     /\ noInjection
     /\ UNCHANGED <<fds, umask, files, osFds>>

---------------------------------------------------------------------------
\* __exe_env as it is initialised statically, and klee_init_fds.
initialFds ==
  [fd \in Fd |-> IF fd > 2 THEN ClosedEntry
                 ELSE [ClosedEntry EXCEPT !.open = TRUE, !.fd = fd,
                                     !.dfile = IF fd = 0 THEN "stdin" ELSE Host,
                                     !.access = IF fd = 0 THEN {"r"} ELSE {"w"}]]

\* __create_new_dfile: the stat values are symbolic but for st_ino # 0.
newModes == FileModes

FdInit ==
  /\ fds = initialFds
  /\ umask = {}
  /\ inode = [f \in SymFiles |-> TRUE]
  /\ mode \in newModes
  /\ contents = [f \in SymFiles |-> [i \in 1 .. Size |-> "initial"]]
  /\ written = [f \in SymFiles |-> [i \in 1 .. Size + MaxCalls * MaxCount |-> "initial"]]
  /\ maxFailures = MaxFailures
  /\ failed = {}
  /\ osFds = {0, 1, 2}
  /\ last = [op |-> "main", arg |-> 0, result |-> Ok(0), host |-> NoHost]
  /\ calls = 0

---------------------------------------------------------------------------
OpenNext ==
  \E path \in Paths, flags \in OpenFlags, perm \in Perms :
     \/ open(path, flags, perm)
     \/ \E base \in CallFds : __fd_openat(base, path, flags, perm)

DataNext ==
  \E fd \in CallFds :
     \/ close(fd)
     \/ \E count \in 0 .. MaxCount : read(fd, count)
     \/ \E buf \in Buffers : write(fd, buf)
     \/ \E offset \in SeekOffsets, whence \in {"SEEK_SET", "SEEK_CUR", "SEEK_END"} :
           __fd_lseek(fd, offset, whence)
     \/ dup(fd)
     \/ \E newfd \in CallFds : dup2(fd, newfd)

OtherNext ==
  \/ \E m \in Perms : setUmask(m)
  \/ \E path \in Paths :
       \/ pathCall(path)
       \/ \E perm \in Perms : chmod(path, perm)
       \/ rmdir(path) \/ unlink(path)
       \/ \E base \in CallFds : atCall(base, path) \/ unlinkat(base, path)
  \/ \E fd \in CallFds :
       \/ fdCall(fd)
       \/ __fd_ftruncate(fd)
       \/ \E cmd \in {"F_GETFD", "F_SETFD", "F_GETFL", "F_SETFL"}, arg \in BOOLEAN :
             fcntl(fd, cmd, arg)
       \/ \E perm \in Perms : fchmod(fd, perm)
  \/ getcwd
  \/ \E root \in BOOLEAN : chroot(root)
  \/ \E asked \in SUBSET CallFds : select(asked)

\* The program under analysis makes any call.
FdNext == OpenNext \/ DataNext \/ OtherNext

FdSpec == FdInit /\ [][FdNext]_vars

---------------------------------------------------------------------------
\* read copies the bytes that a program running on a real file would find: whatever the
\* order of writes, seeks and dups through any descriptor of the file, what is read at an
\* offset below the initial size is what was last written there, and the assertion
\* f->off >= 0 of read holds.
ReadsBack ==
  /\ \A fd \in Fd : __get_file(fd) /\ symbolic(fd) => fds[fd].off >= 0
  /\ last.op = "readFile" =>
       \A i \in DOMAIN last.result[2] :
          last.result[2][i] = written[last.arg.dfile][last.arg.off + i]

\* "The file offset is always incremented correctly": a write that reports n bytes
\* moves its descriptor by n, and no other one, even when it drops bytes.
OffsetAdvances ==
  [][(last'.op = "write" /\ last'.result[1] = "ok") =>
       \A fd \in Fd : fds'[fd].off - fds[fd].off = IF fd = last'.arg THEN last'.result[2] ELSE 0]_vars

\* max_failures bounds the failures of one path: what was injected and what is left
\* always add up to the number klee_init_fds was given, dup2's dropped close included.
FailuresBounded == Cardinality(failed) + maxFailures = MaxFailures

\* A symbolic file that was unlinked is gone: it stays unlinked, and a descriptor comes
\* to refer to it only by dup or dup2 of one that already does.
UnlinkedNotReopened ==
  [][\A f \in SymFiles : ~inode[f] =>
       /\ ~inode'[f]
       /\ \A fd \in Fd : (fds'[fd].open /\ fds'[fd].dfile = f) =>
            \/ __get_file(fd) /\ fds[fd].dfile = f
            \/ last'.op = "dup2" /\ fds[last'.arg[1]].dfile = f]_vars

=============================================================================
