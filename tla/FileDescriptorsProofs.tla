----------------------- MODULE FileDescriptorsProofs -----------------------
(***************************************************************************)
(* The calls of runtime/POSIX/fd.c on symbolic files do what they promise, *)
(* for a table and files of any size, any number of failures to inject and *)
(* programs that make any number of calls with any arguments.              *)
(***************************************************************************)
EXTENDS FileDescriptors, FiniteSetTheorems, TLAPS

Entry == [open : BOOLEAN, fd : Nat, off : Nat, dfile : SymFiles \cup {Host},
          cloexec : BOOLEAN, access : SUBSET Bits]

Tracked == Size + MaxCalls * MaxCount

FdTypeOK ==
  /\ fds \in [Fd -> Entry]
  /\ inode \in [SymFiles -> BOOLEAN]
  /\ \E k \in Nat : osFds = 0 .. k
  /\ DOMAIN contents = SymFiles /\ DOMAIN written = SymFiles
  /\ \A f \in SymFiles : DOMAIN contents[f] = 1 .. Size /\ DOMAIN written[f] = 1 .. Tracked

\* A symbolic file holds what was written to it, as far as it reaches.
Stored == \A f \in SymFiles : \A i \in 1 .. Size : contents[f][i] = written[f][i]

\* The count of failures, with what it needs to be one.
Failures == maxFailures \in Nat /\ IsFiniteSet(failed) /\ FailuresBounded

FdInv == FdTypeOK /\ Stored /\ Failures /\ ReadsBack

\* What OffsetAdvances says of one step.
Advances ==
  (last'.op = "write" /\ last'.result[1] = "ok") =>
     \A fd \in Fd : fds'[fd].off - fds[fd].off = IF fd = last'.arg THEN last'.result[2] ELSE 0

\* What UnlinkedNotReopened says of one step.
StaysGone ==
  \A f \in SymFiles : ~inode[f] =>
    /\ ~inode'[f]
    /\ \A fd \in Fd : (fds'[fd].open /\ fds'[fd].dfile = f) =>
         \/ __get_file(fd) /\ fds[fd].dfile = f
         \/ last'.op = "dup2" /\ fds[last'.arg[1]].dfile = f

Keeps == FdInv' /\ Advances /\ StaysGone

---------------------------------------------------------------------------
\* The record of a call.
LEMMA DoneFacts ==
  ASSUME NEW op, NEW arg, NEW result, NEW host, Done(op, arg, result, host)
  PROVE  last'.op = op /\ last'.arg = arg /\ last'.result = result
BY DEF Done

\* An injected failure is taken from those that are left.
LEMMA InjectionCounts ==
  ASSUME Failures, NEW op, mayFail(op), inject(op)
  PROVE  Failures'
<1>1. Cardinality(failed \cup {op}) = Cardinality(failed) + 1 /\ IsFiniteSet(failed \cup {op})
  BY FS_AddElement DEF Failures, mayFail
<1>2. Cardinality(failed) \in Nat
  BY FS_CardinalityType DEF Failures
<1>3. maxFailures \in Nat /\ maxFailures > 0 /\ Cardinality(failed) + maxFailures = MaxFailures
  BY DEF Failures, FailuresBounded, mayFail
<1>4. failed' = failed \cup {op} /\ maxFailures' = maxFailures - 1
  BY DEF inject
<1>5. Cardinality(failed') = Cardinality(failed) + 1
  BY <1>1, <1>4
<1>6. maxFailures' \in Nat /\ Cardinality(failed') + maxFailures' = MaxFailures
  BY <1>2, <1>3, <1>4, <1>5
<1>7. QED BY <1>1, <1>4, <1>6 DEF Failures, FailuresBounded

\* Without one, nothing is.
LEMMA NoInjection ==
  ASSUME Failures, noInjection
  PROVE  Failures'
BY DEF Failures, FailuresBounded, noInjection

\* A call that moves no data: descriptors keep pointing at files that are there,
\* or come to point at what another one points at.
LEMMA MovesNothing ==
  ASSUME FdInv, Failures', fds' \in [Fd -> Entry], \E k \in Nat : osFds' = 0 .. k,
         inode' \in [SymFiles -> BOOLEAN], contents' = contents, written' = written,
         last'.op # "readFile", last'.op = "write" => last'.result[1] = "error",
         StaysGone
  PROVE  Keeps
<1>1. FdTypeOK'
  BY DEF FdInv, FdTypeOK
<1>2. Stored'
  BY DEF FdInv, Stored
<1>3. ReadsBack'
  <2>1. \A fd \in Fd : fds'[fd].off >= 0
    BY DEF Entry
  <2>2. QED BY <2>1 DEF ReadsBack
<1>4. Advances
  BY DEF Advances
<1>5. QED BY <1>1, <1>2, <1>3, <1>4 DEF FdInv, Keeps

\* A call that leaves the table alone too.
LEMMA OnlyAnswers ==
  ASSUME FdInv, Failures', UNCHANGED <<fds, inode, contents, written, osFds>>,
         last'.op # "readFile", last'.op = "write" => last'.result[1] = "error"
  PROVE  Keeps
<1>1. StaysGone
  BY DEF StaysGone, __get_file
<1>2. QED BY <1>1, MovesNothing DEF FdInv, FdTypeOK

\* A descriptor that is not open.
LEMMA BadFdKeeps ==
  ASSUME FdInv, NEW op, NEW fd, badFd(op, fd), op # "readFile"
  PROVE  Keeps
<1>1. last'.op = op /\ last'.result[1] = "error"
  BY DoneFacts DEF badFd, Error
<1>2. Failures'
  BY NoInjection DEF FdInv, badFd
<1>3. QED BY <1>1, <1>2, OnlyAnswers DEF badFd, files

\* An injected failure.
LEMMA InjectedKeeps ==
  ASSUME FdInv, NEW op, NEW fd, NEW e, injected(op, fd, e), op # "readFile"
  PROVE  Keeps
<1>1. last'.op = op /\ last'.result[1] = "error"
  BY DoneFacts DEF injected, Error
<1>2. Failures'
  BY InjectionCounts DEF FdInv, injected
<1>3. QED BY <1>1, <1>2, OnlyAnswers DEF injected, files

---------------------------------------------------------------------------
\* The bits that open gives a descriptor.
LEMMA AccessBits ==
  ASSUME NEW flags
  PROVE  accessOf(flags) \in SUBSET Bits
BY DEF accessOf, Bits

\* The host's next descriptor.
LEMMA TopHostFd ==
  ASSUME NEW k \in Nat, osFds = 0 .. k
  PROVE  Max(osFds) = k
<1>1. /\ k \in osFds
      /\ \A y \in osFds : y <= k /\ y \in Nat
  OBVIOUS
<1>2. \A x \in osFds : (\A y \in osFds : x >= y) => x = k
  BY <1>1
<1>3. \E x \in osFds : \A y \in osFds : x >= y
  BY <1>1
<1>4. QED BY <1>2, <1>3 DEF Max

\* open: the first free entry comes to stand for a file that is there, or for
\* one of the host.
LEMMA OpensKeep ==
  ASSUME FdInv, NEW path, NEW flags, NEW perm, __fd_open(path, flags, perm),
         noInjection, UNCHANGED <<inode, contents, written>>
  PROVE  Keeps
<1> DEFINE fd == Min(FreeFds)
           entry == [ClosedEntry EXCEPT !.open = TRUE, !.access = accessOf(flags)]
<1>1. FdTypeOK /\ Failures'
  BY NoInjection DEF FdInv
<1>2. PICK k \in Nat : osFds = 0 .. k
  BY <1>1, SMTT(30) DEF FdTypeOK
<1>3. /\ \A d \in SymFiles : [entry EXCEPT !.dfile = d] \in Entry
      /\ \A d \in SymFiles : [ClosedEntry EXCEPT !.dfile = d] \in Entry
      /\ \A n \in Nat : [entry EXCEPT !.fd = n] \in Entry
      /\ ClosedEntry \in Entry
  <2>1. PICK b \in SUBSET Bits : b = accessOf(flags)
    BY AccessBits
  <2>2. QED BY <2>1, Zenon DEF Entry, ClosedEntry, SymFiles, Host, Bits
<1>4. /\ \A d : [ClosedEntry EXCEPT !.dfile = d].open = FALSE
      /\ \A d : [entry EXCEPT !.dfile = d].dfile = d
      /\ \A n : [entry EXCEPT !.fd = n].dfile = Host
      /\ ClosedEntry.open = FALSE
      /\ Host \notin SymFiles
  BY DEF ClosedEntry, Host, SymFiles
<1>5. last'.op = "open"
  BY DoneFacts DEF __fd_open
<1>6. __get_sym_file(path) => path \in SymFiles /\ inode[path]
  BY DEF __get_sym_file
<1> HIDE DEF entry, fd
<1>7. ASSUME NEW e \in Entry, fds' = [fds EXCEPT ![fd] = e],
             e.open => e.dfile = Host \/ inode[e.dfile]
      PROVE  fds' \in [Fd -> Entry] /\ StaysGone
  <2>1. fds' \in [Fd -> Entry] /\ \A x \in Fd : fds'[x] = IF x = fd THEN e ELSE fds[x]
    BY <1>1, <1>7, Zenon DEF FdTypeOK
  <2>2. QED BY <1>4, <1>7, <2>1 DEF StaysGone, __get_file
<1>8. CASE UNCHANGED <<fds, osFds>>
  BY <1>1, <1>5, <1>8, OnlyAnswers
<1>9. CASE \E d : __get_sym_file(d) /\ fds' = [fds EXCEPT ![fd] = [ClosedEntry EXCEPT !.dfile = d]]
                  /\ osFds' = osFds
  BY <1>1, <1>2, <1>3, <1>4, <1>5, <1>7, <1>9, MovesNothing, Zenon DEF FdTypeOK, __get_sym_file
<1>10. CASE /\ __get_sym_file(path) /\ fds' = [fds EXCEPT ![fd] = [entry EXCEPT !.dfile = path]]
            /\ osFds' = osFds
  BY <1>1, <1>2, <1>3, <1>4, <1>5, <1>6, <1>7, <1>10, MovesNothing, Zenon DEF FdTypeOK
<1>11. CASE fds' = [fds EXCEPT ![fd] = ClosedEntry] /\ osFds' = osFds
  BY <1>1, <1>2, <1>3, <1>4, <1>5, <1>7, <1>11, MovesNothing, Zenon DEF FdTypeOK
<1>12. CASE /\ osFds' = osFds \cup {Max(osFds) + 1}
            /\ fds' = [fds EXCEPT ![fd] = [entry EXCEPT !.fd = Max(osFds) + 1]]
  <2>1. Max(osFds) = k
    BY <1>2, TopHostFd
  <2>2. PICK n \in Nat : n = k + 1
    OBVIOUS
  <2>3. osFds' = 0 .. n /\ fds' = [fds EXCEPT ![fd] = [entry EXCEPT !.fd = n]]
    <3>1. (0 .. k) \cup {n} = 0 .. n
      BY <2>2
    <3>2. QED BY <1>2, <1>12, <2>1, <2>2, <3>1, Zenon
  <2>4. QED BY <1>1, <1>3, <1>4, <1>5, <1>7, <2>3, MovesNothing, Zenon DEF FdTypeOK
<1>13. QED BY <1>8, <1>9, <1>10, <1>11, <1>12 DEF __fd_open, fd, entry

\* open.
LEMMA OpenKeeps ==
  ASSUME FdInv, NEW path, NEW flags, NEW perm, open(path, flags, perm)
  PROVE  Keeps
BY OpensKeep DEF open

\* openat: the directory is refused, or the call is an open.
LEMMA OpenatKeeps ==
  ASSUME FdInv, NEW base, NEW path, NEW flags, NEW perm, __fd_openat(base, path, flags, perm)
  PROVE  Keeps
<1>1. Failures'
  BY NoInjection DEF FdInv, __fd_openat
<1>2. CASE __fd_open(path, flags, perm)
  BY <1>2, OpensKeep DEF __fd_openat
<1>3. CASE /\ \E e \in atErrors(base) : Done("openat", base, Error(e), NoHost)
           /\ UNCHANGED <<fds, mode, osFds>>
  <2>1. last'.op = "openat"
    BY <1>3, DoneFacts
  <2>2. QED BY <1>1, <1>3, <2>1, OnlyAnswers DEF __fd_openat
<1>4. QED BY <1>2, <1>3 DEF __fd_openat

\* close.
LEMMA CloseKeeps ==
  ASSUME FdInv, NEW fd, close(fd)
  PROVE  Keeps
<1>1. CASE badFd("close", fd)
  BY <1>1, BadFdKeeps
<1>2. CASE injected("close", fd, "EIO")
  BY <1>2, InjectedKeeps
<1>3. CASE /\ fds' = [fds EXCEPT ![fd] = ClosedEntry]
           /\ Done("close", fd, Ok(0), NoHost)
           /\ noInjection
           /\ UNCHANGED <<umask, files, osFds>>
  <2>1. last'.op = "close" /\ Failures' /\ FdTypeOK
    BY <1>3, DoneFacts, NoInjection DEF FdInv
  <2>2. ClosedEntry \in Entry /\ ~ClosedEntry.open
    BY DEF Entry, ClosedEntry, Host, SymFiles, Bits
  <2>3. fds' \in [Fd -> Entry] /\ \A x \in Fd : fds'[x] = IF x = fd THEN ClosedEntry ELSE fds[x]
    BY <1>3, <2>1, <2>2, Zenon DEF FdTypeOK
  <2>4. StaysGone
    BY <1>3, <2>2, <2>3 DEF StaysGone, __get_file, files
  <2>5. QED BY <1>3, <2>1, <2>3, <2>4, MovesNothing DEF FdTypeOK, files
<1>4. QED BY <1>1, <1>2, <1>3 DEF close
---------------------------------------------------------------------------
\* Moving the offset of one descriptor.
LEMMA OffsetMoved ==
  ASSUME FdInv, NEW fd, NEW n \in Nat, fds' = [fds EXCEPT ![fd].off = n]
  PROVE  /\ fds' \in [Fd -> Entry]
         /\ \A x \in Fd : /\ fds'[x].open = fds[x].open /\ fds'[x].dfile = fds[x].dfile
                          /\ fds'[x].off = IF x = fd THEN n ELSE fds[x].off
<1>1. fds \in [Fd -> Entry]
  BY DEF FdInv, FdTypeOK
<1>2. ASSUME NEW x \in Fd
      PROVE  /\ fds'[x] \in Entry
             /\ fds'[x].open = fds[x].open /\ fds'[x].dfile = fds[x].dfile
             /\ fds'[x].off = IF x = fd THEN n ELSE fds[x].off
  BY <1>1 DEF Entry
<1>3. QED BY <1>1, <1>2, Zenon

\* Nothing else of the files is changed by it.
LEMMA OffsetKeeps ==
  ASSUME FdInv, Failures', NEW fd, NEW n \in Nat, fds' = [fds EXCEPT ![fd].off = n],
         UNCHANGED <<files, osFds>>, last'.op \notin {"readFile", "write"}
  PROVE  Keeps
<1>1. StaysGone
  BY OffsetMoved DEF StaysGone, __get_file, files
<1>2. QED BY <1>1, OffsetMoved, MovesNothing, Zenon DEF FdInv, FdTypeOK, files

\* read: below the size of the file, contents are what was written.
LEMMA ReadKeeps ==
  ASSUME FdInv, NEW fd, NEW count \in Nat, read(fd, count)
  PROVE  Keeps
<1>1. FdTypeOK /\ Stored /\ Failures
  BY DEF FdInv
<1>2. CASE Done("read", fd, Ok(0), NoHost) /\ noInjection /\ UNCHANGED <<fds, umask, files, osFds>>
  <2>1. last'.op = "read"
    BY <1>2, DoneFacts
  <2>2. QED BY <1>1, <1>2, <2>1, NoInjection, OnlyAnswers DEF files
<1>3. CASE badFd("read", fd)
  BY <1>3, BadFdKeeps
<1>4. CASE injected("read", fd, "EIO")
  BY <1>4, InjectedKeeps
<1>5. CASE /\ count > 0 /\ __get_file(fd) /\ symbolic(fd)
           /\ LET f == fds[fd]
                  n == readCount(f.off, count)
              IN /\ fds' = [fds EXCEPT ![fd].off = @ + n]
                 /\ Done("readFile", [dfile |-> f.dfile, off |-> f.off],
                         Ok([i \in 1 .. n |-> contents[f.dfile][f.off + i]]), NoHost)
           /\ noInjection
           /\ UNCHANGED <<umask, files, osFds>>
  <2>1. PICK d \in SymFiles, off \in Nat : d = fds[fd].dfile /\ off = fds[fd].off
    BY <1>1, <1>5 DEF __get_file, symbolic, FdTypeOK, Entry
  <2>2. PICK n \in Nat : n = readCount(off, count) /\ (n > 0 => off + n <= Size)
    BY TableAssumption DEF readCount
  <2>3. PICK m \in Nat : m = off + n
    OBVIOUS
  <2>4. fds' = [fds EXCEPT ![fd].off = m]
    BY <1>5, <2>1, <2>2, <2>3
  <2>5. /\ last'.op = "readFile" /\ last'.arg = [dfile |-> d, off |-> off]
        /\ last'.result = Ok([i \in 1 .. n |-> contents[d][off + i]])
    BY <1>5, <2>1, <2>2, DoneFacts
  <2>6. /\ fds' \in [Fd -> Entry]
        /\ \A x \in Fd : fds'[x].open = fds[x].open /\ fds'[x].dfile = fds[x].dfile
    BY <2>4, OffsetMoved, Zenon
  <2>7. Failures'
    BY <1>1, <1>5, NoInjection
  <2>8. FdTypeOK' /\ Stored'
    BY <1>1, <1>5, <2>6 DEF FdTypeOK, Stored, files
  <2>9. ReadsBack'
    <3>1. \A x \in Fd : fds'[x].off >= 0
      BY <2>6 DEF Entry
    <3>2. last'.arg.dfile = d /\ last'.arg.off = off
      BY <2>5
    <3>3. /\ DOMAIN last'.result[2] = 1 .. n
          /\ \A i \in 1 .. n : last'.result[2][i] = contents[d][off + i]
      BY <2>5 DEF Ok
    <3>4. ASSUME NEW i \in 1 .. n  PROVE contents[d][off + i] = written'[d][off + i]
      <4>1. PICK j \in 1 .. Size : j = off + i
        BY <2>2, TableAssumption
      <4>2. QED BY <1>1, <1>5, <4>1 DEF Stored, files
    <3>5. QED BY <3>1, <3>2, <3>3, <3>4, Zenon DEF ReadsBack
  <2>10. StaysGone
    BY <1>5, <2>6 DEF StaysGone, __get_file, files
  <2>11. Advances
    BY <2>5 DEF Advances
  <2>12. QED BY <2>7, <2>8, <2>9, <2>10, <2>11 DEF Keeps, FdInv
<1>6. CASE /\ __get_file(fd)
           /\ \E n \in 0 .. count :
                 /\ fds' = [fds EXCEPT ![fd].off = IF fds[fd].fd = 0 THEN @ ELSE @ + n]
                 /\ Done("readHost", fd, Ok(n), fds[fd].fd)
           /\ noInjection
           /\ UNCHANGED <<umask, files, osFds>>
  <2>1. PICK n \in 0 .. count :
          /\ fds' = [fds EXCEPT ![fd].off = IF fds[fd].fd = 0 THEN @ ELSE @ + n]
          /\ Done("readHost", fd, Ok(n), fds[fd].fd)
    BY <1>6, Zenon
  <2>2. fds[fd].off \in Nat
    BY <1>1, <1>6 DEF __get_file, FdTypeOK, Entry
  <2>3. PICK m \in Nat : m = IF fds[fd].fd = 0 THEN fds[fd].off ELSE fds[fd].off + n
    BY <2>2
  <2>4. fds' = [fds EXCEPT ![fd].off = m] /\ last'.op = "readHost"
    BY <2>1, <2>3, DoneFacts
  <2>5. QED BY <1>1, <1>6, <2>4, NoInjection, OffsetKeeps, Zenon
<1>7. QED BY <1>2, <1>3, <1>4, <1>5, <1>6 DEF read

\* How many bytes a write stores: all of them that are inside the file.
LEMMA WriteCount ==
  ASSUME NEW off \in Nat, NEW count \in Nat, NEW i \in 1 .. Size
  PROVE  /\ writeCount(off, count) \in Nat
         /\ i \in off + 1 .. off + writeCount(off, count) <=> i \in off + 1 .. off + count
BY TableAssumption DEF writeCount

\* write: what is stored agrees with what was written as far as the file
\* reaches, and the offset moves by the whole count.
LEMMA WriteKeeps ==
  ASSUME FdInv, NEW fd, NEW buf, Len(buf) \in Nat, write(fd, buf)
  PROVE  Keeps
<1>1. FdTypeOK /\ Stored /\ Failures
  BY DEF FdInv
<1>2. CASE badFd("write", fd)
  BY <1>2, BadFdKeeps
<1>3. CASE injected("write", fd, "EIO")
  BY <1>3, InjectedKeeps
<1>4. CASE /\ __get_file(fd) /\ symbolic(fd)
           /\ writeFile(fd, buf)
           /\ noInjection
           /\ UNCHANGED <<umask, inode, mode, osFds>>
  <2>1. PICK d \in SymFiles, off \in Nat : d = fds[fd].dfile /\ off = fds[fd].off
    BY <1>1, <1>4 DEF __get_file, symbolic, FdTypeOK, Entry
  <2>2. PICK count \in Nat : count = Len(buf)
    OBVIOUS
  <2>3. Failures'
    BY <1>1, <1>4, NoInjection
  <2>4. CASE Done("write", fd, Error("assert"), NoHost) /\ UNCHANGED <<fds, contents, written>>
    <3>1. last'.op = "write" /\ last'.result[1] = "error"
      BY <2>4, DoneFacts DEF Error
    <3>2. QED BY <1>4, <2>3, <2>4, <3>1, OnlyAnswers
  <2> DEFINE n == writeCount(off, count)
             Over(c, m) == [i \in DOMAIN c |->
                              IF i \in off + 1 .. off + m THEN buf[i - off] ELSE c[i]]
  <2>5. CASE /\ contents' = [contents EXCEPT ![d] = Over(contents[d], n)]
             /\ written' = [written EXCEPT ![d] = Over(written[d], count)]
             /\ fds' = [fds EXCEPT ![fd].off = offsetAfterWrite(@, count)]
             /\ Done("write", fd, Ok(count), NoHost)
    <3>1. PICK m \in Nat : m = off + count
      OBVIOUS
    <3>2. fds' = [fds EXCEPT ![fd].off = m]
      BY <2>1, <2>5, <3>1 DEF offsetAfterWrite
    <3>3. /\ fds' \in [Fd -> Entry]
          /\ \A x \in Fd : /\ fds'[x].open = fds[x].open /\ fds'[x].dfile = fds[x].dfile
                           /\ fds'[x].off = IF x = fd THEN m ELSE fds[x].off
      BY ONLY FdInv, m \in Nat, <3>2, OffsetMoved, ZenonT(90)
    <3>4. last'.op = "write" /\ last'.arg = fd /\ last'.result[2] = count
      BY <2>5, DoneFacts DEF Ok
    <3>5. /\ DOMAIN contents' = SymFiles /\ DOMAIN written' = SymFiles
          /\ \A f \in SymFiles : f # d => contents'[f] = contents[f] /\ written'[f] = written[f]
          /\ contents'[d] = Over(contents[d], n) /\ written'[d] = Over(written[d], count)
      BY <1>1, <2>5 DEF FdTypeOK
    <3>6. FdTypeOK'
      <4>1. \A f \in SymFiles : DOMAIN contents'[f] = 1 .. Size /\ DOMAIN written'[f] = 1 .. Tracked
        BY <1>1, <3>5 DEF FdTypeOK
      <4>2. QED BY <1>1, <1>4, <3>3, <3>5, <4>1 DEF FdTypeOK
    <3>7. Stored'
      <4>1. ASSUME NEW i \in 1 .. Size  PROVE contents'[d][i] = written'[d][i]
        <5>1. i \in DOMAIN contents[d] /\ i \in DOMAIN written[d]
          <6>1. i \in 1 .. Tracked
            <7>1. MaxCalls * MaxCount \in Nat
              BY ArgumentAssumption
            <7>2. QED BY <7>1, TableAssumption DEF Tracked
          <6>2. QED BY <1>1, <6>1, Zenon DEF FdTypeOK
        <5>2. contents[d][i] = written[d][i]
          BY <1>1 DEF Stored
        <5>3. i \in off + 1 .. off + n <=> i \in off + 1 .. off + count
          BY WriteCount, Zenon
        <5>4. /\ contents'[d][i] = IF i \in off + 1 .. off + n THEN buf[i - off] ELSE contents[d][i]
              /\ written'[d][i] = IF i \in off + 1 .. off + count THEN buf[i - off] ELSE written[d][i]
          BY <3>5, <5>1
        <5>5. QED BY <5>2, <5>3, <5>4
      <4>2. ASSUME NEW f \in SymFiles, f # d, NEW i \in 1 .. Size
            PROVE  contents'[f][i] = written'[f][i]
        BY <1>1, <3>5, <4>2 DEF Stored
      <4>3. QED BY <4>1, <4>2 DEF Stored
    <3>8. ReadsBack'
      BY <3>3, <3>4 DEF ReadsBack, Entry
    <3>9. StaysGone
      BY <1>4, <3>3 DEF StaysGone, __get_file
    <3>10. Advances
      <4>1. \A x \in Fd : fds[x].off \in Nat
        BY <1>1 DEF FdTypeOK, Entry
      <4>2. QED BY <2>1, <3>1, <3>3, <3>4, <4>1 DEF Advances
    <3>11. QED BY <2>3, <3>6, <3>7, <3>8, <3>9, <3>10 DEF Keeps, FdInv
  <2>6. QED BY <1>4, <2>1, <2>2, <2>4, <2>5 DEF writeFile
<1>5. CASE /\ __get_file(fd)
           /\ \E n \in 0 .. Len(buf) :
                 /\ fds' = [fds EXCEPT ![fd].off = IF fds[fd].fd \in {1, 2} THEN @ ELSE @ + n]
                 /\ Done("writeHost", fd, Ok(n), fds[fd].fd)
           /\ noInjection
           /\ UNCHANGED <<umask, files, osFds>>
  <2>1. PICK n \in 0 .. Len(buf) :
          /\ fds' = [fds EXCEPT ![fd].off = IF fds[fd].fd \in {1, 2} THEN @ ELSE @ + n]
          /\ Done("writeHost", fd, Ok(n), fds[fd].fd)
    BY <1>5, Zenon
  <2>2. fds[fd].off \in Nat
    BY <1>1, <1>5 DEF __get_file, FdTypeOK, Entry
  <2>3. PICK m \in Nat : m = IF fds[fd].fd \in {1, 2} THEN fds[fd].off ELSE fds[fd].off + n
    BY <2>2
  <2>4. fds' = [fds EXCEPT ![fd].off = m] /\ last'.op = "writeHost"
    BY <2>1, <2>3, DoneFacts
  <2>5. QED BY <1>1, <1>5, <2>4, NoInjection, OffsetKeeps, Zenon
<1>6. QED BY <1>2, <1>3, <1>4, <1>5 DEF write
\* lseek: no offset becomes negative.
LEMMA SeekKeeps ==
  ASSUME FdInv, NEW fd, NEW offset \in Int,
         NEW whence \in {"SEEK_SET", "SEEK_CUR", "SEEK_END"}, __fd_lseek(fd, offset, whence)
  PROVE  Keeps
<1>1. FdTypeOK /\ Failures
  BY DEF FdInv
<1>2. CASE badFd("lseek", fd)
  BY <1>2, BadFdKeeps
<1>3. CASE /\ __get_file(fd)
           /\ IF seekValid(fds[fd], offset, whence)
              THEN /\ fds' = [fds EXCEPT ![fd].off = seekTo(fds[fd], offset, whence)]
                   /\ Done("lseek", fd, Ok(fds'[fd].off), NoHost)
              ELSE /\ Done("lseek", fd, Error("EINVAL"), NoHost)
                   /\ UNCHANGED fds
           /\ noInjection
           /\ UNCHANGED <<umask, files, osFds>>
  <2>1. last'.op = "lseek" /\ Failures'
    BY <1>1, <1>3, DoneFacts, NoInjection
  <2>2. CASE seekValid(fds[fd], offset, whence)
    <3>1. fds[fd].off \in Nat
      BY <1>1, <1>3 DEF __get_file, FdTypeOK, Entry
    <3>2. seekTo(fds[fd], offset, whence) \in Int
      BY <3>1, TableAssumption DEF seekTo
    <3>3. PICK n \in Nat : n = seekTo(fds[fd], offset, whence)
      BY <2>2, <3>2 DEF seekValid
    <3>4. fds' = [fds EXCEPT ![fd].off = n]
      BY <1>3, <2>2, <3>3
    <3>5. QED BY <1>3, <2>1, <3>4, OffsetKeeps, Zenon
  <2>3. CASE ~seekValid(fds[fd], offset, whence)
    BY <1>3, <2>1, <2>3, OnlyAnswers DEF files
  <2>4. QED BY <2>2, <2>3
<1>4. CASE /\ __get_file(fd)
           /\ \/ /\ Done("lseek", fd, Error("host"), fds[fd].fd)
                 /\ UNCHANGED fds
              \/ /\ offset >= 0
                 /\ fds' = [fds EXCEPT ![fd].off = IF whence = "SEEK_CUR" THEN @ + offset ELSE offset]
                 /\ Done("lseek", fd, Ok(fds'[fd].off), fds[fd].fd)
           /\ noInjection
           /\ UNCHANGED <<umask, files, osFds>>
  <2>1. last'.op = "lseek" /\ Failures'
    BY <1>1, <1>4, DoneFacts, NoInjection
  <2>2. CASE UNCHANGED fds
    BY <1>4, <2>1, <2>2, OnlyAnswers DEF files
  <2>3. CASE /\ offset >= 0
             /\ fds' = [fds EXCEPT ![fd].off = IF whence = "SEEK_CUR" THEN @ + offset ELSE offset]
    <3>1. fds[fd].off \in Nat
      BY <1>1, <1>4 DEF __get_file, FdTypeOK, Entry
    <3>2. PICK n \in Nat : n = IF whence = "SEEK_CUR" THEN fds[fd].off + offset ELSE offset
      BY <2>3, <3>1
    <3>3. fds' = [fds EXCEPT ![fd].off = n]
      BY <2>3, <3>2
    <3>4. QED BY <1>4, <2>1, <3>3, OffsetKeeps, Zenon
  <2>4. QED BY <1>4, <2>2, <2>3
<1>5. QED BY <1>2, <1>3, <1>4 DEF __fd_lseek

\* dup2: the copy refers to what the old descriptor refers to, or is closed when
\* both are the same; the close it makes may use up a failure.
LEMMA Dup2Keeps ==
  ASSUME FdInv, NEW oldfd, NEW newfd, dup2(oldfd, newfd)
  PROVE  Keeps
<1>1. FdTypeOK /\ Failures
  BY DEF FdInv
<1>2. last'.op = "dup2" /\ last'.arg = <<oldfd, newfd>>
  BY DoneFacts DEF dup2
<1>3. CASE noInjection /\ UNCHANGED <<fds, umask, files, osFds>>
  BY <1>1, <1>2, <1>3, NoInjection, OnlyAnswers DEF files
<1>4. CASE /\ __get_file(oldfd) /\ newfd \in Fd
           /\ \/ /\ fds[newfd].open /\ mayFail("close")
                 /\ inject("close")
                 /\ fds' = [fds EXCEPT ![newfd] = copied(oldfd, newfd, fds[oldfd])]
              \/ /\ noInjection
                 /\ LET closed == [fds EXCEPT ![newfd] = IF @.open THEN ClosedEntry ELSE @]
                    IN fds' = [closed EXCEPT ![newfd] = copied(oldfd, newfd, closed[oldfd])]
           /\ UNCHANGED <<umask, files, osFds>>
  <2>1. Failures'
    BY <1>1, <1>4, NoInjection, InjectionCounts
  <2>2. /\ oldfd \in Fd /\ fds[oldfd] \in Entry
        /\ ClosedEntry \in Entry /\ ClosedEntry.open = FALSE
    BY <1>1, <1>4 DEF __get_file, FdTypeOK, Entry, ClosedEntry, SymFiles, Host, Bits
  <2>3. \A e \in Entry : /\ copied(oldfd, newfd, e) \in Entry
                         /\ copied(oldfd, newfd, e).open = e.open
                         /\ copied(oldfd, newfd, e).dfile = e.dfile
    BY Zenon DEF copied, Entry
  <2>4. PICK e \in {fds[oldfd], ClosedEntry} :
          \A x \in Fd : fds'[x] = IF x = newfd THEN copied(oldfd, newfd, e) ELSE fds[x]
    <3>1. CASE fds' = [fds EXCEPT ![newfd] = copied(oldfd, newfd, fds[oldfd])]
      BY <1>1, <3>1 DEF FdTypeOK
    <3>2. CASE LET closed == [fds EXCEPT ![newfd] = IF @.open THEN ClosedEntry ELSE @]
               IN fds' = [closed EXCEPT ![newfd] = copied(oldfd, newfd, closed[oldfd])]
      <4> DEFINE closed == [fds EXCEPT ![newfd] = IF @.open THEN ClosedEntry ELSE @]
      <4>1. /\ DOMAIN closed = Fd
            /\ \A x \in Fd : x # newfd => closed[x] = fds[x]
            /\ closed[oldfd] \in {fds[oldfd], ClosedEntry}
        BY <1>1, <2>2 DEF FdTypeOK
      <4>2. fds' = [closed EXCEPT ![newfd] = copied(oldfd, newfd, closed[oldfd])]
        BY <3>2
      <4> HIDE DEF closed
      <4>3. \A x \in Fd : fds'[x] = IF x = newfd THEN copied(oldfd, newfd, closed[oldfd]) ELSE fds[x]
        BY <4>1, <4>2
      <4>4. QED BY <4>1, <4>3
    <3>3. QED BY <1>4, <3>1, <3>2
  <2>5. fds' = [x \in Fd |-> fds'[x]]
    BY <1>1, <1>4 DEF FdTypeOK
  <2>6. fds' \in [Fd -> Entry]
    <3>1. \A x \in Fd : fds'[x] \in Entry
      BY <1>1, <2>2, <2>3, <2>4 DEF FdTypeOK
    <3>2. QED BY <2>5, <3>1
  <2>7. StaysGone
    <3>1. last'.arg[1] = oldfd
      BY <1>2
    <3>2. inode' = inode
      BY <1>4 DEF files
    <3>3. e \in Entry
      BY <2>2
    <3>4. ASSUME NEW f \in SymFiles, NEW x \in Fd, fds'[x].open, fds'[x].dfile = f
          PROVE  (__get_file(x) /\ fds[x].dfile = f) \/ fds[oldfd].dfile = f
      <4>1. CASE x = newfd
        <5>1. e.open /\ e.dfile = f
          BY <2>3, <2>4, <3>3, <3>4, <4>1
        <5>2. QED BY <2>2, <5>1
      <4>2. CASE x # newfd
        BY <2>4, <3>4, <4>2 DEF __get_file
      <4>3. QED BY <4>1, <4>2
    <3>5. QED BY <1>2, <3>1, <3>2, <3>4 DEF StaysGone
  <2>8. QED BY <1>1, <1>2, <1>4, <2>1, <2>6, <2>7, MovesNothing DEF FdTypeOK, files
<1>5. QED BY <1>3, <1>4 DEF dup2

\* dup.
LEMMA DupKeeps ==
  ASSUME FdInv, NEW oldfd, dup(oldfd)
  PROVE  Keeps
<1>1. CASE badFd("dup", oldfd)
  BY <1>1, BadFdKeeps
<1>2. CASE /\ Done("dup", oldfd, Error("EMFILE"), NoHost)
           /\ noInjection
           /\ UNCHANGED <<fds, umask, files, osFds>>
  <2>1. last'.op = "dup" /\ Failures'
    BY <1>2, DoneFacts, NoInjection DEF FdInv
  <2>2. QED BY <1>2, <2>1, OnlyAnswers DEF files
<1>3. CASE dup2(oldfd, Min(FreeFds))
  BY <1>3, Dup2Keeps
<1>4. QED BY <1>1, <1>2, <1>3 DEF dup

---------------------------------------------------------------------------
\* The calls that only answer, fcntl's flag and chmod's bits apart.
LEMMA FdCallKeeps ==
  ASSUME FdInv, NEW fd, fdCall(fd)
  PROVE  Keeps
<1>1. CASE badFd("fdCall", fd)
  BY <1>1, BadFdKeeps
<1>2. CASE /\ IF symbolic(fd)
              THEN \E a \in fdAnswers(fd) : Done(a[1], fd, a[2], NoHost)
              ELSE \E op \in FdOps, r \in HostResults : Done(op, fd, r, hostFd(op, fd))
           /\ noInjection
           /\ UNCHANGED <<fds, umask, files, osFds>>
  <2>1. last'.op \in FdOps
    <3>1. CASE symbolic(fd)
      <4>1. PICK a \in fdAnswers(fd) : Done(a[1], fd, a[2], NoHost)
        BY <1>2, <3>1
      <4>2. a[1] \in FdOps
        BY <4>1 DEF fdAnswers, FdOps
      <4>3. QED BY <4>1, <4>2, DoneFacts
    <3>2. CASE ~symbolic(fd)
      BY <1>2, <3>2, DoneFacts
    <3>3. QED BY <3>1, <3>2
  <2>2. Failures'
    BY <1>2, NoInjection DEF FdInv
  <2>3. last'.op \notin {"readFile", "write"}
    BY <2>1 DEF FdOps
  <2>4. QED BY <1>2, <2>2, <2>3, OnlyAnswers DEF files
<1>3. QED BY <1>1, <1>2 DEF fdCall

\* ftruncate: the length of a file the library models is refused.
LEMMA FtruncateKeeps ==
  ASSUME FdInv, NEW fd, __fd_ftruncate(fd)
  PROVE  Keeps
<1>1. CASE badFd("ftruncate", fd)
  BY <1>1, BadFdKeeps
<1>2. CASE injected("ftruncate", fd, "EIO")
  BY <1>2, InjectedKeeps
<1>3. CASE /\ IF symbolic(fd) THEN Done("ftruncate", fd, Error("EIO"), NoHost)
              ELSE \E r \in HostResults : Done("ftruncate", fd, r, fds[fd].fd)
           /\ noInjection
           /\ UNCHANGED <<fds, umask, files, osFds>>
  <2>1. last'.op = "ftruncate" /\ Failures'
    BY <1>3, DoneFacts, NoInjection DEF FdInv
  <2>2. QED BY <1>3, <2>1, OnlyAnswers DEF files
<1>4. QED BY <1>1, <1>2, <1>3 DEF __fd_ftruncate

\* fcntl: only the close-on-exec flag changes.
LEMMA FcntlKeeps ==
  ASSUME FdInv, NEW fd, NEW cmd, NEW arg \in BOOLEAN, fcntl(fd, cmd, arg)
  PROVE  Keeps
<1>1. CASE badFd("fcntl", fd)
  BY <1>1, BadFdKeeps
<1>2. CASE ~badFd("fcntl", fd)
  <2>1. /\ fds' = fds \/ fds' = [fds EXCEPT ![fd].cloexec = arg]
        /\ \E r, h : Done("fcntl", fd, r, h)
        /\ noInjection
        /\ UNCHANGED <<umask, files, osFds>>
    BY <1>2 DEF fcntl
  <2>2. last'.op = "fcntl" /\ Failures' /\ FdTypeOK
    BY <2>1, DoneFacts, NoInjection DEF FdInv
  <2>3. CASE fds' = fds
    BY <2>1, <2>2, <2>3, OnlyAnswers DEF files
  <2>4. CASE fds' = [fds EXCEPT ![fd].cloexec = arg]
    <3>1. fds' \in [Fd -> Entry]
      <4>1. fds \in [Fd -> Entry]
        BY <2>2 DEF FdTypeOK
      <4>2. DOMAIN fds' = Fd /\ fds' = [x \in Fd |-> fds'[x]]
        BY ONLY <2>4, <4>1, Zenon
      <4>3. ASSUME NEW x \in Fd
            PROVE  fds'[x] \in Entry
        BY ONLY <2>4, <4>1, x \in Fd, arg \in BOOLEAN DEF Entry
      <4>4. QED BY ONLY <4>2, <4>3
    <3>2. \A x \in Fd : fds'[x].open = fds[x].open /\ fds'[x].dfile = fds[x].dfile
      BY <2>2, <2>4 DEF FdTypeOK, Entry
    <3>3. StaysGone
      BY <2>1, <3>2 DEF StaysGone, __get_file, files
    <3>4. QED BY <2>1, <2>2, <3>1, <3>3, MovesNothing DEF FdTypeOK, files
  <2>5. QED BY <2>1, <2>3, <2>4
<1>3. QED BY <1>1, <1>2

\* The calls that take a path: answered for a symbolic file, else left to the host.
LEMMA PathCallKeeps ==
  ASSUME FdInv, NEW path, pathCall(path)
  PROVE  Keeps
<1>1. last'.op \notin {"readFile", "write"}
  <2>1. CASE __get_sym_file(path)
    <3>1. PICK a \in pathAnswers(path) : Done(a[1], path, a[2], NoHost)
      BY <2>1 DEF pathCall
    <3>2. a[1] \notin {"readFile", "write"}
      BY <3>1 DEF pathAnswers
    <3>3. QED BY <3>1, <3>2, DoneFacts
  <2>2. CASE ~__get_sym_file(path)
    BY <2>2, DoneFacts DEF pathCall
  <2>3. QED BY <2>1, <2>2
<1>2. Failures'
  BY NoInjection DEF FdInv, pathCall
<1>3. QED BY <1>1, <1>2, OnlyAnswers DEF pathCall, files

\* The calls that take a directory and a path.
LEMMA AtCallKeeps ==
  ASSUME FdInv, NEW base, NEW path, atCall(base, path)
  PROVE  Keeps
<1>1. last'.op = "at"
  BY DoneFacts DEF atCall
<1>2. noInjection /\ UNCHANGED <<fds, umask, files, osFds>>
  BY DEF atCall
<1>3. Failures'
  BY <1>2, NoInjection DEF FdInv
<1>4. QED BY <1>1, <1>2, <1>3, OnlyAnswers DEF files

\* chmod: the mode of a symbolic file.
LEMMA ChmodKeeps ==
  ASSUME FdInv, NEW path, NEW perm, chmod(path, perm)
  PROVE  Keeps
<1>1. last'.op = "chmod"
  BY DoneFacts DEF chmod, chmodAny
<1>2. Failures'
  BY NoInjection DEF FdInv, chmod
<1>3. QED BY <1>1, <1>2, OnlyAnswers DEF chmod

\* fchmod: the mode of an open symbolic file.
LEMMA FchmodKeeps ==
  ASSUME FdInv, NEW fd, NEW perm, fchmod(fd, perm)
  PROVE  Keeps
<1>1. CASE badFd("fchmod", fd)
  BY <1>1, BadFdKeeps
<1>2. CASE /\ chmodAny("fchmod", fds[fd].dfile, fd, perm)
           /\ noInjection
           /\ UNCHANGED <<fds, umask, inode, contents, written, osFds>>
  <2>1. last'.op = "fchmod"
    BY <1>2, DoneFacts DEF chmodAny
  <2>2. Failures'
    BY <1>2, NoInjection DEF FdInv
  <2>3. QED BY <1>2, <2>1, <2>2, OnlyAnswers
<1>3. QED BY <1>1, <1>2 DEF fchmod

\* unlink, unlinkat and rmdir: a file that is gone stays gone, and no descriptor
\* is touched.
LEMMA RemoveKeeps ==
  ASSUME FdInv, NEW op \in {"rmdir", "unlink"}, NEW path, NEW ok, NEW err,
         remove(op, path, ok, err)
  PROVE  Keeps
<1>1. last'.op = op /\ Failures' /\ FdTypeOK
  BY DoneFacts, NoInjection DEF FdInv, remove
<1>2. inode' \in [SymFiles -> BOOLEAN] /\ \A f \in SymFiles : inode'[f] => inode[f]
  <2>1. inode' = inode \/ inode' = [inode EXCEPT ![path] = FALSE]
    BY DEF remove
  <2>2. QED BY <1>1, <2>1, Zenon DEF FdTypeOK
<1>3. StaysGone
  BY <1>2 DEF StaysGone, __get_file, remove
<1>4. QED BY <1>1, <1>2, <1>3, MovesNothing DEF FdTypeOK, remove

\* The calls that have no file.
LEMMA OtherKeeps ==
  ASSUME FdInv,
         \/ \E m \in Perms : setUmask(m)
         \/ getcwd
         \/ \E root \in BOOLEAN : chroot(root)
         \/ \E asked \in SUBSET CallFds : select(asked)
  PROVE  Keeps
<1>1. CASE \E m \in Perms : setUmask(m)
  <2>1. last'.op = "umask"
    BY <1>1, DoneFacts DEF setUmask
  <2>2. noInjection /\ UNCHANGED <<fds, files, osFds>>
    BY <1>1 DEF setUmask
  <2>3. QED BY <2>1, <2>2, NoInjection, OnlyAnswers DEF FdInv, files
<1>2. CASE getcwd
  <2>1. CASE injected("getcwd", 0, "ERANGE")
    BY <2>1, InjectedKeeps
  <2>2. CASE /\ \E r \in HostResults : Done("getcwd", 0, r, NoHost)
             /\ noInjection
             /\ UNCHANGED <<fds, umask, files, osFds>>
    <3>1. last'.op = "getcwd"
      BY <2>2, DoneFacts
    <3>2. QED BY <2>2, <3>1, NoInjection, OnlyAnswers DEF FdInv, files
  <2>3. QED BY <1>2, <2>1, <2>2 DEF getcwd
<1>3. CASE \E root \in BOOLEAN : chroot(root)
  <2>1. last'.op = "chroot"
    BY <1>3, DoneFacts DEF chroot
  <2>2. noInjection /\ UNCHANGED <<fds, files, osFds>>
    BY <1>3 DEF chroot
  <2>3. QED BY <2>1, <2>2, NoInjection, OnlyAnswers DEF FdInv, files
<1>4. CASE \E asked \in SUBSET CallFds : select(asked)
  <2>1. PICK asked \in SUBSET CallFds : select(asked)
    BY <1>4, SMTT(30)
  <2>2. \E result : Done("select", asked, result, NoHost)
    BY <2>1, Zenon DEF select
  <2>3. last'.op = "select"
    BY <2>2, DoneFacts
  <2>4. noInjection /\ UNCHANGED <<fds, files, osFds>>
    BY <2>1 DEF select
  <2>5. QED BY <2>3, <2>4, NoInjection, OnlyAnswers DEF FdInv, files
<1>5. QED BY <1>1, <1>2, <1>3, <1>4

---------------------------------------------------------------------------
\* The state klee_init_fds leaves.
LEMMA FdInitInv ==
  ASSUME FdInit
  PROVE  FdInv
<1>1. FdTypeOK
  <2>1. fds \in [Fd -> Entry]
    <3>1. \A fd \in Fd : initialFds[fd] \in Entry
      <4>1. ASSUME NEW fd \in Fd, fd > 2  PROVE initialFds[fd] \in Entry
        BY <4>1 DEF initialFds, Entry, ClosedEntry, SymFiles, Host, Bits
      <4>2. ASSUME NEW fd \in Fd, ~(fd > 2)  PROVE initialFds[fd] \in Entry
        <5>1. fd \in Nat
          BY TableAssumption DEF Fd
        <5>2. PICK d \in SymFiles \cup {Host} : d = IF fd = 0 THEN "stdin" ELSE Host
          BY DEF SymFiles
        <5>3. PICK a \in SUBSET Bits : a = IF fd = 0 THEN {"r"} ELSE {"w"}
          BY Zenon DEF Bits
        <5>4. initialFds[fd] = [ClosedEntry EXCEPT !.open = TRUE, !.fd = fd, !.dfile = d, !.access = a]
          BY <4>2, <5>2, <5>3 DEF initialFds
        <5>5. initialFds[fd] = [open |-> TRUE, fd |-> fd, off |-> 0, dfile |-> d,
                                cloexec |-> FALSE, access |-> a]
          BY <5>4, Zenon DEF ClosedEntry
        <5>6. QED BY <5>1, <5>5 DEF Entry
      <4>3. QED BY <4>1, <4>2
    <3>2. QED BY <3>1, Zenon DEF FdInit, initialFds
  <2>2. inode \in [SymFiles -> BOOLEAN]
    BY DEF FdInit
  <2>3. osFds = 0 .. 2
    BY DEF FdInit
  <2>4. /\ DOMAIN contents = SymFiles /\ DOMAIN written = SymFiles
        /\ \A f \in SymFiles : DOMAIN contents[f] = 1 .. Size /\ DOMAIN written[f] = 1 .. Tracked
    BY DEF FdInit, Tracked
  <2>5. QED BY <2>1, <2>2, <2>3, <2>4, SMTT(30) DEF FdTypeOK
<1>2. Stored
  <2>1. \A i \in 1 .. Size : i \in 1 .. Tracked
    <3>1. MaxCalls * MaxCount \in Nat
      BY ArgumentAssumption
    <3>2. QED BY <3>1, TableAssumption DEF Tracked
  <2>2. QED BY <2>1 DEF FdInit, Stored, Tracked
<1>3. Failures
  BY FS_EmptySet, TableAssumption DEF FdInit, Failures, FailuresBounded
<1>4. ReadsBack
  <2>1. \A fd \in Fd : fds[fd].off >= 0
    BY <1>1 DEF FdTypeOK, Entry
  <2>2. last.op # "readFile"
    BY DEF FdInit
  <2>3. QED BY <2>1, <2>2 DEF ReadsBack
<1>5. QED BY <1>1, <1>2, <1>3, <1>4 DEF FdInv

\* Every call keeps the promises of the library.
LEMMA CallsKeep ==
  ASSUME FdInv, FdNext
  PROVE  Keeps
<1>1. CASE OpenNext
  BY <1>1, OpenKeeps, OpenatKeeps DEF OpenNext
<1>2. CASE DataNext
  <2>1. PICK fd \in CallFds :
          \/ close(fd)
          \/ \E count \in 0 .. MaxCount : read(fd, count)
          \/ \E buf \in Buffers : write(fd, buf)
          \/ \E offset \in SeekOffsets, whence \in {"SEEK_SET", "SEEK_CUR", "SEEK_END"} :
                __fd_lseek(fd, offset, whence)
          \/ dup(fd)
          \/ \E newfd \in CallFds : dup2(fd, newfd)
    BY <1>2 DEF DataNext
  <2>2. ASSUME NEW count \in 0 .. MaxCount, read(fd, count)  PROVE Keeps
    <3>1. count \in Nat
      BY ArgumentAssumption
    <3>2. QED BY <2>2, <3>1, ReadKeeps
  <2>3. ASSUME NEW buf \in Buffers, write(fd, buf)  PROVE Keeps
    <3>1. Len(buf) \in Nat
      BY ArgumentAssumption
    <3>2. QED BY <2>3, <3>1, WriteKeeps
  <2>4. ASSUME NEW offset \in SeekOffsets, NEW whence \in {"SEEK_SET", "SEEK_CUR", "SEEK_END"},
               __fd_lseek(fd, offset, whence)
        PROVE  Keeps
    <3>1. offset \in Int
      BY ArgumentAssumption
    <3>2. QED BY <2>4, <3>1, SeekKeeps
  <2>5. QED BY <2>1, <2>2, <2>3, <2>4, CloseKeeps, DupKeeps, Dup2Keeps
<1>3. CASE OtherNext
  <2>1. ASSUME NEW path \in Paths, rmdir(path) \/ unlink(path)  PROVE Keeps
    BY <2>1, RemoveKeeps DEF rmdir, unlink
  <2>2. ASSUME NEW path \in Paths, NEW base \in CallFds, unlinkat(base, path)  PROVE Keeps
    BY <2>1, <2>2 DEF unlinkat
  <2>3. QED BY <1>3, <2>1, <2>2, PathCallKeeps, ChmodKeeps, AtCallKeeps, FdCallKeeps,
               FtruncateKeeps, FcntlKeeps, FchmodKeeps, OtherKeeps DEF OtherNext
<1>4. QED BY <1>1, <1>2, <1>3 DEF FdNext

\* A step that is no call changes nothing.
LEMMA FdStep ==
  ASSUME FdInv, [FdNext]_vars
  PROVE  FdInv' /\ (Advances \/ UNCHANGED vars) /\ (StaysGone \/ UNCHANGED vars)
<1>1. CASE FdNext
  BY <1>1, CallsKeep, SMTT(30) DEF Keeps
<1>2. CASE UNCHANGED vars
  BY <1>2 DEF vars, FdInv, FdTypeOK, Stored, Failures, FailuresBounded, ReadsBack, __get_file,
              symbolic
<1>3. QED BY <1>1, <1>2

\* The inductive invariant: types, stored bytes, the count of failures.
THEOREM FilesInvariant == FdSpec => []FdInv
<1>1. FdInit => FdInv
  BY FdInitInv
<1>2. FdInv /\ [FdNext]_vars => FdInv'
  BY FdStep
<1>3. QED BY <1>1, <1>2, PTL DEF FdSpec

\* Whatever calls a program makes, through however many descriptors of a file,
\* read finds what was written last below the size of the file, and its assertion
\* f->off >= 0 holds.
THEOREM ReadsBackCorrect == FdSpec => []ReadsBack
<1>1. FdInv => ReadsBack
  BY DEF FdInv
<1>2. QED BY <1>1, FilesInvariant, PTL

\* No path has more injected failures than klee_init_fds was given.
THEOREM FailuresCorrect == FdSpec => []FailuresBounded
<1>1. FdInv => FailuresBounded
  BY DEF FdInv, Failures
<1>2. QED BY <1>1, FilesInvariant, PTL

\* write moves the offset of its own descriptor by what it reports, and no other.
THEOREM OffsetsCorrect == FdSpec => OffsetAdvances
<1>1. FdInv /\ [FdNext]_vars => [Advances]_vars
  BY FdStep
<1>2. QED BY <1>1, FilesInvariant, PTL DEF FdSpec, OffsetAdvances, Advances

\* A file that unlink or rmdir removed is never opened again.
THEOREM UnlinkCorrect == FdSpec => UnlinkedNotReopened
<1>1. FdInv /\ [FdNext]_vars => [StaysGone]_vars
  BY FdStep
<1>2. QED BY <1>1, FilesInvariant, PTL DEF FdSpec, UnlinkedNotReopened, StaysGone
=============================================================================
