------------------------------- MODULE PosixFiles -------------------------------
(***************************************************************************)
(* The file descriptors of the program under test, as the POSIX runtime    *)
(* keeps them (runtime/POSIX/fd.c and fd_init.c): one table per path, with *)
(* symbolic files of fixed size and concrete descriptors of the klee       *)
(* process, which every path shares and nobody closes.                     *)
(*                                                                         *)
(* A call that returns an error and changes nothing is a stuttering step;  *)
(* errno, times and owners are left out.  So are eReadable and eWriteable, *)
(* which the code sets and never tests.  Permissions are those of any      *)
(* user, a mode without its umask any of them.  The paths share the klee   *)
(* process: one may run between two system calls of another.               *)
(***************************************************************************)
EXTENDS Integers, FiniteSets, Functions

CONSTANTS
  Path,         \* execution paths
  First,        \* the path the program starts with
  SymFile,      \* the symbolic files named A, B, ...
  Stdin, Stdout, \* their symbolic files (sym_stdout, with --sym-stdout)
  Concolic,     \* the file of --xqx-sym-file
  Size,         \* the size of each file
  SymStat,      \* what the stat of a symbolic file may be
  Mode,         \* modes given to open and chmod
  MaxFds,       \* MAX_FDS
  OsFd,         \* descriptors of the klee process
  MaxFailures,  \* --max-fail
  SaveAllWrites, \* --save-all-writes
  Half,         \* off64_t holds -Half .. Half - 1
  Count,        \* byte counts given to read and write
  Offset,       \* offsets given to lseek
  DirBase,      \* where the system's directory entries start (4096)
  EntrySize,    \* sizeof(struct dirent64)
  MaxCalls,     \* bound on the calls made
  NoFile        \* a null exe_disk_file_t pointer

Perm == {"r", "w"}
Kind == {"reg", "dir", "other"}
File == SymFile \union {Stdin, Stdout, Concolic}
Fd   == 0 .. MaxFds - 1
Off  == -Half .. Half - 1

\* size_t counts of at most SSIZE_MAX, and the descriptors 0, 1 and 2 of the start.
ASSUME FilesAssumption ==
  /\ First \in Path /\ NoFile \notin File
  /\ Cardinality({Stdin, Stdout, Concolic}) = 3 /\ {Stdin, Stdout, Concolic} \cap SymFile = {}
  /\ SymStat \subseteq [perm : SUBSET Perm, kind : Kind] /\ Mode \subseteq SUBSET Perm
  /\ MaxFds \in Nat /\ MaxFds >= 3 /\ OsFd \subseteq Nat /\ 0 .. 2 \subseteq OsFd
  /\ Half \in Nat /\ Half > 1 /\ Size \in [File -> 0 .. Half - 1]
  /\ Count \subseteq 0 .. Half - 1 /\ Offset \subseteq Off
  /\ DirBase \in 1 .. Half - 1 /\ EntrySize \in Nat \ {0}
  /\ MaxFailures \in Nat /\ SaveAllWrites \in BOOLEAN /\ MaxCalls \in Nat

VARIABLES
  live,     \* the paths there are
  env,      \* __exe_env and __exe_fs of each path
  hostOpen, \* descriptors open in the klee process
  hostPos,  \* their positions
  copied,   \* what the last call copied from or to the contents of a file
  calls     \* calls made

vars == <<live, env, hostOpen, hostPos, copied, calls>>

Slot == [open : BOOLEAN, cloexec : BOOLEAN, fd : OsFd, off : Off, dfile : File \union {NoFile}]
Injected == {"read", "write", "close", "ftruncate", "getcwd"}

\* A call between two of its system calls.
Idle    == [stage |-> "none", fd |-> 0, whence |-> "set", offset |-> 0]
Pending == [stage : {"none", "seek", "dents", "tell"}, fd : Fd, whence : {"set", "cur", "end"},
            offset : Off]

Env == [fds : [Fd -> Slot],
        exists : SUBSET File,          \* files whose st_ino is not 0
        perm : [File -> SUBSET Perm],
        kind : [File -> Kind],
        written : [File -> SUBSET Nat], \* offsets of contents the program has written
        created : BOOLEAN,             \* cp_files has an entry
        maxFailures : 0 .. MaxFailures,
        failed : SUBSET Injected,      \* functions whose *_fail was the number of a call
        stdoutWrites : Nat,
        pending : Pending,
        aborted : BOOLEAN]             \* an assertion failed or a null pointer was read

NoCopy == [file |-> NoFile, from |-> 0, to |-> 0]

-------------------------------------------------------------------------------
(* Conversions, in two's complement.                                       *)

Unsigned(x) == x % (2 * Half)
Signed(x)   == ((x + Half) % (2 * Half)) - Half

Closed == [open |-> FALSE, cloexec |-> FALSE, fd |-> 0, off |-> 0, dfile |-> NoFile]

\* Descriptors 0, 1 and 2, with symbolic files behind 0 and 1.
InitialFds ==
  [i \in Fd |-> IF i > 2 THEN Closed
                ELSE [Closed EXCEPT !.open = TRUE, !.fd = i,
                                    !.dfile = IF i = 0 THEN Stdin
                                              ELSE IF i = 1 THEN Stdout ELSE NoFile]]

\* klee_init_fds.  The stat of a symbolic file is symbolic, that of the concolic file
\* the stat of ".".
Init ==
  /\ live = {First}
  /\ \E stat \in [SymFile -> SymStat] :
       env = [p \in Path |->
            [fds |-> InitialFds, exists |-> File,
             perm |-> [f \in File |-> IF f \in SymFile THEN stat[f].perm ELSE Perm],
             kind |-> [f \in File |-> IF f \in SymFile THEN stat[f].kind ELSE "dir"],
             written |-> [f \in File |-> {}], created |-> FALSE, maxFailures |-> MaxFailures,
             failed |-> {}, stdoutWrites |-> 0, pending |-> Idle, aborted |-> FALSE]]
  /\ hostOpen = 0 .. 2
  /\ hostPos = [d \in OsFd |-> 0]
  /\ copied = NoCopy
  /\ calls = 0

\* A path that calls into the runtime.
Calling(p) == p \in live /\ ~env[p].aborted /\ env[p].pending = Idle /\ calls < MaxCalls

Returns(p, e) == env' = [env EXCEPT ![p] = e] /\ calls' = calls + 1 /\ UNCHANGED live
Quiet         == copied' = NoCopy /\ UNCHANGED <<hostOpen, hostPos>>
Aborted(e)    == [e EXCEPT !.aborted = TRUE]

\* __get_file
IsOpen(e, fd)   == e.fds[fd].open
Symbolic(e, fd) == IsOpen(e, fd) /\ e.fds[fd].dfile # NoFile
Concrete(e, fd) == IsOpen(e, fd) /\ e.fds[fd].dfile = NoFile

\* Mutant of InjectFailure: the failures left are not counted down.
MarkFailure(e, f) == [e EXCEPT !.failed = @ \union {f}]

\* *_fail is symbolic: it is the number of at most one call of its function.
MayFail(e, f)       == e.maxFailures > 0 /\ f \notin e.failed
InjectFailure(e, f) == [e EXCEPT !.maxFailures = @ - 1, !.failed = @ \union {f}]

LowestFree(e, fd) == ~IsOpen(e, fd) /\ \A i \in 0 .. fd - 1 : IsOpen(e, i)

(* Opening and closing.                                                    *)

\* Mutant of Matched: the inode is not looked at.
AnyMatch(e) == SymFile \union {NoFile}

\* The loop of __xqx_get_sym_file over the symbolic files: c, which is compared with
\* their names, is never assigned, so that any of them may be found, or none.
Matched(e) == (SymFile \intersect e.exists) \union {NoFile}

\* __xqx_get_sym_file in open(): the concolic file is created when it is opened first; found
\* again, it is not returned.  Only a name that starts with a symbolic byte gets to the loop.
FileOfName(e, name) ==
  CASE name = "symbolic" -> Matched(e)
    [] name = "concolic" -> IF e.created THEN {NoFile} ELSE {Concolic, NoFile}
    [] OTHER             -> {NoFile}

\* has_permission: O_RDONLY is 0, and reading is refused where it is allowed.
HasPermission(access, perm) ==
  /\ ~(access = "rdwr" /\ "r" \in perm)
  /\ access # "rdonly" => "w" \in perm

\* The slot of an open() that finds file f; the mode is 0 without O_CREAT.
OpenSymbolic(p, fd, f, access, creat, excl, mode) ==
  LET e    == [env[p] EXCEPT !.fds[fd] = [Closed EXCEPT !.dfile = f],
                             !.created = @ \/ f = Concolic]
      opens == ~excl /\ HasPermission(access, e.perm[f])
  IN  /\ mode # {} => creat
      /\ Returns(p, IF opens THEN [e EXCEPT !.fds[fd].open = TRUE, !.perm[f] = mode] ELSE e)
      /\ Quiet

\* The slot of an open() or openat() that the system answers with descriptor d, or fails.
OpenConcrete(p, fd) ==
  /\ \/ \E d \in OsFd \ hostOpen :
          /\ \A n \in OsFd : n < d => n \in hostOpen
          /\ Returns(p, [env[p] EXCEPT !.fds[fd] = [Closed EXCEPT !.open = TRUE, !.fd = d]])
          /\ hostOpen' = hostOpen \union {d}
          /\ hostPos' = [hostPos EXCEPT ![d] = 0]
     \/ /\ Returns(p, [env[p] EXCEPT !.fds[fd] = Closed])
        /\ UNCHANGED <<hostOpen, hostPos>>
  /\ copied' = NoCopy

Open(p, fd, name, access, creat, excl, mode) ==
  /\ Calling(p) /\ LowestFree(env[p], fd)
  /\ \E f \in FileOfName(env[p], name) :
       IF f = NoFile THEN OpenConcrete(p, fd)
       ELSE OpenSymbolic(p, fd, f, access, creat, excl, mode)

\* __fd_openat looks for a symbolic file with any name, and opens the one that open() finds.
OpenAt(p, fd, name, access, creat, excl, mode) ==
  /\ Calling(p) /\ LowestFree(env[p], fd)
  /\ \/ NoFile \in Matched(env[p]) /\ OpenConcrete(p, fd)
     \/ Matched(env[p]) # {NoFile} /\ Open(p, fd, name, access, creat, excl, mode)

\* Mutant of ClosedIn: the descriptor of the klee process is closed as well.
ClosesHost(d) == hostOpen \ {d}

\* close() leaves the descriptor of the klee process open (#if 0): other paths have it.
ClosedIn(d) == hostOpen

\* What close(fd) may make of the runtime's data.
CloseOutcomes(e, fd) ==
  {[e EXCEPT !.fds[fd] = Closed]}
    \union {InjectFailure(x, "close") : x \in {y \in {e} : MayFail(y, "close")}}

Close(p, fd) ==
  /\ Calling(p) /\ IsOpen(env[p], fd)
  /\ \E e \in CloseOutcomes(env[p], fd) : Returns(p, e)
  /\ hostOpen' = IF Concrete(env[p], fd) THEN ClosedIn(env[p].fds[fd].fd) ELSE hostOpen
  /\ copied' = NoCopy
  /\ UNCHANGED hostPos

\* dup2 closes newfd, whether or not that fails, also when it is oldfd, and copies the slot
\* with its offset: two descriptors of a file do not share one.
DupOutcomes(e, oldfd, newfd) ==
  {[x EXCEPT !.fds[newfd] = [x.fds[oldfd] EXCEPT !.cloexec = FALSE]] :
     x \in IF IsOpen(e, newfd) THEN CloseOutcomes(e, newfd) ELSE {e}}

Dup2(p, oldfd, newfd) ==
  /\ Calling(p) /\ IsOpen(env[p], oldfd)
  /\ \E e \in DupOutcomes(env[p], oldfd, newfd) : Returns(p, e)
  /\ Quiet

Dup(p, oldfd) == \E fd \in Fd : LowestFree(env[p], fd) /\ Dup2(p, oldfd, fd)

-------------------------------------------------------------------------------
(* Reading, writing and seeking.                                           *)

\* Injected failures of calls that change nothing else.
Fails(p, f) ==
  /\ MayFail(env[p], f)
  /\ Returns(p, InjectFailure(env[p], f))
  /\ Quiet

Copies(f, from, n) ==
  /\ copied' = IF n = 0 THEN NoCopy ELSE [file |-> f, from |-> from, to |-> from + n]
  /\ UNCHANGED <<hostOpen, hostPos>>

\* How many bytes of a symbolic file a read copies: the sum is taken unsigned.
ReadLength(slot, count) ==
  IF Unsigned(slot.off + count) > Size[slot.dfile] THEN Size[slot.dfile] - slot.off ELSE count

ReadSymbolic(p, fd, count) ==
  LET slot == env[p].fds[fd]
      n    == ReadLength(slot, count)
  IN  IF slot.off < 0 THEN Returns(p, Aborted(env[p])) /\ Quiet
      ELSE /\ slot.off <= Size[slot.dfile]
           /\ Returns(p, [env[p] EXCEPT !.fds[fd].off = Signed(@ + n)])
           /\ Copies(slot.dfile, slot.off, n)

\* pread at the offset of the slot, save for the standard input of the process.
ReadConcrete(p, fd, n) ==
  LET slot == env[p].fds[fd]
      std  == slot.fd = 0
  IN  /\ Signed(slot.off + n) >= slot.off /\ (std => hostPos[0] + n < Half)
      /\ Returns(p, [env[p] EXCEPT !.fds[fd].off = IF std THEN @ ELSE @ + n])
      /\ hostPos' = [hostPos EXCEPT ![slot.fd] = IF std THEN @ + n ELSE @]
      /\ copied' = NoCopy
      /\ UNCHANGED hostOpen

Read(p, fd, count) ==
  /\ Calling(p) /\ IsOpen(env[p], fd) /\ count > 0
  /\ \/ Fails(p, "read")
     \/ Symbolic(env[p], fd) /\ ReadSymbolic(p, fd, count)
     \/ Concrete(env[p], fd) /\ \E n \in 0 .. count : ReadConcrete(p, fd, n)

\* How many bytes of a symbolic file a write copies.
WriteLength(slot, count) ==
  IF Unsigned(slot.off + count) <= Size[slot.dfile] THEN count
  ELSE IF slot.off < Size[slot.dfile] THEN Size[slot.dfile] - slot.off ELSE 0

\* Any descriptor of the symbolic stdout counts.
CountsAsStdout(slot, fd) == slot.dfile = Stdout

\* The offset moves by the whole count.  Writing past the end with save_all_writes aborts.
WriteSymbolic(p, fd, count) ==
  LET slot == env[p].fds[fd]
      n    == WriteLength(slot, count)
  IN  IF Unsigned(slot.off + count) > Size[slot.dfile] /\ SaveAllWrites
      THEN Returns(p, Aborted(env[p])) /\ Quiet
      ELSE /\ Returns(p, [env[p] EXCEPT
                !.fds[fd].off = Signed(@ + count),
                !.written[slot.dfile] = @ \union (slot.off .. slot.off + n - 1),
                !.stdoutWrites = IF CountsAsStdout(slot, fd) THEN @ + n ELSE @])
           /\ Copies(slot.dfile, slot.off, n)

\* pwrite at the offset of the slot, save for the standard outputs of the process.
WriteConcrete(p, fd, n) ==
  LET slot == env[p].fds[fd]
  IN  /\ Signed(slot.off + n) >= slot.off
      /\ Returns(p, [env[p] EXCEPT !.fds[fd].off = IF slot.fd \in {1, 2} THEN @ ELSE @ + n])
      /\ Quiet

Write(p, fd, count) ==
  /\ Calling(p) /\ IsOpen(env[p], fd)
  /\ \/ Fails(p, "write")
     \/ Symbolic(env[p], fd) /\ WriteSymbolic(p, fd, count)
     \/ Concrete(env[p], fd) /\ \E n \in 0 .. count : WriteConcrete(p, fd, n)

\* Where a seek goes; a signed sum that overflows wraps.
Target(whence, offset, at, size) ==
  CASE whence = "set" -> offset
    [] whence = "cur" -> Signed(at + offset)
    [] whence = "end" -> Signed(size + offset)

\* Mutant of SeekTo: a negative offset is taken.
SeekAnywhere(e, fd, off) == [e EXCEPT !.fds[fd].off = off]

\* EINVAL for a negative offset.
SeekTo(e, fd, off) == IF off < 0 THEN e ELSE [e EXCEPT !.fds[fd].off = off]

SeekSymbolic(p, fd, whence, offset) ==
  LET slot == env[p].fds[fd]
  IN  /\ Returns(p, SeekTo(env[p], fd, Target(whence, offset, slot.off, Size[slot.dfile])))
      /\ Quiet

\* A concrete seek that is not absolute first sets the position of the shared descriptor
\* to that of the slot, in a system call of its own.
SeekConcrete(p, fd, whence, offset) ==
  LET slot == env[p].fds[fd]
      at   == IF whence = "set" THEN offset ELSE slot.off
  IN  /\ at >= 0
      /\ Returns(p, IF whence = "set" THEN [env[p] EXCEPT !.fds[fd].off = at]
                    ELSE [env[p] EXCEPT !.pending = [stage |-> "seek", fd |-> fd,
                                                     whence |-> whence, offset |-> offset]])
      /\ hostPos' = [hostPos EXCEPT ![slot.fd] = at]
      /\ copied' = NoCopy
      /\ UNCHANGED hostOpen

Lseek(p, fd, whence, offset) ==
  /\ Calling(p)
  /\ \/ Symbolic(env[p], fd) /\ SeekSymbolic(p, fd, whence, offset)
     \/ Concrete(env[p], fd) /\ SeekConcrete(p, fd, whence, offset)

\* A path goes on with its call: the position is as the other paths have left it.
Resumes(p, stage) == p \in live /\ env[p].pending.stage = stage

\* The second system call of a seek, on a file of any size.
SeekSecond(p, size) ==
  LET call == env[p].pending
      d    == env[p].fds[call.fd].fd
      at   == Target(call.whence, call.offset, hostPos[d], size)
  IN  /\ Resumes(p, "seek")
      /\ env' = [env EXCEPT ![p] = [SeekTo(env[p], call.fd, at) EXCEPT !.pending = Idle]]
      /\ hostPos' = [hostPos EXCEPT ![d] = IF at < 0 THEN @ ELSE at]
      /\ copied' = NoCopy
      /\ UNCHANGED <<live, hostOpen, calls>>

-------------------------------------------------------------------------------
(* Directories, permissions and names.                                     *)

\* Offsets below DirBase are in the directory of symbolic files, EntrySize apart; one
\* call returns them all and goes to where the system's entries start, or as far as the
\* buffer.
GetdentsOwn(p, fd, count) ==
  LET off == env[p].fds[fd].off
      i   == off \div EntrySize
  IN  /\ off < DirBase /\ i * EntrySize = off /\ i <= Cardinality(SymFile)
      /\ Returns(p, [env[p] EXCEPT !.fds[fd].off = IF count >= DirBase THEN DirBase ELSE count])
      /\ Quiet

\* The system's entries take three system calls, the first to set the position.
GetdentsHost(p, fd) ==
  LET slot == env[p].fds[fd]
  IN  /\ slot.off >= DirBase
      /\ Returns(p, [env[p] EXCEPT !.pending = [Idle EXCEPT !.stage = "dents", !.fd = fd]])
      /\ hostPos' = [hostPos EXCEPT ![slot.fd] = slot.off - DirBase]
      /\ copied' = NoCopy
      /\ UNCHANGED hostOpen

Getdents(p, fd, count) ==
  /\ Calling(p) /\ Concrete(env[p], fd)
  /\ GetdentsOwn(p, fd, count) \/ GetdentsHost(p, fd)

\* getdents64 reads n entries, or fails.
DentsSecond(p, n) ==
  LET d == env[p].fds[env[p].pending.fd].fd
  IN  /\ Resumes(p, "dents")
      /\ \/ /\ hostPos[d] + n + DirBase < Half
            /\ env' = [env EXCEPT ![p].pending.stage = "tell"]
            /\ hostPos' = [hostPos EXCEPT ![d] = @ + n]
         \/ /\ env' = [env EXCEPT ![p].pending = Idle]
            /\ UNCHANGED hostPos
      /\ copied' = NoCopy
      /\ UNCHANGED <<live, hostOpen, calls>>

\* The new offset is the position of the shared descriptor.
DentsThird(p) ==
  LET fd == env[p].pending.fd
  IN  /\ Resumes(p, "tell")
      /\ env' = [env EXCEPT
           ![p] = [env[p] EXCEPT !.fds[fd].off = Signed(hostPos[env[p].fds[fd].fd] + DirBase),
                                 !.pending = Idle]]
      /\ Quiet
      /\ UNCHANGED <<live, calls>>

\* __df_chmod: EPERM unless the symbolic owner is the user.
ChmodOutcomes(e, f, perm) == {e, [e EXCEPT !.perm[f] = perm]}

\* chmod_fail is never allocated: with --max-fail the test for a failure reads a null pointer.
Chmod(p, perm) ==
  /\ Calling(p)
  /\ \/ env[p].maxFailures > 0 /\ Returns(p, Aborted(env[p]))
     \/ /\ env[p].maxFailures = 0
        /\ \E f \in Matched(env[p]) \ {NoFile} :
             \E e \in ChmodOutcomes(env[p], f, perm) : Returns(p, e)
  /\ Quiet

\* Likewise fchmod_fail.
Fchmod(p, fd, perm) ==
  /\ Calling(p) /\ IsOpen(env[p], fd)
  /\ \/ env[p].maxFailures > 0 /\ Returns(p, Aborted(env[p]))
     \/ /\ env[p].maxFailures = 0 /\ Symbolic(env[p], fd)
        /\ \E e \in ChmodOutcomes(env[p], env[p].fds[fd].dfile, perm) : Returns(p, e)
  /\ Quiet

\* A symbolic file is not truncated (EIO), nor is a concrete one a file of the model.
Ftruncate(p, fd) == Calling(p) /\ IsOpen(env[p], fd) /\ Fails(p, "ftruncate")

Getcwd(p) == Calling(p) /\ Fails(p, "getcwd")

\* F_SETFD of a symbolic file.
Fcntl(p, fd, cloexec) ==
  /\ Calling(p) /\ Symbolic(env[p], fd)
  /\ Returns(p, [env[p] EXCEPT !.fds[fd].cloexec = cloexec])
  /\ Quiet

\* rmdir, unlink and unlinkat of a symbolic file: its inode is 0 from now on, open
\* descriptors keep the file.
Remove(p, kind) ==
  /\ Calling(p)
  /\ \E f \in Matched(env[p]) \ {NoFile} :
       /\ env[p].kind[f] = kind
       /\ Returns(p, [env[p] EXCEPT !.exists = @ \ {f}])
  /\ Quiet

Rmdir(p)    == Remove(p, "dir")
Unlink(p)   == Remove(p, "reg")
Unlinkat(p) == Remove(p, "reg")

\* A path forks on a symbolic condition; the new path has its own table and files.
Fork(p, q) ==
  /\ p \in live /\ ~env[p].aborted /\ env[p].pending = Idle /\ q \in Path \ live
  /\ live' = live \union {q}
  /\ env' = [env EXCEPT ![q] = env[p]]
  /\ Quiet
  /\ UNCHANGED calls

-------------------------------------------------------------------------------

Opening(p, fd) ==
  \E name \in {"symbolic", "concolic", "other"}, access \in {"rdonly", "wronly", "rdwr"},
     creat, excl \in BOOLEAN, mode \in Mode :
    Open(p, fd, name, access, creat, excl, mode) \/ OpenAt(p, fd, name, access, creat, excl, mode)

Transferring(p, fd) ==
  \/ \E count \in Count : Read(p, fd, count) \/ Write(p, fd, count) \/ Getdents(p, fd, count)
  \/ \E whence \in {"set", "cur", "end"}, offset \in Offset : Lseek(p, fd, whence, offset)

Managing(p, fd) ==
  \/ Close(p, fd) \/ Dup(p, fd) \/ Ftruncate(p, fd)
  \/ \E newfd \in Fd : Dup2(p, fd, newfd)
  \/ \E cloexec \in BOOLEAN : Fcntl(p, fd, cloexec)
  \/ \E perm \in Mode : Fchmod(p, fd, perm)

Naming(p) ==
  (\E perm \in Mode : Chmod(p, perm)) \/ Getcwd(p) \/ Rmdir(p) \/ Unlink(p) \/ Unlinkat(p)

\* A call of path p.
Call(p) ==
  /\ Calling(p)
  /\ \/ Naming(p)
     \/ \E fd \in Fd : LowestFree(env[p], fd) /\ Opening(p, fd)
     \/ \E fd \in Fd : IsOpen(env[p], fd) /\ (Transferring(p, fd) \/ Managing(p, fd))

\* A system call in a call of path p.
Resume(p) ==
  /\ p \in live /\ env[p].pending # Idle
  /\ (\E n \in Count : SeekSecond(p, n) \/ DentsSecond(p, n)) \/ DentsThird(p)

Next == \E p \in Path : Call(p) \/ Resume(p) \/ \E q \in Path : Fork(p, q)

Spec == Init /\ [][Next]_vars

-------------------------------------------------------------------------------
(* Properties.                                                             *)

\* A concrete descriptor of a path is open in the klee process, whatever the other paths
\* that share it, and the descriptors duplicated from it, have closed (close).
HostFilesOpen ==
  \A p \in live, fd \in Fd : Concrete(env[p], fd) => env[p].fds[fd].fd \in hostOpen

\* A path has at most as many injected failures as --max-fail allows, forks included.
FailuresBounded == \A p \in live : Cardinality(env[p].failed) <= MaxFailures

\* Every byte of the symbolic stdout that a path has written is counted in stdout_writes,
\* through whichever descriptor it was written.
StdoutCounted ==
  \A p \in live : Cardinality(env[p].written[Stdout]) <= env[p].stdoutWrites

\* read and write copy within the contents of the symbolic file, at any offset a sequence
\* of seeks and writes has led to short of the end of off64_t, where a write wraps it.
CopiesWithin ==
  copied.file # NoFile =>
    0 <= copied.from /\ copied.from <= copied.to /\ copied.to <= Size[copied.file]

\* File f cannot be reached on path p.
Gone(p, f) ==
  f \notin env[p].exists /\ \A fd \in Fd : ~(IsOpen(env[p], fd) /\ env[p].fds[fd].dfile = f)

\* A removed file is gone for good when its last descriptor is closed: no name, dup or
\* fork leads to it again.
RemovedFilesGone ==
  [][\A p \in live, f \in File : Gone(p, f) => Gone(p, f)']_vars
===============================================================================
