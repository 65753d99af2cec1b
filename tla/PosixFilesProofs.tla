---------------------------- MODULE PosixFilesProofs ----------------------------
(***************************************************************************)
(* The POSIX runtime for any number of paths, files and descriptors.       *)
(*                                                                         *)
(* Offsets of off64_t wrap (Signed), so in some instances a slot with a    *)
(* negative offset is written before the start of its file: IInv bounds    *)
(* neither offsets nor positions.  What is copied is proved to be within   *)
(* the file for the behaviors without such a write (ShortOfEnd).           *)
(***************************************************************************)
EXTENDS PosixFiles, FiniteSetTheorems, TLAPS

AnySlot == [open : BOOLEAN, cloexec : BOOLEAN, fd : OsFd, off : Int, dfile : File \union {NoFile}]

AnyCall == [stage : {"none", "seek", "dents", "tell"}, fd : Fd, whence : {"set", "cur", "end"},
            offset : Int]

Shape == [fds : [Fd -> AnySlot],
          exists : SUBSET File,
          perm : [File -> SUBSET Perm],
          kind : [File -> Kind],
          written : [File -> SUBSET Int],
          created : BOOLEAN,
          maxFailures : Nat,
          failed : SUBSET Injected,
          stdoutWrites : Nat,
          pending : AnyCall,
          aborted : BOOLEAN]

\* The concrete descriptors of a table are among those open in the klee process.
Backed(fds, H) == \A fd \in Fd : fds[fd].open /\ fds[fd].dfile = NoFile => fds[fd].fd \in H

\* The failures injected and those left are those that were allowed.
Allowed(e) == IsFiniteSet(e.failed) /\ e.maxFailures + Cardinality(e.failed) <= MaxFailures

Counted(e) ==
  /\ IsFiniteSet(e.written[Stdout])
  /\ Cardinality(e.written[Stdout]) <= e.stdoutWrites

\* What holds of the data of a path at any time.
Sound(e, H) ==
  /\ e \in Shape
  /\ Backed(e.fds, H)
  /\ Allowed(e)
  /\ Counted(e)
  /\ File \ SymFile \subseteq e.exists

\* Gone of PosixFiles, of the data of a path.
GoneIn(e, f) == f \notin e.exists /\ \A fd \in Fd : ~(e.fds[fd].open /\ e.fds[fd].dfile = f)

\* A step from e to d leaves removed files removed.
Keeps(e, d) == \A f \in File : GoneIn(e, f) => GoneIn(d, f)

IInv ==
  /\ live \subseteq Path
  /\ env \in [Path -> Shape]
  /\ hostOpen \subseteq OsFd
  /\ hostPos \in [OsFd -> Int]
  /\ \A p \in Path : Sound(env[p], hostOpen)

-------------------------------------------------------------------------------
(* The operations on the data of one path.                                 *)

\* The files.
LEMMA Files ==
  /\ Stdin \in File /\ Stdout \in File /\ Concolic \in File /\ SymFile \subseteq File
  /\ NoFile \notin File
  /\ {Stdin, Stdout, Concolic} = File \ SymFile
  /\ MaxFds \in Nat /\ MaxFds >= 3 /\ 0 \in OsFd /\ 1 \in OsFd /\ 2 \in OsFd /\ OsFd \subseteq Nat
  /\ Half \in Nat /\ Half > 1 /\ MaxFailures \in Nat
  /\ \A f \in File : Size[f] \in Nat
  /\ \A n \in Count : n \in Nat
  /\ \A n \in Offset : n \in Int
<1>1. {Stdin, Stdout, Concolic} = File \ SymFile
  BY FilesAssumption DEF File
<1> QED
  BY <1>1, FilesAssumption DEF File, Off

\* Conversions give integers.
LEMMA SignedInt ==
  ASSUME NEW x \in Int
  PROVE  Signed(x) \in Int /\ Unsigned(x) \in Int
BY Files DEF Signed, Unsigned

\* Another slot in the table: it is closed, or that of a file that can be opened, or a
\* concrete one that is backed.
LEMMA SlotChanged ==
  ASSUME NEW e, NEW H, Sound(e, H), NEW fd \in Fd, NEW slot \in AnySlot,
         slot.open /\ slot.dfile = NoFile => slot.fd \in H,
         slot.open /\ slot.dfile # NoFile =>
           \/ slot.dfile \in e.exists
           \/ \E i \in Fd : e.fds[i].open /\ e.fds[i].dfile = slot.dfile
  PROVE  Sound([e EXCEPT !.fds[fd] = slot], H) /\ Keeps(e, [e EXCEPT !.fds[fd] = slot])
<1> DEFINE d == [e EXCEPT !.fds[fd] = slot]
<1>1. e \in Shape
  BY DEF Sound
<1>2. d = [e EXCEPT !.fds = [e.fds EXCEPT ![fd] = slot]]
  BY <1>1 DEF Shape
<1>3. d \in Shape
  BY <1>1, <1>2 DEF Shape
<1>4. /\ d.fds = [e.fds EXCEPT ![fd] = slot]
      /\ d.exists = e.exists /\ d.maxFailures = e.maxFailures /\ d.failed = e.failed
      /\ d.written = e.written /\ d.stdoutWrites = e.stdoutWrites
  BY <1>1, <1>2 DEF Shape
<1>5. e.fds \in [Fd -> AnySlot]
  BY <1>1 DEF Shape
<1> HIDE DEF d
<1>6. Backed(d.fds, H)
  BY <1>4, <1>5 DEF Backed, Sound
<1>7. Keeps(e, d)
  <2> SUFFICES ASSUME NEW f \in File, GoneIn(e, f), NEW i \in Fd, d.fds[i].open, d.fds[i].dfile = f
               PROVE  FALSE
    BY <1>4 DEF Keeps, GoneIn
  <2> QED
    BY <1>4, <1>5, Files DEF GoneIn
<1>8. Sound(d, H)
  BY <1>3, <1>4, <1>6 DEF Sound, Allowed, Counted
<1> QED
  BY <1>7, <1>8 DEF d

\* Data that none of the properties looks at.
LEMMA Unrelated ==
  ASSUME NEW e, NEW H, Sound(e, H), NEW d \in Shape,
         d.fds = e.fds, d.exists = e.exists, d.maxFailures = e.maxFailures,
         d.failed = e.failed, d.written = e.written, d.stdoutWrites = e.stdoutWrites
  PROVE  Sound(d, H) /\ Keeps(e, d)
BY DEF Sound, Keeps, GoneIn, Backed, Allowed, Counted

\* A failure is injected in a function that has not failed, and counted down.
LEMMA Injects ==
  ASSUME NEW e, NEW H, Sound(e, H), NEW f \in Injected, MayFail(e, f)
  PROVE  Sound(InjectFailure(e, f), H) /\ Keeps(e, InjectFailure(e, f))
<1> DEFINE d == InjectFailure(e, f)
<1>1. e \in Shape /\ e.maxFailures > 0 /\ f \notin e.failed /\ IsFiniteSet(e.failed)
  BY DEF Sound, MayFail, Allowed
<1>2. /\ d.maxFailures = e.maxFailures - 1 /\ d.failed = e.failed \union {f}
      /\ d.fds = e.fds /\ d.exists = e.exists /\ d.written = e.written
      /\ d.stdoutWrites = e.stdoutWrites
  BY <1>1 DEF InjectFailure, Shape
<1>3. d \in Shape
  <2>1. e.maxFailures - 1 \in Nat /\ e.failed \union {f} \in SUBSET Injected
    BY <1>1 DEF Shape
  <2> QED
    BY <1>1, <2>1 DEF InjectFailure, Shape
<1> HIDE DEF d
<1>4. IsFiniteSet(d.failed) /\ Cardinality(d.failed) = Cardinality(e.failed) + 1
  <2>1. IsFiniteSet(e.failed) /\ f \notin e.failed
    BY <1>1
  <2>2. /\ IsFiniteSet(e.failed \union {f})
        /\ Cardinality(e.failed \union {f}) = Cardinality(e.failed) + 1
    BY <2>1, FS_AddElement
  <2>3. d.failed = e.failed \union {f}
    BY <1>2
  <2> QED
    BY <2>2, <2>3
<1>5. Allowed(d)
  <2>1. e.maxFailures \in Nat /\ Cardinality(e.failed) \in Nat
    BY <1>1, FS_CardinalityType DEF Shape
  <2> QED
    BY <1>2, <1>4, <2>1, Files DEF Allowed, Sound
<1>6. Sound(d, H) /\ Keeps(e, d)
  BY <1>2, <1>3, <1>5 DEF Sound, Keeps, GoneIn, Backed, Counted
<1> QED
  BY <1>6 DEF d

\* A symbolic file that is removed: only files named A, B, ... are.
LEMMA Removes ==
  ASSUME NEW e, NEW H, Sound(e, H), NEW f \in SymFile
  PROVE  LET d == [e EXCEPT !.exists = @ \ {f}] IN Sound(d, H) /\ Keeps(e, d)
<1> DEFINE d == [e EXCEPT !.exists = @ \ {f}]
<1>1. e \in Shape
  BY DEF Sound
<1>2. d \in Shape /\ d.exists = e.exists \ {f}
      /\ d.fds = e.fds /\ d.maxFailures = e.maxFailures /\ d.failed = e.failed
      /\ d.written = e.written /\ d.stdoutWrites = e.stdoutWrites
  BY <1>1 DEF Shape
<1> HIDE DEF d
<1>3. Sound(d, H) /\ Keeps(e, d)
  BY <1>2 DEF Sound, Keeps, GoneIn, Backed, Allowed, Counted
<1> QED
  BY <1>3 DEF d

\* What is written to a file at its offset; bytes of the symbolic stdout are counted.
LEMMA Writes ==
  ASSUME NEW e, NEW H, Sound(e, H), NEW f \in File, NEW a \in Int, NEW n \in Nat,
         NEW out, out = IF f = Stdout THEN e.stdoutWrites + n ELSE e.stdoutWrites
  PROVE  LET d == [e EXCEPT !.written[f] = @ \union (a .. a + n - 1), !.stdoutWrites = out]
         IN  Sound(d, H) /\ Keeps(e, d)
<1> DEFINE I == a .. a + n - 1
           d == [e EXCEPT !.written[f] = @ \union I, !.stdoutWrites = out]
<1>1. e \in Shape /\ IsFiniteSet(e.written[Stdout])
      /\ Cardinality(e.written[Stdout]) <= e.stdoutWrites
  BY DEF Sound, Counted
<1>2. IsFiniteSet(I) /\ Cardinality(I) = n /\ I \subseteq Int
  <2>1. Cardinality(I) = IF a > a + n - 1 THEN 0 ELSE (a + n - 1) - a + 1
    BY FS_Interval
  <2> QED
    BY <2>1, FS_Interval
<1> HIDE DEF I
<1>3. out \in Nat
  BY <1>1 DEF Shape
<1>4. d = [e EXCEPT !.written = [e.written EXCEPT ![f] = @ \union I], !.stdoutWrites = out]
  BY <1>1 DEF Shape
<1>5. d \in Shape
  BY <1>1, <1>2, <1>3, <1>4 DEF Shape
<1>6. /\ d.written = [e.written EXCEPT ![f] = @ \union I] /\ d.stdoutWrites = out
      /\ d.fds = e.fds /\ d.exists = e.exists /\ d.maxFailures = e.maxFailures
      /\ d.failed = e.failed
  BY <1>1, <1>4 DEF Shape
<1>7. e.written \in [File -> SUBSET Int] /\ e.stdoutWrites \in Nat
  BY <1>1 DEF Shape
<1> HIDE DEF d
<1>8. Counted(d)
  <2>1. CASE f # Stdout
    BY <1>1, <1>6, <1>7, <2>1, Files DEF Counted
  <2>2. CASE f = Stdout
    <3> DEFINE W == e.written[Stdout]
    <3>1. d.written[Stdout] = W \union I
      BY <1>6, <1>7, <2>2, Files
    <3>2. /\ IsFiniteSet(W \union I)
          /\ Cardinality(W \union I) = Cardinality(W) + Cardinality(I) - Cardinality(W \cap I)
      BY <1>1, <1>2, FS_Union
    <3>3. Cardinality(W) \in Nat /\ Cardinality(W \cap I) \in Nat
      BY <1>1, <1>2, FS_CardinalityType, FS_Intersection
    <3> QED
      BY <1>1, <1>2, <1>6, <1>7, <2>2, <3>1, <3>2, <3>3 DEF Counted
  <2> QED
    BY <2>1, <2>2
<1>9. Sound(d, H) /\ Keeps(e, d)
  BY <1>5, <1>6, <1>8 DEF Sound, Keeps, GoneIn, Backed, Allowed
<1> QED
  BY <1>9 DEF d, I

\* One operation after another, and more descriptors of the klee process.
LEMMA KeepsBoth ==
  ASSUME NEW e, NEW d, NEW c, Keeps(e, d), Keeps(d, c)
  PROVE  Keeps(e, c)
BY DEF Keeps

\* A path stays sound while more descriptors are open in the process.
LEMMA MoreOpen ==
  ASSUME NEW e, NEW H, NEW G, Sound(e, H), H \subseteq G
  PROVE  Sound(e, G) /\ Keeps(e, e)
BY DEF Sound, Backed, Keeps

\* A step of path p that is sound on its data.
LEMMA PathStep ==
  ASSUME IInv, NEW p \in Path, NEW d, env' = [env EXCEPT ![p] = d],
         Sound(d, hostOpen'), Keeps(env[p], d),
         hostOpen \subseteq hostOpen', hostOpen' \subseteq OsFd,
         hostPos' \in [OsFd -> Int], live' = live
  PROVE  IInv' /\ \A q \in live, f \in File : Gone(q, f) => Gone(q, f)'
<1>1. d \in Shape
  BY DEF Sound
<1>2. env' \in [Path -> Shape]
  BY <1>1 DEF IInv
<1>3. ASSUME NEW q \in Path PROVE Sound(env'[q], hostOpen') /\ Keeps(env[q], env'[q])
  BY MoreOpen DEF IInv
<1>4. ASSUME NEW q \in live, NEW f \in File, Gone(q, f) PROVE Gone(q, f)'
  <2>1. q \in Path
    BY DEF IInv
  <2> QED
    BY <1>3, <1>4, <2>1 DEF Gone, IsOpen, Keeps, GoneIn
<1> QED
  BY <1>2, <1>3, <1>4 DEF IInv

-------------------------------------------------------------------------------
(* The calls.                                                              *)

\* What is shown of every step.
Preserved == IInv' /\ \A q \in live, f \in File : Gone(q, f) => Gone(q, f)'

\* A call that changes the data of its path alone.
LEMMA QuietStep ==
  ASSUME IInv, NEW p \in Path, NEW d, Returns(p, d), hostOpen' = hostOpen,
         hostPos' \in [OsFd -> Int], Sound(d, hostOpen), Keeps(env[p], d)
  PROVE  Preserved
BY PathStep DEF Returns, Preserved, IInv

\* An assertion that fails.
LEMMA Aborts ==
  ASSUME NEW e, NEW H, Sound(e, H)
  PROVE  Sound(Aborted(e), H) /\ Keeps(e, Aborted(e))
<1>1. e \in Shape
  BY DEF Sound
<1>2. Aborted(e) \in Shape
  BY <1>1 DEF Aborted, Shape
<1>3. /\ Aborted(e).fds = e.fds /\ Aborted(e).exists = e.exists
      /\ Aborted(e).maxFailures = e.maxFailures /\ Aborted(e).failed = e.failed
      /\ Aborted(e).written = e.written /\ Aborted(e).stdoutWrites = e.stdoutWrites
  BY <1>1 DEF Aborted, Shape
<1> QED
  BY <1>2, <1>3, Unrelated

\* The offset of a slot.
LEMMA OffsetMoves ==
  ASSUME NEW e, NEW H, Sound(e, H), NEW fd \in Fd, NEW o \in Int
  PROVE  LET d == [e EXCEPT !.fds[fd].off = o]
         IN  /\ Sound(d, H) /\ Keeps(e, d)
             /\ d.written = e.written /\ d.stdoutWrites = e.stdoutWrites
<1> DEFINE slot == [e.fds[fd] EXCEPT !.off = o]
<1>1. e \in Shape /\ e.fds \in [Fd -> AnySlot] /\ e.fds[fd] \in AnySlot
  BY DEF Sound, Shape
<1>2. /\ slot \in AnySlot
      /\ slot.open = e.fds[fd].open /\ slot.dfile = e.fds[fd].dfile /\ slot.fd = e.fds[fd].fd
  BY <1>1 DEF AnySlot
<1>3. [e EXCEPT !.fds[fd].off = o] = [e EXCEPT !.fds[fd] = slot]
  BY <1>1 DEF Shape
<1> HIDE DEF slot
<1>4. Sound([e EXCEPT !.fds[fd] = slot], H) /\ Keeps(e, [e EXCEPT !.fds[fd] = slot])
  BY <1>2, SlotChanged DEF Sound, Backed
<1>5. LET d == [e EXCEPT !.fds[fd] = slot]
      IN  d.written = e.written /\ d.stdoutWrites = e.stdoutWrites
  BY <1>1 DEF Shape
<1> QED
  BY <1>3, <1>4, <1>5

\* close: the slot is closed, or the failure of close is injected.
LEMMA Closes ==
  ASSUME NEW e, NEW H, Sound(e, H), NEW fd \in Fd, NEW d \in CloseOutcomes(e, fd)
  PROVE  Sound(d, H) /\ Keeps(e, d)
<1>1. CASE d = [e EXCEPT !.fds[fd] = Closed]
  <2>1. Closed \in AnySlot /\ ~Closed.open
    BY Files DEF Closed, AnySlot
  <2> QED
    BY <1>1, <2>1, SlotChanged
<1>2. CASE MayFail(e, "close") /\ d = InjectFailure(e, "close")
  BY <1>2, Injects DEF Injected
<1> QED
  BY <1>1, <1>2 DEF CloseOutcomes

\* dup2: what is copied is the slot of oldfd after newfd was closed.
LEMMA Duplicates ==
  ASSUME NEW e, NEW H, Sound(e, H), NEW oldfd \in Fd, NEW newfd \in Fd,
         NEW d \in DupOutcomes(e, oldfd, newfd)
  PROVE  Sound(d, H) /\ Keeps(e, d)
<1>1. PICK x : /\ x \in IF IsOpen(e, newfd) THEN CloseOutcomes(e, newfd) ELSE {e}
               /\ d = [x EXCEPT !.fds[newfd] = [x.fds[oldfd] EXCEPT !.cloexec = FALSE]]
  BY DEF DupOutcomes
<1>2. Sound(x, H) /\ Keeps(e, x)
  <2>1. CASE x \in CloseOutcomes(e, newfd)
    BY <2>1, Closes
  <2>2. CASE x = e
    BY <2>2 DEF Keeps
  <2> QED
    BY <1>1, <2>1, <2>2
<1> DEFINE slot == [x.fds[oldfd] EXCEPT !.cloexec = FALSE]
<1>3. x.fds[oldfd] \in AnySlot
  BY <1>2 DEF Sound, Shape
<1>4. /\ slot \in AnySlot /\ slot.open = x.fds[oldfd].open /\ slot.dfile = x.fds[oldfd].dfile
      /\ slot.fd = x.fds[oldfd].fd
  BY <1>3 DEF AnySlot
<1>5. d = [x EXCEPT !.fds[newfd] = slot]
  BY <1>1
<1> HIDE DEF slot
<1>6. Sound(d, H) /\ Keeps(x, d)
  BY <1>2, <1>4, <1>5, SlotChanged DEF Sound, Backed
<1> QED
  BY <1>2, <1>6, KeepsBoth

\* open() of a file it may find.
LEMMA OpenSymbolicStep ==
  ASSUME IInv, NEW p \in Path, NEW fd \in Fd, NEW f \in File,
         f \in env[p].exists, NEW access, NEW creat \in BOOLEAN, NEW excl \in BOOLEAN,
         NEW mode \in Mode, OpenSymbolic(p, fd, f, access, creat, excl, mode)
  PROVE  Preserved
<1> DEFINE shut == [Closed EXCEPT !.dfile = f]
           slot == [shut EXCEPT !.open = TRUE]
           e0   == env[p]
           c    == e0.created \/ f = Concolic
           e    == [e0 EXCEPT !.fds[fd] = shut, !.created = c]
           d    == [e EXCEPT !.fds[fd].open = TRUE, !.perm[f] = mode]
<1>1. /\ hostOpen' = hostOpen /\ hostPos' \in [OsFd -> Int]
      /\ Returns(p, d) \/ Returns(p, e)
  BY DEF OpenSymbolic, Quiet, IInv
<1>2. e0 \in Shape /\ Sound(e0, hostOpen)
  BY DEF IInv
<1>3. shut \in AnySlot /\ slot \in AnySlot /\ shut.dfile = f /\ slot.dfile = f /\ ~shut.open
  <2>1. Closed \in AnySlot /\ ~Closed.open
    BY Files DEF Closed, AnySlot
  <2>2. shut \in AnySlot /\ shut.dfile = f /\ ~shut.open
    BY <2>1 DEF AnySlot
  <2> HIDE DEF shut
  <2> QED
    BY <2>2 DEF AnySlot
<1>4. mode \subseteq Perm
  BY FilesAssumption
<1>5. f # NoFile
  BY Files
<1> HIDE DEF shut, slot
<1>6. Sound(e, hostOpen) /\ Keeps(e0, e)
  <2> DEFINE x == [e0 EXCEPT !.fds[fd] = shut]
  <2>1. Sound(x, hostOpen) /\ Keeps(e0, x)
    BY <1>2, <1>3, SlotChanged
  <2>2. /\ e \in Shape /\ e.fds = x.fds /\ e.exists = x.exists /\ e.maxFailures = x.maxFailures
        /\ e.failed = x.failed /\ e.written = x.written /\ e.stdoutWrites = x.stdoutWrites
    BY <1>2, <1>3 DEF Shape
  <2> HIDE DEF x, e
  <2>3. Sound(e, hostOpen) /\ Keeps(x, e)
    BY <2>1, <2>2, Unrelated
  <2> QED
    BY <2>1, <2>3, KeepsBoth
<1>7. Sound(d, hostOpen) /\ Keeps(e0, d)
  <2> DEFINE x == [e0 EXCEPT !.fds[fd] = slot]
  <2>1. Sound(x, hostOpen) /\ Keeps(e0, x)
    BY <1>2, <1>3, <1>5, SlotChanged
  <2>2. e.fds = [e0.fds EXCEPT ![fd] = shut] /\ e \in Shape
    BY <1>2, <1>3 DEF Shape
  <2>3. d.fds = [e0.fds EXCEPT ![fd] = slot]
    BY <1>2, <1>3, <2>2 DEF Shape, AnySlot, slot
  <2>4. /\ d.exists = e0.exists /\ d.maxFailures = e0.maxFailures
        /\ d.failed = e0.failed /\ d.written = e0.written /\ d.stdoutWrites = e0.stdoutWrites
    BY <1>2 DEF Shape
  <2>5. d \in Shape
    <3>1. d = [e EXCEPT !.fds = [e0.fds EXCEPT ![fd] = slot], !.perm = [e.perm EXCEPT ![f] = mode]]
      BY <2>2, <2>3 DEF Shape
    <3>2. [e0.fds EXCEPT ![fd] = slot] \in [Fd -> AnySlot]
      BY <1>2, <1>3 DEF Shape
    <3>3. [e.perm EXCEPT ![f] = mode] \in [File -> SUBSET Perm]
      BY <1>4, <2>2 DEF Shape
    <3> HIDE DEF e
    <3> QED
      BY <2>2, <3>1, <3>2, <3>3 DEF Shape
  <2>6. /\ d.fds = x.fds /\ d.exists = x.exists /\ d.maxFailures = x.maxFailures
        /\ d.failed = x.failed /\ d.written = x.written /\ d.stdoutWrites = x.stdoutWrites
    BY <1>2, <2>3, <2>4 DEF Shape
  <2> HIDE DEF x, d
  <2>7. Sound(d, hostOpen) /\ Keeps(x, d)
    BY <2>1, <2>5, <2>6, Unrelated
  <2> QED
    BY <2>1, <2>7, KeepsBoth
<1> HIDE DEF e, d
<1> QED
  BY <1>1, <1>6, <1>7, QuietStep

\* open() that the system answers.
LEMMA OpenConcreteStep ==
  ASSUME IInv, NEW p \in Path, NEW fd \in Fd, OpenConcrete(p, fd)
  PROVE  Preserved
<1>1. Sound(env[p], hostOpen)
  BY DEF IInv
<1>2. ASSUME NEW n \in OsFd,
             Returns(p, [env[p] EXCEPT !.fds[fd] = [Closed EXCEPT !.open = TRUE, !.fd = n]]),
             hostOpen' = hostOpen \union {n}, hostPos' = [hostPos EXCEPT ![n] = 0]
      PROVE  Preserved
  <2> DEFINE slot == [Closed EXCEPT !.open = TRUE, !.fd = n]
  <2>1. slot \in AnySlot /\ slot.fd = n /\ slot.dfile = NoFile
    <3>1. Closed \in AnySlot /\ Closed.dfile = NoFile
      BY Files DEF Closed, AnySlot
    <3> QED
      BY <3>1 DEF AnySlot
  <2>2. Sound(env[p], hostOpen') /\ Keeps(env[p], env[p])
    BY <1>1, <1>2, MoreOpen
  <2>3. env' = [env EXCEPT ![p] = [env[p] EXCEPT !.fds[fd] = slot]] /\ live' = live
    BY <1>2 DEF Returns
  <2> HIDE DEF slot
  <2>4. LET d == [env[p] EXCEPT !.fds[fd] = slot] IN Sound(d, hostOpen') /\ Keeps(env[p], d)
    BY <1>2, <2>1, <2>2, SlotChanged
  <2>5. hostPos' \in [OsFd -> Int] /\ hostOpen' \subseteq OsFd
    BY <1>2 DEF IInv
  <2> QED
    BY <1>2, <2>3, <2>4, <2>5, PathStep DEF Preserved
<1>3. CASE Returns(p, [env[p] EXCEPT !.fds[fd] = Closed]) /\ UNCHANGED <<hostOpen, hostPos>>
  <2>1. Closed \in AnySlot /\ ~Closed.open
    BY Files DEF Closed, AnySlot
  <2>2. LET d == [env[p] EXCEPT !.fds[fd] = Closed] IN Sound(d, hostOpen) /\ Keeps(env[p], d)
    BY <1>1, <2>1, SlotChanged
  <2>3. hostPos' \in [OsFd -> Int]
    BY <1>3 DEF IInv
  <2> QED
    BY <1>3, <2>2, <2>3, QuietStep
<1> QED
  BY <1>2, <1>3 DEF OpenConcrete

\* A file that open() finds exists: removed ones are not matched, and the concolic file
\* is never removed.
LEMMA FoundExists ==
  ASSUME NEW e, NEW H, Sound(e, H), NEW name, NEW f \in FileOfName(e, name), f # NoFile
  PROVE  f \in File /\ f \in e.exists
<1>1. Concolic \in e.exists /\ e.exists \subseteq File
  BY Files DEF Sound, Shape
<1> QED
  BY <1>1, Files DEF FileOfName, Matched

\* open, of a symbolic file or a concrete one.
LEMMA OpenStep ==
  ASSUME IInv, NEW p \in Path, NEW fd \in Fd, NEW name, NEW access, NEW creat \in BOOLEAN,
         NEW excl \in BOOLEAN, NEW mode \in Mode,
         \/ Open(p, fd, name, access, creat, excl, mode)
         \/ OpenAt(p, fd, name, access, creat, excl, mode)
  PROVE  Preserved
<1>1. CASE OpenConcrete(p, fd)
  BY <1>1, OpenConcreteStep
<1>2. CASE Open(p, fd, name, access, creat, excl, mode)
  <2>1. PICK f \in FileOfName(env[p], name) :
          IF f = NoFile THEN OpenConcrete(p, fd)
          ELSE OpenSymbolic(p, fd, f, access, creat, excl, mode)
    BY <1>2 DEF Open
  <2>2. Sound(env[p], hostOpen)
    BY DEF IInv
  <2> QED
    BY <1>1, <2>1, <2>2, FoundExists, OpenSymbolicStep
<1> QED
  BY <1>1, <1>2 DEF OpenAt

\* The klee process keeps its descriptors.
LEMMA CloseStep ==
  ASSUME IInv, NEW p \in Path, NEW fd \in Fd, Close(p, fd)
  PROVE  Preserved
<1>1. PICK d \in CloseOutcomes(env[p], fd) : Returns(p, d)
  BY DEF Close
<1>2. hostOpen' = hostOpen /\ hostPos' \in [OsFd -> Int] /\ Sound(env[p], hostOpen)
  BY DEF Close, ClosedIn, IInv
<1> QED
  BY <1>1, <1>2, Closes, QuietStep

\* dup and dup2.
LEMMA DupStep ==
  ASSUME IInv, NEW p \in Path, NEW fd \in Fd, Dup(p, fd) \/ \E newfd \in Fd : Dup2(p, fd, newfd)
  PROVE  Preserved
<1>1. PICK newfd \in Fd : Dup2(p, fd, newfd)
  BY DEF Dup
<1>2. PICK d \in DupOutcomes(env[p], fd, newfd) : Returns(p, d)
  BY <1>1 DEF Dup2
<1>3. hostOpen' = hostOpen /\ hostPos' \in [OsFd -> Int] /\ Sound(env[p], hostOpen)
  BY <1>1 DEF Dup2, Quiet, IInv
<1> QED
  BY <1>2, <1>3, Duplicates, QuietStep

\* What a slot holds.
LEMMA SlotData ==
  ASSUME IInv, NEW p \in Path, NEW fd \in Fd
  PROVE  LET slot == env[p].fds[fd]
         IN  /\ Sound(env[p], hostOpen) /\ env[p] \in Shape
             /\ slot.off \in Int /\ slot.fd \in OsFd /\ hostPos[slot.fd] \in Int
             /\ slot.open /\ slot.dfile # NoFile => slot.dfile \in File /\ Size[slot.dfile] \in Nat
<1>1. Sound(env[p], hostOpen) /\ env[p] \in Shape /\ env[p].fds[fd] \in AnySlot
  BY DEF IInv, Sound, Shape
<1> QED
  BY <1>1, Files DEF AnySlot, IInv

\* A call whose failure is injected.
LEMMA FailsStep ==
  ASSUME IInv, NEW p \in Path, NEW f \in Injected, Fails(p, f)
  PROVE  Preserved
<1>1. /\ Returns(p, InjectFailure(env[p], f)) /\ MayFail(env[p], f)
      /\ hostOpen' = hostOpen /\ hostPos' \in [OsFd -> Int] /\ Sound(env[p], hostOpen)
  BY DEF Fails, Quiet, IInv
<1> QED
  BY <1>1, Injects, QuietStep

\* A slot's offset, with what the system does to positions.
LEMMA OffsetStep ==
  ASSUME IInv, NEW p \in Path, NEW fd \in Fd, NEW o \in Int,
         Returns(p, [env[p] EXCEPT !.fds[fd].off = o]),
         hostOpen' = hostOpen, hostPos' \in [OsFd -> Int]
  PROVE  Preserved
BY SlotData, OffsetMoves, QuietStep

\* A call that aborts the path.
LEMMA AbortStep ==
  ASSUME IInv, NEW p \in Path, Returns(p, Aborted(env[p])), Quiet
  PROVE  Preserved
<1>1. Sound(env[p], hostOpen) /\ hostOpen' = hostOpen /\ hostPos' \in [OsFd -> Int]
  BY DEF IInv, Quiet
<1> QED
  BY <1>1, Aborts, QuietStep

\* read.
LEMMA ReadStep ==
  ASSUME IInv, NEW p \in Path, NEW fd \in Fd, NEW count \in Count, Read(p, fd, count)
  PROVE  Preserved
<1> DEFINE slot == env[p].fds[fd]
<1>1. CASE Fails(p, "read")
  BY <1>1, FailsStep DEF Injected
<1>2. CASE Symbolic(env[p], fd) /\ ReadSymbolic(p, fd, count)
  <2>1. CASE slot.off < 0
    BY <1>2, <2>1, AbortStep DEF ReadSymbolic
  <2>2. CASE ~(slot.off < 0)
    <3> DEFINE o == Signed(slot.off + ReadLength(slot, count))
    <3>1. /\ Returns(p, [env[p] EXCEPT !.fds[fd].off = Signed(@ + ReadLength(slot, count))])
          /\ hostOpen' = hostOpen /\ hostPos' = hostPos
      BY <1>2, <2>2 DEF ReadSymbolic, Copies
    <3>2. slot.off \in Int /\ Size[slot.dfile] \in Nat /\ count \in Nat
      BY <1>2, SlotData, Files DEF Symbolic, IsOpen
    <3>3. ReadLength(slot, count) \in Int
      BY <3>2 DEF ReadLength
    <3> HIDE DEF slot
    <3>4. o \in Int
      BY <3>2, <3>3, SignedInt
    <3>5. Returns(p, [env[p] EXCEPT !.fds[fd].off = o])
      BY <3>1 DEF slot
    <3> HIDE DEF o
    <3> QED
      BY <3>1, <3>4, <3>5, OffsetStep DEF IInv
  <2> QED
    BY <2>1, <2>2
<1>3. ASSUME NEW n \in 0 .. count, ReadConcrete(p, fd, n) PROVE Preserved
  <2> DEFINE o == IF slot.fd = 0 THEN slot.off ELSE slot.off + n
  <2>1. /\ Returns(p, [env[p] EXCEPT !.fds[fd].off = o])
        /\ hostOpen' = hostOpen
        /\ hostPos' = [hostPos EXCEPT ![slot.fd] = IF slot.fd = 0 THEN @ + n ELSE @]
    BY <1>3 DEF ReadConcrete
  <2>2. slot.off \in Int /\ slot.fd \in OsFd /\ hostPos[slot.fd] \in Int /\ n \in Int
    BY SlotData, Files
  <2>3. hostPos' \in [OsFd -> Int] /\ o \in Int
    BY <2>1, <2>2 DEF IInv
  <2> HIDE DEF o
  <2> QED
    BY <2>1, <2>3, OffsetStep
<1> QED
  BY <1>1, <1>2, <1>3 DEF Read

\* write: the symbolic stdout counts what is written to it.
LEMMA WriteStep ==
  ASSUME IInv, NEW p \in Path, NEW fd \in Fd, NEW count \in Count, Write(p, fd, count)
  PROVE  Preserved
<1> DEFINE slot == env[p].fds[fd]
           f    == slot.dfile
           n    == WriteLength(slot, count)
           o    == Signed(slot.off + count)
<1>1. CASE Fails(p, "write")
  BY <1>1, FailsStep DEF Injected
<1>2. CASE Symbolic(env[p], fd) /\ WriteSymbolic(p, fd, count)
  <2>1. CASE Returns(p, Aborted(env[p])) /\ Quiet
    BY <2>1, AbortStep
  <2>2. CASE ~(Returns(p, Aborted(env[p])) /\ Quiet)
    <3> DEFINE e   == [env[p] EXCEPT !.fds[fd].off = o]
               out == IF f = Stdout THEN e.stdoutWrites + n ELSE e.stdoutWrites
               d   == [e EXCEPT !.written[f] = @ \union (slot.off .. slot.off + n - 1),
                                !.stdoutWrites = out]
    <3>1. /\ Returns(p, [env[p] EXCEPT
                !.fds[fd].off = Signed(@ + count),
                !.written[f] = @ \union (slot.off .. slot.off + n - 1),
                !.stdoutWrites = IF CountsAsStdout(slot, fd) THEN @ + n ELSE @])
          /\ hostOpen' = hostOpen /\ hostPos' = hostPos
      BY <1>2, <2>2 DEF WriteSymbolic, Copies
    <3>2. /\ slot.off \in Int /\ f \in File /\ Size[f] \in Nat /\ count \in Nat
          /\ Sound(env[p], hostOpen)
      BY <1>2, SlotData, Files DEF Symbolic, IsOpen
    <3>3. n \in Nat /\ o \in Int
      BY <3>2, SignedInt DEF WriteLength
    <3>4. /\ Sound(e, hostOpen) /\ Keeps(env[p], e)
          /\ e.stdoutWrites = env[p].stdoutWrites
      BY <3>2, <3>3, OffsetMoves
    <3>5. Returns(p, d)
      <4>1. env[p] \in Shape
        BY <3>2 DEF Sound
      <4>2. [env[p] EXCEPT
                !.fds[fd].off = Signed(@ + count),
                !.written[f] = @ \union (slot.off .. slot.off + n - 1),
                !.stdoutWrites = IF CountsAsStdout(slot, fd) THEN @ + n ELSE @] = d
        BY <3>4, <4>1 DEF CountsAsStdout, Shape
      <4> QED
        BY <3>1, <4>2
    <3> HIDE DEF e, f, n, o, slot
    <3>6. Sound(d, hostOpen) /\ Keeps(e, d)
      BY <3>2, <3>3, <3>4, Writes
    <3> HIDE DEF d, out
    <3> QED
      BY <3>1, <3>4, <3>5, <3>6, KeepsBoth, QuietStep DEF IInv
  <2> QED
    BY <2>1, <2>2
<1>3. ASSUME NEW m \in 0 .. count, WriteConcrete(p, fd, m) PROVE Preserved
  <2> DEFINE a == IF slot.fd \in {1, 2} THEN slot.off ELSE slot.off + m
  <2>1. Returns(p, [env[p] EXCEPT !.fds[fd].off = a]) /\ hostOpen' = hostOpen /\ hostPos' = hostPos
    BY <1>3 DEF WriteConcrete, Quiet
  <2>2. a \in Int /\ hostPos' \in [OsFd -> Int]
    BY <2>1, SlotData, Files DEF IInv
  <2> HIDE DEF a
  <2> QED
    BY <2>1, <2>2, OffsetStep
<1> QED
  BY <1>1, <1>2, <1>3 DEF Write

\* Where a seek goes.
LEMMA TargetInt ==
  ASSUME NEW whence \in {"set", "cur", "end"}, NEW offset \in Int, NEW at \in Int, NEW size \in Int
  PROVE  Target(whence, offset, at, size) \in Int
BY SignedInt DEF Target

\* What is pending of a call.
LEMMA PendingChanged ==
  ASSUME NEW e, NEW H, Sound(e, H), NEW call \in AnyCall
  PROVE  LET d == [e EXCEPT !.pending = call] IN Sound(d, H) /\ Keeps(e, d)
<1> DEFINE d == [e EXCEPT !.pending = call]
<1>1. e \in Shape
  BY DEF Sound
<1>2. /\ d \in Shape /\ d.fds = e.fds /\ d.exists = e.exists /\ d.maxFailures = e.maxFailures
      /\ d.failed = e.failed /\ d.written = e.written /\ d.stdoutWrites = e.stdoutWrites
  BY <1>1 DEF Shape
<1> HIDE DEF d
<1>3. Sound(d, H) /\ Keeps(e, d)
  BY <1>2, Unrelated
<1> QED
  BY <1>3 DEF d

\* Setting an offset keeps a path sound.
LEMMA SeekTos ==
  ASSUME NEW e, NEW H, Sound(e, H), NEW fd \in Fd, NEW o \in Int
  PROVE  Sound(SeekTo(e, fd, o), H) /\ Keeps(e, SeekTo(e, fd, o))
BY OffsetMoves DEF SeekTo, Keeps

\* lseek.
LEMMA LseekStep ==
  ASSUME IInv, NEW p \in Path, NEW fd \in Fd, NEW whence \in {"set", "cur", "end"},
         NEW offset \in Offset, Lseek(p, fd, whence, offset)
  PROVE  Preserved
<1> DEFINE slot == env[p].fds[fd]
<1>1. /\ offset \in Int /\ slot.off \in Int /\ slot.fd \in OsFd
      /\ Sound(env[p], hostOpen) /\ hostPos \in [OsFd -> Int]
  BY SlotData, Files DEF IInv
<1>2. CASE Symbolic(env[p], fd) /\ SeekSymbolic(p, fd, whence, offset)
  <2> DEFINE o == Target(whence, offset, slot.off, Size[slot.dfile])
  <2>1. Size[slot.dfile] \in Int
    BY <1>2, SlotData DEF Symbolic, IsOpen
  <2>2. o \in Int
    BY <1>1, <2>1, TargetInt
  <2>3. Returns(p, SeekTo(env[p], fd, o)) /\ hostOpen' = hostOpen /\ hostPos' = hostPos
    BY <1>2 DEF SeekSymbolic, Quiet
  <2> HIDE DEF o
  <2> QED
    BY <1>1, <2>2, <2>3, SeekTos, QuietStep
<1>3. CASE SeekConcrete(p, fd, whence, offset)
  <2> DEFINE at   == IF whence = "set" THEN offset ELSE slot.off
             call == [stage |-> "seek", fd |-> fd, whence |-> whence, offset |-> offset]
  <2>1. hostOpen' = hostOpen /\ hostPos' = [hostPos EXCEPT ![slot.fd] = at] /\ at \in Int
    BY <1>1, <1>3 DEF SeekConcrete
  <2>2. hostPos' \in [OsFd -> Int]
    BY <1>1, <2>1
  <2>3. CASE whence = "set" /\ Returns(p, [env[p] EXCEPT !.fds[fd].off = at])
    <3> HIDE DEF at
    <3> QED
      BY <2>1, <2>2, <2>3, OffsetStep
  <2>4. CASE Returns(p, [env[p] EXCEPT !.pending = call])
    <3>1. call \in AnyCall
      BY <1>1 DEF AnyCall
    <3> HIDE DEF call
    <3> QED
      BY <1>1, <2>1, <2>2, <2>4, <3>1, PendingChanged, QuietStep
  <2> QED
    BY <1>3, <2>3, <2>4 DEF SeekConcrete
<1> QED
  BY <1>2, <1>3 DEF Lseek

\* getdents, of the symbolic files or up to its first system call.
LEMMA GetdentsStep ==
  ASSUME IInv, NEW p \in Path, NEW fd \in Fd, NEW count \in Count, Getdents(p, fd, count)
  PROVE  Preserved
<1> DEFINE slot == env[p].fds[fd]
<1>1. /\ slot.off \in Int /\ slot.fd \in OsFd /\ count \in Int /\ DirBase \in Int
      /\ Sound(env[p], hostOpen) /\ hostPos \in [OsFd -> Int]
  BY SlotData, Files, FilesAssumption DEF IInv
<1>2. CASE GetdentsOwn(p, fd, count)
  <2> DEFINE o == IF count >= DirBase THEN DirBase ELSE count
  <2>1. o \in Int
    BY <1>1
  <2>2. Returns(p, [env[p] EXCEPT !.fds[fd].off = o]) /\ hostOpen' = hostOpen /\ hostPos' = hostPos
    BY <1>2 DEF GetdentsOwn, Quiet
  <2> HIDE DEF o
  <2> QED
    BY <1>1, <2>1, <2>2, OffsetStep
<1>3. CASE GetdentsHost(p, fd)
  <2> DEFINE call == [Idle EXCEPT !.stage = "dents", !.fd = fd]
  <2>1. /\ Returns(p, [env[p] EXCEPT !.pending = call]) /\ hostOpen' = hostOpen
        /\ hostPos' = [hostPos EXCEPT ![slot.fd] = slot.off - DirBase]
    BY <1>3 DEF GetdentsHost
  <2>2. hostPos' \in [OsFd -> Int]
    BY <1>1, <2>1
  <2>3. call \in AnyCall
    <3>1. Idle \in AnyCall
      BY Files DEF Idle, AnyCall, Fd
    <3>2. [Idle EXCEPT !.stage = "dents"] \in AnyCall
      BY <3>1 DEF AnyCall
    <3> HIDE DEF Idle
    <3> QED
      BY <3>2 DEF AnyCall
  <2> HIDE DEF call
  <2> QED
    BY <1>1, <2>1, <2>2, <2>3, PendingChanged, QuietStep
<1> QED
  BY <1>2, <1>3 DEF Getdents

\* A path between two system calls.
LEMMA ResumeStep ==
  ASSUME IInv, NEW p \in Path, NEW d, env' = [env EXCEPT ![p] = d], live' = live,
         hostOpen' = hostOpen, hostPos' \in [OsFd -> Int],
         Sound(d, hostOpen), Keeps(env[p], d)
  PROVE  Preserved
BY PathStep DEF Preserved, IInv

\* A path with no pending call.
LEMMA IdleCall == Idle \in AnyCall
BY Files DEF Idle, AnyCall, Fd

\* The second system call of a seek.
LEMMA SeekSecondStep ==
  ASSUME IInv, NEW p \in Path, NEW size \in Count, SeekSecond(p, size)
  PROVE  Preserved
<1> DEFINE call == env[p].pending
           d    == env[p].fds[call.fd].fd
           at   == Target(call.whence, call.offset, hostPos[d], size)
           e    == SeekTo(env[p], call.fd, at)
<1>1. /\ call.fd \in Fd /\ call.whence \in {"set", "cur", "end"} /\ call.offset \in Int
      /\ Sound(env[p], hostOpen)
  BY DEF IInv, Sound, Shape, AnyCall
<1>2. d \in OsFd /\ hostPos[d] \in Int /\ hostPos \in [OsFd -> Int]
  BY <1>1, SlotData DEF IInv
<1>3. at \in Int
  <2>1. size \in Int
    BY Files
  <2> HIDE DEF call, d
  <2> QED
    BY <1>1, <1>2, <2>1, TargetInt
<1>4. /\ env' = [env EXCEPT ![p] = [e EXCEPT !.pending = Idle]]
      /\ hostPos' = [hostPos EXCEPT ![d] = IF at < 0 THEN @ ELSE at]
      /\ hostOpen' = hostOpen /\ live' = live
  BY DEF SeekSecond
<1>5. hostPos' \in [OsFd -> Int]
  BY <1>2, <1>3, <1>4
<1> HIDE DEF at, d
<1>6. Sound(e, hostOpen) /\ Keeps(env[p], e)
  BY <1>1, <1>3, SeekTos
<1> HIDE DEF e
<1>7. LET c == [e EXCEPT !.pending = Idle] IN Sound(c, hostOpen) /\ Keeps(env[p], c)
  BY <1>6, IdleCall, PendingChanged, KeepsBoth
<1> QED
  BY <1>4, <1>5, <1>7, ResumeStep

\* The other system calls of getdents: the entries,
LEMMA DentsSecondStep ==
  ASSUME IInv, NEW p \in Path, NEW n \in Count, DentsSecond(p, n)
  PROVE  Preserved
<1> DEFINE d == env[p].fds[env[p].pending.fd].fd
           call == [env[p].pending EXCEPT !.stage = "tell"]
<1>1. env[p].pending \in AnyCall /\ env[p].pending.fd \in Fd /\ Sound(env[p], hostOpen)
  BY DEF IInv, Sound, Shape, AnyCall
<1>2. d \in OsFd /\ hostPos[d] \in Int /\ hostPos \in [OsFd -> Int] /\ n \in Int
  BY <1>1, SlotData, Files DEF IInv
<1>3. call \in AnyCall
  BY <1>1 DEF AnyCall
<1>4. CASE /\ env' = [env EXCEPT ![p].pending.stage = "tell"]
           /\ hostPos' = [hostPos EXCEPT ![d] = @ + n]
  <2>1. hostPos' \in [OsFd -> Int]
    <3>1. hostPos' = [hostPos EXCEPT ![d] = hostPos[d] + n]
      BY Zenon, <1>4
    <3> HIDE DEF d
    <3>2. hostPos[d] + n \in Int
      BY <1>2
    <3> QED
      BY Zenon, <1>2, <3>1, <3>2
  <2>2. env' = [env EXCEPT ![p] = [env[p] EXCEPT !.pending = call]]
    BY <1>4
  <2>3. hostOpen' = hostOpen /\ live' = live
    BY DEF DentsSecond
  <2> HIDE DEF call
  <2> QED
    BY <1>1, <1>3, <2>1, <2>2, <2>3, PendingChanged, ResumeStep
<1>5. CASE env' = [env EXCEPT ![p].pending = Idle] /\ hostPos' = hostPos
  <2>1. env' = [env EXCEPT ![p] = [env[p] EXCEPT !.pending = Idle]]
    BY <1>5
  <2>2. hostOpen' = hostOpen /\ live' = live
    BY DEF DentsSecond
  <2> QED
    BY <1>1, <1>2, <1>5, <2>1, <2>2, IdleCall, PendingChanged, ResumeStep
<1> QED
  BY <1>4, <1>5 DEF DentsSecond

\* and the new offset.
LEMMA DentsThirdStep ==
  ASSUME IInv, NEW p \in Path, DentsThird(p)
  PROVE  Preserved
<1> DEFINE fd == env[p].pending.fd
           o  == Signed(hostPos[env[p].fds[fd].fd] + DirBase)
           e  == [env[p] EXCEPT !.fds[fd].off = o]
<1>1. fd \in Fd /\ Sound(env[p], hostOpen) /\ env[p] \in Shape
  BY DEF IInv, Sound, Shape, AnyCall
<1>2. o \in Int
  BY <1>1, SlotData, SignedInt, Files, FilesAssumption
<1>3. /\ env' = [env EXCEPT ![p] = [env[p] EXCEPT !.fds[fd].off = o, !.pending = Idle]]
      /\ hostOpen' = hostOpen /\ live' = live /\ hostPos' = hostPos
  BY DEF DentsThird, Quiet
<1> HIDE DEF o
<1>4. Sound(e, hostOpen) /\ Keeps(env[p], e)
  BY <1>1, <1>2, OffsetMoves
<1>5. [env[p] EXCEPT !.fds[fd].off = o, !.pending = Idle] = [e EXCEPT !.pending = Idle]
  OBVIOUS
<1> HIDE DEF e
<1>6. LET c == [e EXCEPT !.pending = Idle] IN Sound(c, hostOpen) /\ Keeps(env[p], c)
  BY <1>4, IdleCall, PendingChanged, KeepsBoth
<1> QED
  BY <1>3, <1>5, <1>6, ResumeStep DEF IInv

\* chmod and fchmod.
LEMMA ChmodGives ==
  ASSUME NEW e, NEW H, Sound(e, H), NEW f \in File, NEW perm \in Mode,
         NEW d \in ChmodOutcomes(e, f, perm)
  PROVE  Sound(d, H) /\ Keeps(e, d)
<1>1. CASE d = e
  BY <1>1 DEF Keeps
<1>2. CASE d = [e EXCEPT !.perm[f] = perm]
  <2>1. e \in Shape /\ perm \subseteq Perm
    BY FilesAssumption DEF Sound
  <2>2. d = [e EXCEPT !.perm = [e.perm EXCEPT ![f] = perm]]
    BY <1>2, <2>1 DEF Shape
  <2>3. /\ d \in Shape /\ d.fds = e.fds /\ d.exists = e.exists /\ d.maxFailures = e.maxFailures
        /\ d.failed = e.failed /\ d.written = e.written /\ d.stdoutWrites = e.stdoutWrites
    BY <2>1, <2>2 DEF Shape
  <2> QED
    BY <2>3, Unrelated
<1> QED
  BY <1>1, <1>2 DEF ChmodOutcomes

\* chmod and fchmod.
LEMMA ChmodStep ==
  ASSUME IInv, NEW p \in Path, NEW perm \in Mode,
         Chmod(p, perm) \/ \E fd \in Fd : Fchmod(p, fd, perm)
  PROVE  Preserved
<1>1. Quiet /\ hostOpen' = hostOpen /\ hostPos' \in [OsFd -> Int] /\ Sound(env[p], hostOpen)
  BY DEF Chmod, Fchmod, Quiet, IInv
<1>2. CASE Returns(p, Aborted(env[p]))
  BY <1>1, <1>2, AbortStep
<1>3. ASSUME NEW f \in File, NEW d \in ChmodOutcomes(env[p], f, perm), Returns(p, d)
      PROVE  Preserved
  BY <1>1, <1>3, ChmodGives, QuietStep
<1>4. Matched(env[p]) \ {NoFile} \subseteq File
  BY Files DEF Matched
<1>5. ASSUME NEW fd \in Fd, Symbolic(env[p], fd) PROVE env[p].fds[fd].dfile \in File
  BY <1>5, SlotData DEF Symbolic, IsOpen
<1> QED
  BY <1>2, <1>3, <1>4, <1>5 DEF Chmod, Fchmod

\* fcntl.
LEMMA FcntlStep ==
  ASSUME IInv, NEW p \in Path, NEW fd \in Fd, NEW cloexec \in BOOLEAN, Fcntl(p, fd, cloexec)
  PROVE  Preserved
<1> DEFINE slot == [env[p].fds[fd] EXCEPT !.cloexec = cloexec]
<1>1. env[p].fds[fd] \in AnySlot /\ Sound(env[p], hostOpen) /\ env[p] \in Shape
  BY DEF IInv, Sound, Shape
<1>2. /\ slot \in AnySlot /\ slot.open = env[p].fds[fd].open
      /\ slot.dfile = env[p].fds[fd].dfile /\ slot.fd = env[p].fds[fd].fd
  BY <1>1 DEF AnySlot
<1>3. /\ Returns(p, [env[p] EXCEPT !.fds[fd] = slot])
      /\ hostOpen' = hostOpen /\ hostPos' = hostPos
  BY DEF Fcntl, Quiet
<1> HIDE DEF slot
<1>4. LET d == [env[p] EXCEPT !.fds[fd] = slot] IN Sound(d, hostOpen) /\ Keeps(env[p], d)
  BY <1>1, <1>2, SlotChanged DEF Sound, Backed
<1> QED
  BY <1>3, <1>4, QuietStep DEF IInv

\* unlink and rmdir of a symbolic file.
LEMMA RemoveStep ==
  ASSUME IInv, NEW p \in Path, NEW kind, Remove(p, kind)
  PROVE  Preserved
<1>1. PICK f \in SymFile : Returns(p, [env[p] EXCEPT !.exists = @ \ {f}])
  BY DEF Remove, Matched
<1>2. hostOpen' = hostOpen /\ hostPos' \in [OsFd -> Int] /\ Sound(env[p], hostOpen)
  BY DEF Remove, Quiet, IInv
<1> QED
  BY <1>1, <1>2, Removes, QuietStep

\* The new path has the tables of the old one.
LEMMA ForkStep ==
  ASSUME IInv, NEW p \in Path, NEW q \in Path, Fork(p, q)
  PROVE  Preserved
<1>1. /\ env' = [env EXCEPT ![q] = env[p]] /\ live' = live \union {q} /\ q \notin live
      /\ hostOpen' = hostOpen /\ hostPos' = hostPos
  BY DEF Fork, Quiet
<1>2. IInv'
  BY <1>1 DEF IInv
<1>3. \A r \in live : env'[r] = env[r]
  BY <1>1 DEF IInv
<1> QED
  BY <1>2, <1>3 DEF Preserved, Gone, IsOpen

-------------------------------------------------------------------------------
(* The invariant.                                                          *)

\* The invariant holds at first.
LEMMA InitInv ==
  Init => IInv
<1> SUFFICES ASSUME Init PROVE IInv
  OBVIOUS
<1>1. PICK stat \in [SymFile -> SymStat] :
        env = [p \in Path |->
            [fds |-> InitialFds, exists |-> File,
             perm |-> [f \in File |-> IF f \in SymFile THEN stat[f].perm ELSE Perm],
             kind |-> [f \in File |-> IF f \in SymFile THEN stat[f].kind ELSE "dir"],
             written |-> [f \in File |-> {}], created |-> FALSE, maxFailures |-> MaxFailures,
             failed |-> {}, stdoutWrites |-> 0, pending |-> Idle, aborted |-> FALSE]]
  BY DEF Init
<1>2. InitialFds \in [Fd -> AnySlot] /\ Backed(InitialFds, 0 .. 2)
  <2>1. ASSUME NEW i \in Fd
        PROVE  /\ InitialFds[i] \in AnySlot
               /\ InitialFds[i].open /\ InitialFds[i].dfile = NoFile => InitialFds[i].fd \in 0 .. 2
    <3>1. Closed \in AnySlot /\ ~Closed.open
      BY Files DEF Closed, AnySlot
    <3>2. CASE i > 2
      BY <3>1, <3>2 DEF InitialFds
    <3>3. CASE ~(i > 2)
      <4> DEFINE f == IF i = 0 THEN Stdin ELSE IF i = 1 THEN Stdout ELSE NoFile
      <4>1. i \in 0 .. 2 /\ i \in OsFd
        BY <3>3, Files DEF Fd
      <4>2. InitialFds[i] = [Closed EXCEPT !.open = TRUE, !.fd = i, !.dfile = f]
        BY <3>3 DEF InitialFds
      <4>3. f \in File \union {NoFile}
        BY Files
      <4> HIDE DEF f
      <4> QED
        BY <3>1, <4>1, <4>2, <4>3 DEF AnySlot
    <3> QED
      BY <3>2, <3>3
  <2>2. InitialFds = [i \in Fd |-> InitialFds[i]]
    BY DEF InitialFds
  <2> QED
    BY <2>1, <2>2 DEF Backed
<1>3. ASSUME NEW p \in Path PROVE Sound(env[p], 0 .. 2)
  <2>1. \A f \in SymFile : stat[f].perm \subseteq Perm /\ stat[f].kind \in Kind
    BY FilesAssumption
  <2>2. [f \in File |-> IF f \in SymFile THEN stat[f].perm ELSE Perm] \in [File -> SUBSET Perm]
    BY <2>1
  <2>3. [f \in File |-> IF f \in SymFile THEN stat[f].kind ELSE "dir"] \in [File -> Kind]
    BY <2>1 DEF Kind
  <2>4. env[p] \in Shape
    BY <1>1, <1>2, <2>2, <2>3, Files, IdleCall DEF Shape
  <2>5. /\ env[p].fds = InitialFds /\ env[p].exists = File /\ env[p].maxFailures = MaxFailures
        /\ env[p].failed = {} /\ env[p].written = [f \in File |-> {}] /\ env[p].stdoutWrites = 0
    BY <1>1
  <2>6. Allowed(env[p])
    BY <2>5, FS_EmptySet, Files DEF Allowed
  <2>7. Counted(env[p])
    BY <2>5, FS_EmptySet, Files DEF Counted
  <2> QED
    BY <1>2, <2>4, <2>5, <2>6, <2>7 DEF Sound
<1>4. env \in [Path -> Shape]
  <2>1. env = [p \in Path |-> env[p]]
    BY <1>1
  <2> QED
    BY <1>3, <2>1 DEF Sound
<1>5. live \subseteq Path /\ hostOpen = 0 .. 2 /\ hostPos \in [OsFd -> Int]
  BY FilesAssumption DEF Init
<1> QED
  BY <1>3, <1>4, <1>5, FilesAssumption DEF IInv

\* Every call of a path preserves it.
LEMMA CallStep ==
  ASSUME IInv, NEW p \in Path, Call(p)
  PROVE  Preserved
<1>1. CASE Naming(p)
  BY <1>1, ChmodStep, FailsStep, RemoveStep
     DEF Naming, Getcwd, Rmdir, Unlink, Unlinkat, Injected
<1>2. ASSUME NEW fd \in Fd, Opening(p, fd) PROVE Preserved
  BY <1>2, OpenStep DEF Opening
<1>3. ASSUME NEW fd \in Fd, Transferring(p, fd) PROVE Preserved
  BY <1>3, ReadStep, WriteStep, GetdentsStep, LseekStep DEF Transferring
<1>4. ASSUME NEW fd \in Fd, Managing(p, fd) PROVE Preserved
  <2>1. CASE Close(p, fd)
    BY <2>1, CloseStep
  <2>2. CASE Dup(p, fd) \/ \E newfd \in Fd : Dup2(p, fd, newfd)
    BY <2>2, DupStep
  <2>3. CASE Ftruncate(p, fd)
    BY <2>3, FailsStep DEF Ftruncate, Injected
  <2>4. CASE \E cloexec \in BOOLEAN : Fcntl(p, fd, cloexec)
    BY <2>4, FcntlStep
  <2>5. CASE \E perm \in Mode : Fchmod(p, fd, perm)
    BY <2>5, ChmodStep
  <2> QED
    BY <1>4, <2>1, <2>2, <2>3, <2>4, <2>5 DEF Managing
<1> QED
  BY <1>1, <1>2, <1>3, <1>4 DEF Call

\* Every step keeps the invariant, and leaves the files that are gone as they are.
LEMMA NextInv ==
  ASSUME IInv, [Next]_vars
  PROVE  IInv' /\ \A p \in live, f \in File : Gone(p, f) => Gone(p, f)'
<1>1. CASE UNCHANGED vars
  BY <1>1 DEF vars, IInv, Gone, IsOpen
<1>2. ASSUME NEW p \in Path, Call(p) PROVE Preserved
  BY <1>2, CallStep
<1>3. ASSUME NEW p \in Path, Resume(p) PROVE Preserved
  BY <1>3, SeekSecondStep, DentsSecondStep, DentsThirdStep DEF Resume
<1>4. ASSUME NEW p \in Path, NEW q \in Path, Fork(p, q) PROVE Preserved
  BY <1>4, ForkStep
<1> QED
  BY <1>1, <1>2, <1>3, <1>4 DEF Next, Preserved

\* So it always holds.
LEMMA Invariance == Spec => []IInv
<1>1. IInv /\ [Next]_vars => IInv'
  BY NextInv
<1> QED
  BY <1>1, InitInv, PTL DEF Spec

-------------------------------------------------------------------------------

\* The concrete descriptors of every path are open in the klee process, whatever other
\* paths and duplicates have closed (close).
THEOREM HostFilesStayOpen == Spec => []HostFilesOpen
<1>1. IInv => HostFilesOpen
  BY DEF IInv, Sound, Backed, HostFilesOpen, Concrete, IsOpen
<1> QED
  BY <1>1, Invariance, PTL

\* No path has more injected failures than --max-fail allows, whatever forks lie behind it
\* (the *_fail counters and max_failures).
THEOREM FailuresAreBounded == Spec => []FailuresBounded
<1>1. ASSUME IInv, NEW p \in live PROVE Cardinality(env[p].failed) <= MaxFailures
  <2>1. Sound(env[p], hostOpen) /\ env[p] \in Shape
    BY <1>1 DEF IInv
  <2>2. env[p].maxFailures \in Nat /\ Cardinality(env[p].failed) \in Nat
    BY <2>1, FS_CardinalityType DEF Shape, Sound, Allowed
  <2> QED
    BY <2>1, <2>2, Files DEF Sound, Allowed
<1>2. IInv => FailuresBounded
  BY <1>1 DEF FailuresBounded
<1> QED
  BY <1>2, Invariance, PTL

\* stdout_writes counts every byte of the symbolic stdout that a path has written, through
\* any of its descriptors (write, dup2).
THEOREM StdoutIsCounted == Spec => []StdoutCounted
<1>1. IInv => StdoutCounted
  BY DEF IInv, Sound, Counted, StdoutCounted
<1> QED
  BY <1>1, Invariance, PTL

\* A file whose name is removed (rmdir, unlink, unlinkat) and whose last descriptor is
\* closed is out of reach of the path, and of the paths forked from it, for good.
THEOREM RemovedStayGone == Spec => RemovedFilesGone
<1>1. IInv /\ [Next]_vars => [\A p \in live, f \in File : Gone(p, f) => Gone(p, f)']_vars
  BY NextInv
<1> QED
  BY <1>1, Invariance, PTL DEF Spec, RemovedFilesGone

-------------------------------------------------------------------------------
(* Offsets short of the end of off64_t.                                    *)

\* No offset of a symbolic file is so near the end that a call of write wraps it.
ShortOfEnd ==
  \A p \in live, fd \in Fd, count \in Count :
    Calling(p) /\ Symbolic(env[p], fd) => env[p].fds[fd].off + count < Half

\* The offsets of symbolic files are not negative, whatever those of concrete files, and a
\* call between two of its system calls is one of a concrete file.
Forward(e) ==
  /\ \A fd \in Fd : e.fds[fd].dfile # NoFile => e.fds[fd].off >= 0
  /\ e.pending # Idle => e.fds[e.pending.fd].dfile = NoFile

WInv == (\A p \in live : Forward(env[p])) /\ CopiesWithin

\* A step that gives path p the data d.
LEMMA Forwards ==
  ASSUME IInv, WInv, NEW p \in live, NEW d, env' = [env EXCEPT ![p] = d], live' = live,
         Forward(d), CopiesWithin'
  PROVE  WInv'
BY DEF IInv, WInv

\* A step that copies nothing.
LEMMA QuietForwards ==
  ASSUME IInv, WInv, NEW p \in live, NEW d, env' = [env EXCEPT ![p] = d], live' = live,
         Forward(d), copied' = NoCopy
  PROVE  WInv'
<1>1. CopiesWithin'
  BY DEF CopiesWithin, NoCopy
<1> QED
  BY <1>1, Forwards

\* A call that copies nothing.
LEMMA CallForwards ==
  ASSUME IInv, WInv, NEW p \in live, NEW d, Returns(p, d), Forward(d), copied' = NoCopy
  PROVE  WInv'
BY QuietForwards DEF Returns

\* A slot, as a call sets it.
LEMMA SlotForward ==
  ASSUME NEW e \in Shape, Forward(e), e.pending = Idle, NEW fd \in Fd, NEW slot,
         slot.dfile # NoFile => slot.off >= 0
  PROVE  Forward([e EXCEPT !.fds[fd] = slot])
<1> DEFINE d == [e EXCEPT !.fds[fd] = slot]
<1>1. d.fds = [e.fds EXCEPT ![fd] = slot] /\ e.fds \in [Fd -> AnySlot] /\ d.pending = Idle
  BY DEF Shape
<1> HIDE DEF d
<1>2. Forward(d)
  BY <1>1 DEF Forward
<1> QED
  BY <1>2 DEF d

\* An offset, that of a concrete file or not a negative one.
LEMMA OffsetForward ==
  ASSUME NEW e \in Shape, Forward(e), NEW fd \in Fd, NEW o \in Int,
         e.fds[fd].dfile # NoFile => o >= 0
  PROVE  Forward([e EXCEPT !.fds[fd].off = o])
<1> DEFINE slot == [e.fds[fd] EXCEPT !.off = o]
           d    == [e EXCEPT !.fds[fd].off = o]
<1>1. e.fds \in [Fd -> AnySlot] /\ e.fds[fd] \in AnySlot /\ (e.pending).fd \in Fd
  BY DEF Shape, AnyCall
<1>2. slot.off = o /\ slot.dfile = e.fds[fd].dfile
  BY <1>1 DEF AnySlot
<1>3. d.fds = [e.fds EXCEPT ![fd] = slot] /\ d.pending = e.pending
  BY DEF Shape
<1> HIDE DEF slot, d
<1>4. Forward(d)
  BY <1>1, <1>2, <1>3 DEF Forward
<1> QED
  BY <1>4 DEF d

\* A seek refuses what is negative.
LEMMA SeekForward ==
  ASSUME NEW e \in Shape, Forward(e), NEW fd \in Fd, NEW o \in Int
  PROVE  Forward(SeekTo(e, fd, o))
BY OffsetForward DEF SeekTo

\* What is pending of a call, if it is one of a concrete file.
LEMMA PendingForward ==
  ASSUME NEW e \in Shape, Forward(e), NEW call,
         call # Idle => e.fds[call.fd].dfile = NoFile
  PROVE  Forward([e EXCEPT !.pending = call])
<1> DEFINE d == [e EXCEPT !.pending = call]
<1>1. d.fds = e.fds /\ d.pending = call
  BY DEF Shape
<1> HIDE DEF d
<1>2. Forward(d)
  BY <1>1 DEF Forward
<1> QED
  BY <1>2 DEF d

\* Data other than the table and the pending call.
LEMMA SameForward ==
  ASSUME NEW e, Forward(e), NEW d, d.fds = e.fds, d.pending = e.pending
  PROVE  Forward(d)
BY DEF Forward

\* Short of the end a sum is what it is, signed or unsigned.
LEMMA SumsExact ==
  ASSUME NEW x \in Int, x >= 0, x < Half
  PROVE  Signed(x) = x /\ Unsigned(x) = x
<1>1. Half \in Nat /\ Half > 1
  BY Files
<1>2. \A m \in Int, n \in Int : 0 <= m /\ m < n => m % n = m
  OBVIOUS
<1>3. (x + Half) % (2 * Half) = x + Half /\ x % (2 * Half) = x
  BY <1>1, <1>2
<1> QED
  BY <1>1, <1>3 DEF Signed, Unsigned

\* A path that calls has no pending call.
LEMMA Caller ==
  ASSUME IInv, WInv, NEW p, Calling(p)
  PROVE  p \in live /\ p \in Path /\ env[p] \in Shape /\ Forward(env[p]) /\ env[p].pending = Idle
BY DEF IInv, WInv, Calling

\* A symbolic slot short of the end.
LEMMA SymbolicSlot ==
  ASSUME IInv, WInv, ShortOfEnd, NEW p, Calling(p), NEW fd \in Fd, Symbolic(env[p], fd),
         NEW count \in Count
  PROVE  LET slot == env[p].fds[fd]
         IN  /\ slot.off \in Int /\ slot.off >= 0 /\ slot.off + count < Half /\ count \in Nat
             /\ slot.dfile \in File /\ slot.dfile # NoFile /\ Size[slot.dfile] \in Nat
<1>1. p \in live /\ p \in Path
  BY Caller
<1> QED
  BY <1>1, SlotData, Files DEF WInv, Forward, ShortOfEnd, Symbolic, IsOpen

\* The tables are as they were when a failure is injected or the path aborts.
LEMMA SameTable ==
  ASSUME NEW e \in Shape, Forward(e)
  PROVE  (\A f : Forward(InjectFailure(e, f))) /\ Forward(Aborted(e))
<1>1. Aborted(e).fds = e.fds /\ Aborted(e).pending = e.pending
  BY DEF Aborted, Shape
<1>2. \A f : InjectFailure(e, f).fds = e.fds /\ InjectFailure(e, f).pending = e.pending
  BY DEF InjectFailure, Shape
<1> QED
  BY <1>1, <1>2, SameForward

\* A call whose failure is injected, or that aborts.
LEMMA FailsForward ==
  ASSUME IInv, WInv, NEW p, Calling(p), NEW f,
         Fails(p, f) \/ (Returns(p, Aborted(env[p])) /\ Quiet)
  PROVE  WInv'
BY Caller, SameTable, CallForwards DEF Fails, Quiet

\* A closed slot, or the failure of close.
LEMMA CloseForward ==
  ASSUME NEW e \in Shape, Forward(e), e.pending = Idle, NEW fd \in Fd, NEW d \in CloseOutcomes(e, fd)
  PROVE  Forward(d) /\ d.pending = Idle
<1>1. Closed.dfile # NoFile => Closed.off >= 0
  BY DEF Closed
<1>2. CASE d = [e EXCEPT !.fds[fd] = Closed]
  <2>1. d.pending = e.pending
    BY <1>2 DEF Shape
  <2> QED
    BY <1>1, <1>2, <2>1, SlotForward
<1>3. CASE d = InjectFailure(e, "close")
  <2>1. d.pending = e.pending
    BY <1>3 DEF InjectFailure, Shape
  <2> QED
    BY <1>3, <2>1, SameTable
<1> QED
  BY <1>2, <1>3 DEF CloseOutcomes

\* open, of a symbolic file or a concrete one: the offset is 0.
LEMMA OpenForward ==
  ASSUME IInv, WInv, NEW p, Calling(p), NEW fd \in Fd, Opening(p, fd)
  PROVE  WInv'
<1>1. p \in live /\ env[p] \in Shape /\ Forward(env[p]) /\ env[p].pending = Idle
  BY Caller
<1>2. CASE OpenConcrete(p, fd)
  <2>1. ASSUME NEW n \in OsFd, copied' = NoCopy,
               Returns(p, [env[p] EXCEPT !.fds[fd] = [Closed EXCEPT !.open = TRUE, !.fd = n]])
        PROVE  WInv'
    <3> DEFINE slot == [Closed EXCEPT !.open = TRUE, !.fd = n]
    <3>1. slot.off >= 0
      BY DEF Closed
    <3>2. Returns(p, [env[p] EXCEPT !.fds[fd] = slot])
      BY <2>1
    <3> HIDE DEF slot
    <3>3. Forward([env[p] EXCEPT !.fds[fd] = slot])
      BY <1>1, <3>1, SlotForward
    <3> QED
      BY <1>1, <2>1, <3>2, <3>3, CallForwards
  <2>2. ASSUME copied' = NoCopy, Returns(p, [env[p] EXCEPT !.fds[fd] = Closed])
        PROVE  WInv'
    <3>1. Closed.off >= 0
      BY DEF Closed
    <3>2. Forward([env[p] EXCEPT !.fds[fd] = Closed])
      BY <1>1, <3>1, SlotForward
    <3> QED
      BY <1>1, <2>2, <3>2, CallForwards
  <2> QED
    BY <1>2, <2>1, <2>2, Zenon DEF OpenConcrete
<1>3. ASSUME NEW f, NEW access, NEW creat, NEW excl, NEW mode,
             OpenSymbolic(p, fd, f, access, creat, excl, mode)
      PROVE  WInv'
  <2> DEFINE slot == [Closed EXCEPT !.dfile = f]
             e    == [env[p] EXCEPT !.fds[fd] = [Closed EXCEPT !.dfile = f],
                                    !.created = @ \/ f = Concolic]
             d    == [e EXCEPT !.fds[fd].open = TRUE, !.perm[f] = mode]
  <2>1. Quiet /\ (Returns(p, e) \/ Returns(p, d))
    BY <1>3 DEF OpenSymbolic
  <2>2. slot.off = 0 /\ [slot EXCEPT !.open = TRUE].off = 0
    BY DEF Closed
  <2>3. e.fds = [env[p].fds EXCEPT ![fd] = slot] /\ e.fds[fd] = slot /\ e.pending = Idle
    BY <1>1 DEF Shape
  <2>4. d.fds = [env[p].fds EXCEPT ![fd] = [slot EXCEPT !.open = TRUE]] /\ d.pending = Idle
    BY <1>1 DEF Shape
  <2> HIDE DEF slot, e, d
  <2>5. Forward(e) /\ Forward(d)
    BY <1>1, <2>2, <2>3, <2>4 DEF Forward, Shape
  <2> QED
    BY <1>1, <2>1, <2>5, CallForwards DEF Quiet
<1> QED
  BY <1>2, <1>3 DEF Opening, Open, OpenAt

\* close.
LEMMA ClosesForward ==
  ASSUME IInv, WInv, NEW p, Calling(p), NEW fd \in Fd, Close(p, fd)
  PROVE  WInv'
<1>1. PICK d \in CloseOutcomes(env[p], fd) : Returns(p, d)
  BY DEF Close
<1>2. copied' = NoCopy
  BY DEF Close
<1> QED
  BY <1>1, <1>2, Caller, CloseForward, CallForwards

\* dup and dup2 copy an offset.
LEMMA DupForward ==
  ASSUME IInv, WInv, NEW p, Calling(p), NEW fd \in Fd,
         Dup(p, fd) \/ \E newfd \in Fd : Dup2(p, fd, newfd)
  PROVE  WInv'
<1>1. PICK newfd \in Fd : Dup2(p, fd, newfd)
  BY DEF Dup
<1>2. p \in live /\ env[p] \in Shape /\ Forward(env[p]) /\ env[p].pending = Idle
  BY Caller
<1>3. Sound(env[p], hostOpen) /\ copied' = NoCopy
  BY <1>1, Caller DEF IInv, Dup2, Quiet
<1>4. PICK x : /\ x \in IF IsOpen(env[p], newfd) THEN CloseOutcomes(env[p], newfd) ELSE {env[p]}
               /\ Returns(p, [x EXCEPT !.fds[newfd] = [x.fds[fd] EXCEPT !.cloexec = FALSE]])
  BY <1>1 DEF Dup2, DupOutcomes
<1>5. x \in Shape /\ Forward(x) /\ x.pending = Idle
  BY <1>2, <1>3, <1>4, Closes, CloseForward DEF Sound
<1> DEFINE slot == [x.fds[fd] EXCEPT !.cloexec = FALSE]
<1>6. slot.off = x.fds[fd].off /\ slot.dfile = x.fds[fd].dfile
  BY <1>5 DEF Shape, AnySlot
<1>7. Returns(p, [x EXCEPT !.fds[newfd] = slot])
  BY <1>4
<1> HIDE DEF slot
<1>8. slot.dfile # NoFile => slot.off >= 0
  BY <1>5, <1>6 DEF Forward
<1> QED
  BY <1>2, <1>3, <1>5, <1>7, <1>8, SlotForward, CallForwards

\* read copies from the offset to the end of the file at most.
LEMMA ReadForward ==
  ASSUME IInv, WInv, ShortOfEnd, NEW p, Calling(p), NEW fd \in Fd, NEW count \in Count,
         Read(p, fd, count)
  PROVE  WInv'
<1> DEFINE slot == env[p].fds[fd]
<1>1. p \in live /\ p \in Path /\ env[p] \in Shape /\ Forward(env[p])
  BY Caller
<1>2. CASE Symbolic(env[p], fd) /\ ReadSymbolic(p, fd, count)
  <2> DEFINE n == ReadLength(slot, count)
  <2>1. /\ slot.off \in Int /\ slot.off >= 0 /\ slot.off + count < Half /\ count \in Nat
        /\ Size[slot.dfile] \in Nat
    BY <1>1, <1>2, SymbolicSlot
  <2>2. /\ slot.off <= Size[slot.dfile] /\ Copies(slot.dfile, slot.off, n)
        /\ Returns(p, [env[p] EXCEPT !.fds[fd].off = Signed(@ + n)])
    BY <1>2, <2>1 DEF ReadSymbolic
  <2>3. Unsigned(slot.off + count) = slot.off + count
    <3> HIDE DEF slot
    <3>1. slot.off + count \in Int /\ slot.off + count >= 0
      BY <2>1
    <3> QED
      BY <2>1, <3>1, SumsExact
  <2>4. n \in Int /\ n >= 0 /\ slot.off + n <= Size[slot.dfile] /\ slot.off + n < Half
    <3>1. slot.off <= Size[slot.dfile]
      BY <2>2
    <3>2. n = IF slot.off + count > Size[slot.dfile] THEN Size[slot.dfile] - slot.off ELSE count
      BY <2>3 DEF ReadLength
    <3> HIDE DEF n, slot
    <3> QED
      BY <2>1, <3>1, <3>2, Files
  <2>5. Returns(p, [env[p] EXCEPT !.fds[fd].off = slot.off + n])
    <3>1. Signed(slot.off + n) = slot.off + n
      BY <2>1, <2>4, SumsExact
    <3> HIDE DEF n
    <3> QED
      BY <2>2, <3>1
  <2> HIDE DEF n
  <2>6. CopiesWithin'
    BY <2>1, <2>2, <2>4 DEF Copies, CopiesWithin, NoCopy
  <2>7. Forward([env[p] EXCEPT !.fds[fd].off = slot.off + n])
    BY <1>1, <2>1, <2>4, OffsetForward
  <2> QED
    BY <1>1, <2>5, <2>6, <2>7, Forwards DEF Returns
<1>3. ASSUME Concrete(env[p], fd), NEW n \in 0 .. count, ReadConcrete(p, fd, n) PROVE WInv'
  <2> DEFINE o == IF slot.fd = 0 THEN slot.off ELSE slot.off + n
  <2>1. Returns(p, [env[p] EXCEPT !.fds[fd].off = o]) /\ copied' = NoCopy
    BY <1>3 DEF ReadConcrete
  <2>2. o \in Int /\ slot.dfile = NoFile
    BY <1>1, <1>3, SlotData, Files DEF Concrete
  <2> HIDE DEF o
  <2> QED
    BY <1>1, <2>1, <2>2, OffsetForward, CallForwards
<1> QED
  BY <1>2, <1>3, FailsForward DEF Read

\* write copies what fits, and nothing past the end of the file.
LEMMA WriteForward ==
  ASSUME IInv, WInv, ShortOfEnd, NEW p, Calling(p), NEW fd \in Fd, NEW count \in Count,
         Write(p, fd, count)
  PROVE  WInv'
<1> DEFINE slot == env[p].fds[fd]
           f    == slot.dfile
<1>1. p \in live /\ p \in Path /\ env[p] \in Shape /\ Forward(env[p])
  BY Caller
<1>2. CASE Symbolic(env[p], fd) /\ WriteSymbolic(p, fd, count)
  <2> DEFINE n == WriteLength(slot, count)
             d == [env[p] EXCEPT !.fds[fd].off = slot.off + count]
             w == [env[p] EXCEPT !.fds[fd].off = Signed(@ + count),
                                 !.written[f] = @ \union (slot.off .. slot.off + n - 1),
                                 !.stdoutWrites = IF CountsAsStdout(slot, fd) THEN @ + n ELSE @]
  <2>1. /\ slot.off \in Int /\ slot.off >= 0 /\ slot.off + count < Half /\ count \in Nat
        /\ Size[f] \in Nat
    BY <1>1, <1>2, SymbolicSlot
  <2>2. Unsigned(slot.off + count) = slot.off + count /\ Signed(slot.off + count) = slot.off + count
    BY <2>1, SumsExact
  <2>3. n \in Int /\ n >= 0 /\ (n > 0 => slot.off + n <= Size[f])
    BY <2>1, <2>2 DEF WriteLength
  <2>4. CASE Returns(p, w) /\ Copies(f, slot.off, n)
    <3>1. w.fds = d.fds /\ w.pending = d.pending
      BY <1>1, <2>2 DEF Shape
    <3>2. Forward(d)
      BY <1>1, <2>1, OffsetForward
    <3> HIDE DEF n, w, d
    <3>3. CopiesWithin'
      BY <2>1, <2>3, <2>4 DEF Copies, CopiesWithin, NoCopy
    <3>4. Forward(w)
      BY <3>1, <3>2, SameForward
    <3> QED
      BY <1>1, <2>4, <3>3, <3>4, Forwards DEF Returns
  <2> QED
    BY <1>2, <2>4, FailsForward DEF WriteSymbolic
<1>3. ASSUME Concrete(env[p], fd), NEW n \in 0 .. count, WriteConcrete(p, fd, n) PROVE WInv'
  <2> DEFINE o == IF slot.fd \in {1, 2} THEN slot.off ELSE slot.off + n
  <2>1. Returns(p, [env[p] EXCEPT !.fds[fd].off = o]) /\ copied' = NoCopy
    BY <1>3 DEF WriteConcrete, Quiet
  <2>2. o \in Int /\ f = NoFile
    BY <1>1, <1>3, SlotData, Files DEF Concrete
  <2> HIDE DEF o
  <2> QED
    BY <1>1, <2>1, <2>2, OffsetForward, CallForwards
<1> QED
  BY <1>2, <1>3, FailsForward DEF Write

\* lseek.
LEMMA LseekForward ==
  ASSUME IInv, WInv, NEW p, Calling(p), NEW fd \in Fd,
         NEW whence \in {"set", "cur", "end"}, NEW offset \in Offset, Lseek(p, fd, whence, offset)
  PROVE  WInv'
<1> DEFINE slot == env[p].fds[fd]
<1>1. /\ p \in live /\ p \in Path /\ env[p] \in Shape /\ Forward(env[p])
      /\ offset \in Int /\ slot.off \in Int
  BY Caller, SlotData, Files
<1>2. CASE Symbolic(env[p], fd) /\ SeekSymbolic(p, fd, whence, offset)
  <2> DEFINE o == Target(whence, offset, slot.off, Size[slot.dfile])
  <2>1. Size[slot.dfile] \in Int
    BY <1>1, <1>2, SlotData DEF Symbolic, IsOpen
  <2>2. o \in Int
    BY <1>1, <2>1, TargetInt
  <2>3. Returns(p, SeekTo(env[p], fd, o)) /\ copied' = NoCopy
    BY <1>2 DEF SeekSymbolic, Quiet
  <2> HIDE DEF o
  <2> QED
    BY <1>1, <2>2, <2>3, SeekForward, CallForwards
<1>3. CASE Concrete(env[p], fd) /\ SeekConcrete(p, fd, whence, offset)
  <2> DEFINE at   == IF whence = "set" THEN offset ELSE slot.off
             call == [stage |-> "seek", fd |-> fd, whence |-> whence, offset |-> offset]
             d    == IF whence = "set" THEN [env[p] EXCEPT !.fds[fd].off = at]
                     ELSE [env[p] EXCEPT !.pending = call]
  <2>1. at \in Int /\ Returns(p, d) /\ copied' = NoCopy /\ slot.dfile = NoFile
    BY <1>1, <1>3 DEF SeekConcrete, Concrete
  <2>2. Forward(d)
    BY <1>1, <2>1, OffsetForward, PendingForward
  <2> HIDE DEF at, d
  <2> QED
    BY <1>1, <2>1, <2>2, CallForwards
<1> QED
  BY <1>2, <1>3 DEF Lseek

\* getdents, of the symbolic files or up to its first system call.
LEMMA GetdentsForward ==
  ASSUME IInv, WInv, NEW p, Calling(p), NEW fd \in Fd, NEW count \in Count,
         Getdents(p, fd, count)
  PROVE  WInv'
<1>1. p \in live /\ env[p] \in Shape /\ Forward(env[p]) /\ env[p].fds[fd].dfile = NoFile
  BY Caller DEF Getdents, Concrete
<1>2. CASE GetdentsOwn(p, fd, count)
  <2> DEFINE o == IF count >= DirBase THEN DirBase ELSE count
  <2>1. o \in Int
    BY Files, FilesAssumption
  <2>2. Returns(p, [env[p] EXCEPT !.fds[fd].off = o]) /\ copied' = NoCopy
    BY <1>2 DEF GetdentsOwn, Quiet
  <2> HIDE DEF o
  <2> QED
    BY <1>1, <2>1, <2>2, OffsetForward, CallForwards
<1>3. CASE GetdentsHost(p, fd)
  <2> DEFINE call == [Idle EXCEPT !.stage = "dents", !.fd = fd]
  <2>1. Returns(p, [env[p] EXCEPT !.pending = call]) /\ copied' = NoCopy
    BY <1>3 DEF GetdentsHost
  <2>2. call.fd = fd
    BY DEF Idle
  <2> HIDE DEF call
  <2> QED
    BY <1>1, <2>1, <2>2, PendingForward, CallForwards
<1> QED
  BY <1>2, <1>3 DEF Getdents

\* The later system calls of lseek and getdents, which are of concrete files.
LEMMA ResumeForward ==
  ASSUME IInv, WInv, NEW p \in Path, Resume(p)
  PROVE  WInv'
<1> DEFINE call == env[p].pending
           d    == env[p].fds[call.fd].fd
<1>1. /\ p \in live /\ call \in AnyCall /\ call.fd \in Fd
      /\ call.whence \in {"set", "cur", "end"} /\ call.offset \in Int
  BY DEF Resume, IInv, Shape, AnyCall
<1>2. env[p] \in Shape /\ Forward(env[p]) /\ Sound(env[p], hostOpen) /\ call # Idle
  BY <1>1 DEF IInv, WInv, Resume
<1>3. d \in OsFd /\ hostPos[d] \in Int /\ env[p].fds[call.fd].dfile = NoFile
  BY <1>1, <1>2, SlotData DEF Forward
<1>4. ASSUME NEW size \in Count, SeekSecond(p, size) PROVE WInv'
  <2> DEFINE at == Target(call.whence, call.offset, hostPos[d], size)
             e  == SeekTo(env[p], call.fd, at)
  <2>1. at \in Int
    <3>1. size \in Int
      BY Files
    <3> HIDE DEF call, d
    <3> QED
      BY <1>1, <1>3, <3>1, TargetInt
  <2>2. env' = [env EXCEPT ![p] = [e EXCEPT !.pending = Idle]] /\ live' = live /\ copied' = NoCopy
    BY <1>4 DEF SeekSecond
  <2> HIDE DEF at, d, call
  <2>3. e \in Shape /\ Forward(e)
    BY <1>1, <1>2, <2>1, SeekForward, SeekTos DEF Sound
  <2> HIDE DEF e
  <2> QED
    BY <1>1, <2>2, <2>3, PendingForward, QuietForwards
<1>5. ASSUME NEW n \in Count, DentsSecond(p, n) PROVE WInv'
  <2>1. copied' = NoCopy /\ live' = live
    BY <1>5 DEF DentsSecond
  <2>2. CASE env' = [env EXCEPT ![p].pending.stage = "tell"]
    <3> DEFINE tell == [call EXCEPT !.stage = "tell"]
    <3>1. env' = [env EXCEPT ![p] = [env[p] EXCEPT !.pending = tell]]
      BY <2>2
    <3>2. tell.fd = call.fd
      BY <1>1 DEF AnyCall
    <3> HIDE DEF d, call, tell
    <3> QED
      BY <1>1, <1>2, <1>3, <2>1, <3>1, <3>2, PendingForward, QuietForwards
  <2>3. CASE env' = [env EXCEPT ![p].pending = Idle]
    <3>1. env' = [env EXCEPT ![p] = [env[p] EXCEPT !.pending = Idle]]
      BY <2>3
    <3> QED
      BY <1>1, <1>2, <2>1, <3>1, PendingForward, QuietForwards
  <2> QED
    BY <1>5, <2>2, <2>3 DEF DentsSecond
<1>6. CASE DentsThird(p)
  <2> DEFINE o == Signed(hostPos[d] + DirBase)
             e == [env[p] EXCEPT !.fds[call.fd].off = o]
  <2>1. o \in Int
    BY <1>3, SignedInt, FilesAssumption
  <2>2. /\ env' = [env EXCEPT ![p] = [env[p] EXCEPT !.fds[call.fd].off = o, !.pending = Idle]]
        /\ live' = live /\ copied' = NoCopy
    BY <1>6 DEF DentsThird, Quiet
  <2> HIDE DEF o
  <2>3. e \in Shape /\ Forward(e)
    BY <1>1, <1>2, <1>3, <2>1, OffsetForward, OffsetMoves DEF Sound
  <2>4. [env[p] EXCEPT !.fds[call.fd].off = o, !.pending = Idle] = [e EXCEPT !.pending = Idle]
    OBVIOUS
  <2> HIDE DEF e
  <2> QED
    BY <1>1, <2>2, <2>3, <2>4, PendingForward, QuietForwards
<1> QED
  BY <1>4, <1>5, <1>6 DEF Resume

\* chmod, fchmod, fcntl and the removal of names leave offsets alone.
LEMMA NamesForward ==
  ASSUME IInv, WInv, NEW p, Calling(p),
         \/ \E perm \in Mode : Chmod(p, perm) \/ \E fd \in Fd : Fchmod(p, fd, perm)
         \/ \E fd \in Fd, cloexec \in BOOLEAN : Fcntl(p, fd, cloexec)
         \/ \E kind : Remove(p, kind)
  PROVE  WInv'
<1>1. p \in live /\ env[p] \in Shape /\ Forward(env[p]) /\ env[p].pending = Idle
  BY Caller
<1>2. CASE \E perm \in Mode : Chmod(p, perm) \/ \E fd \in Fd : Fchmod(p, fd, perm)
  <2>1. \A f, perm : \A d \in ChmodOutcomes(env[p], f, perm) :
          d.fds = env[p].fds /\ d.pending = env[p].pending
    BY <1>1 DEF ChmodOutcomes, Shape
  <2>2. \A f, perm : \A d \in ChmodOutcomes(env[p], f, perm) : Forward(d)
    BY <1>1, <2>1, SameForward
  <2>3. CASE Returns(p, Aborted(env[p])) /\ Quiet
    BY <2>3, FailsForward
  <2>4. CASE \E f, perm : \E d \in ChmodOutcomes(env[p], f, perm) : Returns(p, d) /\ Quiet
    BY <1>1, <2>2, <2>4, CallForwards DEF Quiet
  <2> QED
    BY <1>2, <2>3, <2>4 DEF Chmod, Fchmod
<1>3. CASE \E fd \in Fd, cloexec \in BOOLEAN : Fcntl(p, fd, cloexec)
  <2>1. PICK fd \in Fd, cloexec \in BOOLEAN : Fcntl(p, fd, cloexec)
    BY <1>3
  <2> DEFINE slot == [env[p].fds[fd] EXCEPT !.cloexec = cloexec]
  <2>2. slot.dfile # NoFile => slot.off >= 0
    BY <1>1 DEF Forward, Shape, AnySlot
  <2>3. Returns(p, [env[p] EXCEPT !.fds[fd] = slot]) /\ copied' = NoCopy
    BY <2>1 DEF Fcntl, Quiet
  <2> HIDE DEF slot
  <2> QED
    BY <1>1, <2>2, <2>3, SlotForward, CallForwards
<1>4. CASE \E kind : Remove(p, kind)
  <2>1. PICK f : Returns(p, [env[p] EXCEPT !.exists = @ \ {f}]) /\ copied' = NoCopy
    BY <1>4 DEF Remove, Quiet
  <2> DEFINE d == [env[p] EXCEPT !.exists = @ \ {f}]
  <2>2. d.fds = env[p].fds /\ d.pending = env[p].pending
    BY <1>1 DEF Shape
  <2> HIDE DEF d
  <2>3. Forward(d)
    BY <1>1, <2>2, SameForward
  <2> QED
    BY <1>1, <2>1, <2>3, CallForwards DEF d
<1> QED
  BY <1>2, <1>3, <1>4

\* Every step keeps offsets from being negative, and copies within a file.
LEMMA NextForward ==
  ASSUME IInv, WInv, ShortOfEnd, [Next]_vars
  PROVE  WInv'
<1>1. CASE UNCHANGED vars
  BY <1>1 DEF vars, WInv, CopiesWithin
<1>2. ASSUME NEW p \in Path, Call(p) PROVE WInv'
  <2>1. Calling(p)
    BY <1>2 DEF Call
  <2>2. CASE Naming(p)
    BY <2>1, <2>2, NamesForward, FailsForward DEF Naming, Getcwd, Rmdir, Unlink, Unlinkat
  <2>3. ASSUME NEW fd \in Fd, Opening(p, fd) PROVE WInv'
    BY <2>1, <2>3, OpenForward
  <2>4. ASSUME NEW fd \in Fd, Transferring(p, fd) PROVE WInv'
    BY <2>1, <2>4, ReadForward, WriteForward, GetdentsForward, LseekForward DEF Transferring
  <2>5. ASSUME NEW fd \in Fd, Managing(p, fd) PROVE WInv'
    BY <2>1, <2>5, ClosesForward, DupForward, FailsForward, NamesForward DEF Managing, Ftruncate
  <2> QED
    BY <1>2, <2>2, <2>3, <2>4, <2>5 DEF Call
<1>3. ASSUME NEW p \in Path, NEW q \in Path, Fork(p, q) PROVE WInv'
  <2>1. /\ env' = [env EXCEPT ![q] = env[p]] /\ live' = live \union {q} /\ p \in live
        /\ copied' = NoCopy
    BY <1>3 DEF Fork, Quiet
  <2>2. \A r \in live' : Forward(env'[r])
    BY <2>1 DEF IInv, WInv
  <2> QED
    BY <2>1, <2>2 DEF WInv, CopiesWithin, NoCopy
<1> QED
  BY <1>1, <1>2, <1>3, ResumeForward DEF Next

\* At first every offset is 0.
LEMMA InitForward ==
  Init => WInv
<1> SUFFICES ASSUME Init PROVE WInv
  OBVIOUS
<1>1. \A fd \in Fd : InitialFds[fd].off = 0
  BY DEF InitialFds, Closed
<1>2. \A p \in Path : env[p].fds = InitialFds /\ env[p].pending = Idle
  BY DEF Init
<1>3. live \subseteq Path /\ copied = NoCopy
  BY FilesAssumption DEF Init
<1> QED
  BY <1>1, <1>2, <1>3 DEF WInv, Forward, CopiesWithin, NoCopy

\* As long as no write takes the offset of a symbolic file to the end of off64_t, read and
\* write copy within the contents of their file, whatever seeks and duplicates have done to
\* the offset (read and write of runtime/POSIX/fd.c).
THEOREM CopiesStayWithin == Spec /\ []ShortOfEnd => []CopiesWithin
<1>1. IInv /\ WInv /\ ShortOfEnd /\ [Next]_vars => WInv'
  BY NextForward
<1>2. WInv => CopiesWithin
  BY DEF WInv
<1> QED
  BY <1>1, <1>2, InitForward, Invariance, PTL DEF Spec
===============================================================================
