---------------------------- MODULE NativeLoader ----------------------------
(***************************************************************************)
(* UTF8Util.java, the static initializer, in several JVMs of one user.     *)
(* When the library is inside a jar the initializer deletes the copy in    *)
(* the user's home directory, makes a new one and loads it by its path;    *)
(* nothing keeps two JVMs from doing so at the same time, and a JVM may be *)
(* killed at any point.                                                    *)
(*                                                                         *)
(* The file system is external: a deleted file lives on for the process    *)
(* that is writing it, and a copy fails if there is a file at the path.    *)
(* A JVM makes at most one file, so a file is named by the JVM it is of.   *)
(***************************************************************************)
EXTENDS Integers

CONSTANTS
  JVMs,      \* processes; one that is started again is another one
  Size,      \* writes that it takes to copy the library
  Leftover,  \* the file of an earlier day, complete or not
  None       \* no file

ASSUME NamesAssumption == Leftover \notin JVMs /\ None \notin JVMs /\ Leftover # None
ASSUME SizeAssumption == Size \in Nat \ {0}

VARIABLES
  pc,       \* the line of the initializer that a JVM runs next
  path,     \* the file at the path in the home directory
  written,  \* how much of its copy a JVM has written
  loaded,   \* the file whose code a JVM runs
  broken,   \* history: JVMs that were killed, had an I/O error or no library to load
  met       \* history: JVMs whose initializer ran beside that of another one

vars == << pc, path, written, loaded, broken, met >>
history == << broken, met >>

Line == {"new", "delete", "copy", "write", "load", "loaded", "failed", "killed"}
Running(p) == pc[p] \in {"delete", "copy", "write", "load"}
Files == JVMs \cup {Leftover}

GoTo(p, line) == pc' = [pc EXCEPT ![p] = line]
Load(p, file) == loaded' = [loaded EXCEPT ![p] = file] /\ GoTo(p, "loaded")
Break(p) == broken' = broken \cup {p}

-----------------------------------------------------------------------------
\* The class path is a directory: the library is loaded where it is.
LoadInPlace(p) ==
  /\ pc[p] = "new"
  /\ Load(p, p)
  /\ UNCHANGED << path, written, history >>

\* What is there is not a library, or a part of one: UnsatisfiedLinkError.
LoadInPlaceFails(p) ==
  /\ pc[p] = "new"
  /\ GoTo(p, "failed") /\ Break(p)
  /\ UNCHANGED << path, written, loaded, met >>

\* The class path has no such resource.
NoResource(p) ==
  /\ pc[p] = "new"
  /\ GoTo(p, "failed") /\ Break(p)
  /\ UNCHANGED << path, written, loaded, met >>

Start(p) ==
  /\ pc[p] = "new"
  /\ GoTo(p, "delete")
  /\ LET others == {q \in JVMs : Running(q)}
     IN  met' = met \cup others \cup (IF others = {} THEN {} ELSE {p})
  /\ UNCHANGED << path, written, loaded, broken >>

DeleteMissing(p) ==
  /\ pc[p] = "delete"
  /\ GoTo(p, "copy")
  /\ UNCHANGED << path, written, loaded, history >>

\* Files.deleteIfExists
Delete(p) ==
  /\ pc[p] = "delete"
  /\ path' = None
  /\ GoTo(p, "copy")
  /\ UNCHANGED << written, loaded, history >>

CreateEmpty(p) ==
  /\ pc[p] = "copy" /\ path = None
  /\ path' = p
  /\ GoTo(p, "load")
  /\ UNCHANGED << written, loaded, history >>

\* Files.copy: makes the file ...
Create(p) ==
  /\ pc[p] = "copy" /\ path = None
  /\ path' = p
  /\ GoTo(p, "write")
  /\ UNCHANGED << written, loaded, history >>

\* ... or throws FileAlreadyExistsException, which the initializer wraps ...
AlreadyExists(p) ==
  /\ pc[p] = "copy" /\ path # None
  /\ GoTo(p, "failed")
  /\ UNCHANGED << path, written, loaded, history >>

WriteOn(p) ==
  /\ pc[p] = "write"
  /\ written' = [written EXCEPT ![p] = @ + 1]
  /\ UNCHANGED << pc, path, loaded, history >>

\* ... then writes it piece by piece, wherever its name has gone ...
Write(p) ==
  /\ pc[p] = "write" /\ written[p] < Size
  /\ written' = [written EXCEPT ![p] = @ + 1]
  /\ UNCHANGED << pc, path, loaded, history >>

\* ... to its end.
Copied(p) ==
  /\ pc[p] = "write" /\ written[p] = Size
  /\ GoTo(p, "load")
  /\ UNCHANGED << path, written, loaded, history >>

\* System.load opens what is at the path, whoever made it.
Complete(file) == file \in JVMs /\ written[file] = Size

LoadCopy(p) ==
  /\ pc[p] = "load" /\ Complete(path)
  /\ Load(p, path)
  /\ UNCHANGED << path, written, history >>

LoadFailsRetry(p) ==
  /\ pc[p] = "load" /\ ~Complete(path)
  /\ GoTo(p, "delete")
  /\ written' = [written EXCEPT ![p] = 0]
  /\ UNCHANGED << path, loaded, history >>

\* There is no file, or a part of one: UnsatisfiedLinkError.
LoadFails(p) ==
  /\ pc[p] = "load" /\ ~Complete(path)
  /\ GoTo(p, "failed")
  /\ UNCHANGED << path, written, loaded, history >>

\* A file operation fails; what has been written stays.  UncheckedIOException.
IOError(p) ==
  /\ pc[p] \in {"delete", "copy", "write"}
  /\ GoTo(p, "failed") /\ Break(p)
  /\ UNCHANGED << path, written, loaded, met >>

Kill(p) ==
  /\ Running(p)
  /\ GoTo(p, "killed") /\ Break(p)
  /\ UNCHANGED << path, written, loaded, met >>

-----------------------------------------------------------------------------
Init ==
  /\ pc = [p \in JVMs |-> "new"]
  /\ path \in {None, Leftover}
  /\ written = [p \in JVMs |-> 0]
  /\ loaded = [p \in JVMs |-> None]
  /\ broken = {} /\ met = {}

Step(p) ==
  \/ Delete(p) \/ Create(p) \/ AlreadyExists(p) \/ Write(p) \/ Copied(p)
  \/ LoadCopy(p) \/ LoadFails(p)

Next ==
  \E p \in JVMs :
    \/ LoadInPlace(p) \/ LoadInPlaceFails(p) \/ NoResource(p)
    \/ Start(p) \/ Step(p) \/ IOError(p) \/ Kill(p)

\* An initializer that runs goes on running, or its JVM is killed.
Fairness == \A p \in JVMs : WF_vars(Step(p))

Spec == Init /\ [][Next]_vars /\ Fairness

-----------------------------------------------------------------------------
(* Properties.                                                             *)

TypeOK ==
  /\ pc \in [JVMs -> Line]
  /\ path \in Files \cup {None}
  /\ written \in [JVMs -> 0..Size]
  /\ loaded \in [JVMs -> Files \cup {None}]
  /\ broken \subseteq JVMs /\ met \subseteq JVMs

\* A JVM whose initializer runs beside no other runs the library of its own jar,
\* whatever those before it have left at the path: an old version, or the part
\* that a JVM had copied when it was killed.
AloneLoads ==
  \A p \in JVMs :
    pc[p] \in {"loaded", "failed"} /\ p \notin broken \cup met => loaded[p] = p

\* However the initializers interleave, deleting and overtaking each other's
\* files, they do not all fail: when none was killed, had an I/O error or
\* no library to load, some JVM has loaded the file it copied.
SomeoneLoads ==
  (\E p \in JVMs : pc[p] # "new") /\ (\A p \in JVMs : ~Running(p)) /\ broken = {}
    => \E p \in JVMs : loaded[p] = p

\* ... and it comes to that: two initializers do not keep each other busy.
LoadedInTheEnd ==
  (\E p \in JVMs : Running(p)) ~> (broken # {} \/ \E p \in JVMs : loaded[p] = p)

=============================================================================
