------------------------------ MODULE WebConsole ------------------------------
(***************************************************************************)
(* The web console, client-web/app.py: Flask serves each request on a      *)
(* thread of its own and nothing orders them, so status, build, rebuild,   *)
(* test and runtime requests meet in the one build directory.  A step is   *)
(* one access to the file system or one child process; the linker is       *)
(* several, because what it leaves is not a program until it is done.      *)
(***************************************************************************)
EXTENDS Naturals

CONSTANTS
  Requests,  \* the threads that serve requests
  Kinds      \* which requests come in, a subset of AllKinds

AllKinds == {"status", "build", "rebuild", "test", "runtime"}

ASSUME WebAssumption ==
  /\ Kinds \subseteq AllKinds
  /\ \A r \in Requests : r \notin {"none", "whole"}

VARIABLES
  dir,       \* the build directory exists
  config,    \* it holds what cmake generates
  binary,    \* build/Kernova: "none", "whole", or the request that is linking it
  pc,        \* pc[r]: where the thread is, or how it has answered
  kind,      \* kind[r]: what it was asked
  todo,      \* todo[r]: what rmtree still has to remove
  seen,      \* seen[r]: what get_status has found
  disturbed  \* auxiliary: the requests beside which another removed or linked

files == <<dir, config, binary>>
vars == <<dir, config, binary, pc, kind, todo, seen, disturbed>>

Removing == {"remove", "rmdir"}
Linking == {"create", "link"}
Outcomes == {"ok", "failed", "raised"}
Served == {"idle"} \cup Outcomes
Labels == {"exists", "dir_exists", "stat", "rmtree", "mkdir", "is_dir", "configure",
           "make", "ctest", "check", "exec", "running"} \cup Removing \cup Linking \cup Served
NothingSeen == [binary |-> FALSE, dir |-> FALSE]

Init ==
  /\ dir = FALSE
  /\ config = FALSE
  /\ binary = "none"
  /\ pc = [r \in Requests |-> "idle"]
  /\ kind = [r \in Requests |-> "none"]
  /\ todo = [r \in Requests |-> {}]
  /\ seen = [r \in Requests |-> NothingSeen]
  /\ disturbed = {}

-----------------------------------------------------------------------------
Goto(r, l) == pc' = [pc EXCEPT ![r] = l] /\ UNCHANGED kind

(* The thread is gone once it has answered.                                *)
Answer(r, o) ==
  /\ pc' = [pc EXCEPT ![r] = o]
  /\ kind' = [kind EXCEPT ![r] = "none"]

(* A route is entered, on a new thread.                                    *)
FirstLabel == [status |-> "exists", build |-> "mkdir", rebuild |-> "rmtree",
               test |-> "configure", runtime |-> "check"]

Receive(r) ==
  /\ pc[r] \in Served
  /\ \E k \in Kinds :
       /\ kind' = [kind EXCEPT ![r] = k]
       /\ pc' = [pc EXCEPT ![r] = FirstLabel[k]]
  /\ seen' = [seen EXCEPT ![r] = NothingSeen]
  /\ UNCHANGED <<files, todo>>

-----------------------------------------------------------------------------
(* get_status.  Mutant: the answer of an earlier request is used again.    *)
SeeCached(r) ==
  /\ pc[r] = "exists"
  /\ Goto(r, "dir_exists")
  /\ UNCHANGED <<files, todo, seen>>

SeeBinary(r) ==
  /\ pc[r] = "exists"
  /\ seen' = [seen EXCEPT ![r].binary = binary # "none"]
  /\ Goto(r, "dir_exists")
  /\ UNCHANGED <<files, todo>>

SeeDir(r) ==
  /\ pc[r] = "dir_exists"
  /\ seen' = [seen EXCEPT ![r].dir = dir]
  /\ IF seen[r].binary THEN Goto(r, "stat") ELSE Answer(r, "ok")
  /\ UNCHANGED <<files, todo>>

Stat(r) ==
  /\ pc[r] = "stat"
  /\ Answer(r, IF binary = "none" THEN "raised" ELSE "ok")
  /\ UNCHANGED <<files, todo, seen>>

-----------------------------------------------------------------------------
(* build(clean=True): rmtree lists the directory, removes what it listed   *)
(* and then the directory, if that is empty by then; errors are ignored.   *)
(* Mutant: the directory itself is among the entries.                      *)
ScanWithDir(r) ==
  /\ pc[r] = "rmtree"
  /\ todo' = [todo EXCEPT ![r] = {"config", "binary", "dir"}]
  /\ Goto(r, IF dir THEN "remove" ELSE "mkdir")
  /\ UNCHANGED <<files, seen>>

Scan(r) ==
  /\ pc[r] = "rmtree"
  /\ todo' = [todo EXCEPT ![r] = {e \in {"config", "binary"} :
                                    IF e = "config" THEN config ELSE binary # "none"}]
  /\ Goto(r, IF dir THEN "remove" ELSE "mkdir")
  /\ UNCHANGED <<files, seen>>

Remove(r) ==
  /\ pc[r] = "remove"
  /\ \E e \in todo[r] :
       /\ config' = (config /\ e # "config")
       /\ binary' = IF e = "binary" THEN "none" ELSE binary
       /\ todo' = [todo EXCEPT ![r] = @ \ {e}]
  /\ UNCHANGED <<dir, pc, kind, seen>>

Emptied(r) ==
  /\ pc[r] = "remove"
  /\ todo[r] = {}
  /\ Goto(r, "rmdir")
  /\ UNCHANGED <<files, todo, seen>>

Rmdir(r) ==
  /\ pc[r] = "rmdir"
  /\ dir' = (dir /\ (config \/ binary # "none"))
  /\ Goto(r, "mkdir")
  /\ UNCHANGED <<config, binary, todo, seen>>

(* mkdir(exist_ok=True): where os.mkdir finds something, is_dir decides.   *)
Mkdir(r) ==
  /\ pc[r] = "mkdir"
  /\ dir' = TRUE
  /\ Goto(r, IF dir THEN "is_dir" ELSE "configure")
  /\ UNCHANGED <<config, binary, todo, seen>>

IsDir(r) ==
  /\ pc[r] = "is_dir"
  /\ IF dir THEN Goto(r, "configure") ELSE Answer(r, "raised")
  /\ UNCHANGED <<files, todo, seen>>

-----------------------------------------------------------------------------
(* The children of build and of test.sh: cmake configures (and makes the   *)
(* directory if it has to), then builds.  What comes after the build.      *)
Built(r) ==
  CASE kind[r] = "test"    -> Goto(r, "ctest")
    [] kind[r] = "runtime" -> Goto(r, "exec")
    [] OTHER               -> Answer(r, "ok")

Configure(r) ==
  /\ pc[r] = "configure"
  /\ dir' = TRUE
  /\ config' = TRUE
  /\ Goto(r, "make")
  /\ UNCHANGED <<binary, todo, seen>>

ConfigureFails(r) ==
  /\ pc[r] = "configure"
  /\ dir' = TRUE
  /\ Answer(r, "failed")
  /\ UNCHANGED <<config, binary, todo, seen>>

(* The file exists and is newer than its sources, whoever writes it.       *)
UpToDate(r) ==
  /\ pc[r] = "make"
  /\ config
  /\ binary # "none"
  /\ Built(r)
  /\ UNCHANGED <<files, todo, seen>>

(* Mutant: the return code of the build is not looked at.                  *)
MakeUnseen(r) ==
  /\ pc[r] = "make"
  /\ Built(r)
  /\ UNCHANGED <<files, todo, seen>>

MakeFails(r) ==
  /\ pc[r] = "make"
  /\ Answer(r, "failed")
  /\ UNCHANGED <<files, todo, seen>>

(* The linker unlinks the old file, creates a new one and completes it,    *)
(* unless somebody else has unlinked it in the meantime.                   *)
Relink(r) ==
  /\ pc[r] = "make"
  /\ config
  /\ binary' = "none"
  /\ Goto(r, "create")
  /\ UNCHANGED <<dir, config, todo, seen>>

LinkCreate(r) ==
  /\ pc[r] = "create"
  /\ IF dir THEN binary' = r /\ Goto(r, "link")
            ELSE Answer(r, "failed") /\ UNCHANGED binary
  /\ UNCHANGED <<dir, config, todo, seen>>

LinkEnd(r) ==
  /\ pc[r] = "link"
  /\ binary' = IF binary = r THEN "whole" ELSE binary
  /\ Built(r)
  /\ UNCHANGED <<dir, config, todo, seen>>

LinkFails(r) ==
  /\ pc[r] = "link"
  /\ binary' = IF binary = r THEN "none" ELSE binary
  /\ Answer(r, "failed")
  /\ UNCHANGED <<dir, config, todo, seen>>

Ctest(r) ==
  /\ pc[r] = "ctest"
  /\ \/ config /\ Answer(r, "ok")
     \/ Answer(r, "failed")
  /\ UNCHANGED <<files, todo, seen>>

-----------------------------------------------------------------------------
(* run_runtime.  Mutant: the binary is taken for granted.                  *)
RuntimeUnchecked(r) ==
  /\ pc[r] = "check"
  /\ Goto(r, "exec")
  /\ UNCHANGED <<files, todo, seen>>

RuntimeCheck(r) ==
  /\ pc[r] = "check"
  /\ Goto(r, IF binary # "none" THEN "exec" ELSE "mkdir")
  /\ UNCHANGED <<files, todo, seen>>

(* A missing or half-written program cannot be executed.                   *)
Exec(r) ==
  /\ pc[r] = "exec"
  /\ IF binary = "whole" THEN Goto(r, "running") ELSE Answer(r, "raised")
  /\ UNCHANGED <<files, todo, seen>>

RuntimeEnds(r) ==
  /\ pc[r] = "running"
  /\ \E o \in {"ok", "failed"} : Answer(r, o)
  /\ UNCHANGED <<files, todo, seen>>

-----------------------------------------------------------------------------
Step(r) ==
  \/ Receive(r) \/ SeeBinary(r) \/ SeeDir(r) \/ Stat(r)
  \/ Scan(r) \/ Remove(r) \/ Emptied(r) \/ Rmdir(r) \/ Mkdir(r) \/ IsDir(r)
  \/ Configure(r) \/ ConfigureFails(r) \/ UpToDate(r) \/ MakeFails(r)
  \/ Relink(r) \/ LinkCreate(r) \/ LinkEnd(r) \/ LinkFails(r) \/ Ctest(r)
  \/ RuntimeCheck(r) \/ Exec(r) \/ RuntimeEnds(r)

(* s removes files, or replaces the binary.                                *)
Interferes(s) == pc[s] \in Removing \cup Linking

Observe ==
  disturbed' = {r \in Requests : /\ pc'[r] \notin Served
                                 /\ \/ r \in disturbed
                                    \/ \E s \in Requests \ {r} : Interferes(s)'}

Next == \E r \in Requests : Step(r) /\ Observe

Spec == Init /\ [][Next]_vars

-----------------------------------------------------------------------------
(* Properties                                                              *)

(* Every variable has its type.                                            *)
WebTypeOK ==
  /\ dir \in BOOLEAN
  /\ config \in BOOLEAN
  /\ binary \in {"none", "whole"} \cup Requests
  /\ pc \in [Requests -> Labels]
  /\ kind \in [Requests -> AllKinds \cup {"none"}]
  /\ todo \in [Requests -> SUBSET {"config", "binary"}]
  /\ seen \in [Requests -> [binary : BOOLEAN, dir : BOOLEAN]]
  /\ disturbed \in SUBSET Requests

Answers(r, o) == pc[r] \notin Served /\ pc'[r] = o

(* Files are tested in one call and used in the next.  An exception that   *)
(* reaches Flask (stat, mkdir, starting the binary) is only possible       *)
(* beside another request that removes or links: concurrent configuring,   *)
(* compiling, testing and running is harmless.                             *)
RaisesOnlyDisturbed ==
  [][\A r \in Requests : Answers(r, "raised") => r \in disturbed]_vars

(* Without such a request beside it, "success" of a build, of the tests or *)
(* of a run means that the complete binary is there.                       *)
SuccessDelivers ==
  [][\A r \in Requests :
       Answers(r, "ok") /\ kind[r] # "status" /\ r \notin disturbed => binary' = "whole"]_vars

(* Likewise the two flags and the size of a status report fit together:    *)
(* a reported binary is complete and in a directory that was reported too, *)
(* and a binary not reported does not exist.                               *)
StatusConsistent ==
  [][\A r \in Requests :
       Answers(r, "ok") /\ kind[r] = "status" /\ r \notin disturbed =>
         /\ seen'[r].binary => seen'[r].dir
         /\ binary' = IF seen'[r].binary THEN "whole" ELSE "none"]_vars
=============================================================================
