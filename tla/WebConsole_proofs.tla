-------------------------- MODULE WebConsole_proofs --------------------------
(* Proofs about WebConsole, for any number of concurrent requests.         *)
EXTENDS WebConsole, TLAPS

(* Where a status request is, and where the others are.                    *)
StatusLabels == {"exists", "dir_exists", "stat"}

Kinded(r) ==
  /\ pc[r] \in StatusLabels <=> kind[r] = "status"
  /\ pc[r] \in Served <=> kind[r] = "none"

(* Only the linker that is at work owns an incomplete binary.              *)
Linker == binary \in Requests => pc[binary] = "link"

(* A binary keeps its directory from being removed.                        *)
Housed == binary # "none" => dir

(* Whoever runs beside a request that removes or links knows it.           *)
Observed ==
  \A r, s \in Requests :
    r # s /\ pc[r] \notin Served /\ Interferes(s) => r \in disturbed

(* What an undisturbed request has found is still so.                      *)
Found(r) ==
  /\ pc[r] = "is_dir" => dir
  /\ pc[r] = "dir_exists" => binary = IF seen[r].binary THEN "whole" ELSE "none"
  /\ pc[r] = "stat" => binary = "whole" /\ seen[r].binary /\ seen[r].dir
  /\ pc[r] \in {"exec", "running", "ctest"} => binary = "whole"
  /\ pc[r] = "link" => binary = r

WebInv ==
  /\ WebTypeOK
  /\ \A r \in Requests : Kinded(r)
  /\ Linker
  /\ Housed
  /\ Observed
  /\ \A r \in Requests \ disturbed : Found(r)

LEMMA InitWebInv == Init => WebInv
  <1> SUFFICES ASSUME Init PROVE WebInv
    OBVIOUS
  <1>1. WebTypeOK
    BY DEF Init, WebTypeOK, Labels, Served, NothingSeen
  <1>2. \A r \in Requests : Kinded(r)
    BY DEF Init, Kinded, StatusLabels, Served
  <1>3. Linker /\ Housed
    BY WebAssumption DEF Init, Linker, Housed
  <1>4. Observed
    BY DEF Init, Observed, Served
  <1>5. \A r \in Requests : Found(r)
    BY DEF Init, Found
  <1> QED
    BY <1>1, <1>2, <1>3, <1>4, <1>5 DEF WebInv

-----------------------------------------------------------------------------
(* A step of s touches the variables of no other thread.                   *)
LEMMA OwnThread ==
  ASSUME WebTypeOK, NEW s \in Requests, Step(s), NEW r \in Requests, r # s
  PROVE  pc'[r] = pc[r] /\ kind'[r] = kind[r] /\ seen'[r] = seen[r]
  BY DEF WebTypeOK, Step, Receive, SeeBinary, SeeDir, Stat, Scan, Remove, Emptied, Rmdir,
         Mkdir, IsDir, Configure, ConfigureFails, UpToDate, MakeFails, Relink, LinkCreate,
         LinkEnd, LinkFails, Ctest, RuntimeCheck, Exec, RuntimeEnds, Goto, Answer, Built

LEMMA StepType ==
  ASSUME WebTypeOK, NEW s \in Requests, Step(s), Observe
  PROVE  WebTypeOK'
  <1> USE DEF WebTypeOK, Labels, Served, Outcomes, Removing, Linking
  <1>1. disturbed' \in SUBSET Requests
    BY DEF Observe
  <1>2. CASE Receive(s)
    BY <1>1, <1>2, WebAssumption DEF Receive, FirstLabel, AllKinds, files, NothingSeen
  <1>3. CASE SeeBinary(s) \/ SeeDir(s) \/ Stat(s)
    <2>1. CASE SeeBinary(s)
      <3>1. seen' \in [Requests -> [binary : BOOLEAN, dir : BOOLEAN]]
        BY <2>1 DEF SeeBinary
      <3> QED
        BY <1>1, <2>1, <3>1 DEF SeeBinary, Goto, files
    <2>2. CASE SeeDir(s)
      <3>1. seen' \in [Requests -> [binary : BOOLEAN, dir : BOOLEAN]]
        BY <2>2 DEF SeeDir
      <3>2. pc' \in [Requests -> Labels] /\ kind' \in [Requests -> AllKinds \cup {"none"}]
        BY <2>2 DEF SeeDir, Goto, Answer
      <3> QED
        BY <1>1, <2>2, <3>1, <3>2 DEF SeeDir, files
    <2>3. CASE Stat(s)
      BY <1>1, <2>3 DEF Stat, Answer, files
    <2> QED
      BY <1>3, <2>1, <2>2, <2>3
  <1>4. CASE Scan(s) \/ Remove(s) \/ Emptied(s)
    <2>1. CASE Scan(s)
      <3>1. todo' \in [Requests -> SUBSET {"config", "binary"}]
        BY <2>1 DEF Scan
      <3> QED
        BY <1>1, <2>1, <3>1 DEF Scan, Goto, files
    <2>2. CASE Remove(s)
      BY <1>1, <2>2 DEF Remove
    <2>3. CASE Emptied(s)
      BY <1>1, <2>3 DEF Emptied, Goto, files
    <2> QED
      BY <1>4, <2>1, <2>2, <2>3
  <1>5. CASE Rmdir(s) \/ Mkdir(s) \/ IsDir(s)
    BY <1>1, <1>5 DEF Rmdir, Mkdir, IsDir, Goto, Answer, files
  <1>6. ASSUME Built(s)
        PROVE  pc' \in [Requests -> Labels] /\ kind' \in [Requests -> AllKinds \cup {"none"}]
    BY <1>6 DEF Built, Goto, Answer
  <1>7. CASE Configure(s) \/ ConfigureFails(s) \/ UpToDate(s) \/ MakeFails(s)
    <2>1. CASE UpToDate(s)
      BY <1>1, <1>6, <2>1 DEF UpToDate, files
    <2> QED
      BY <1>1, <1>7, <2>1 DEF Configure, ConfigureFails, MakeFails, Goto, Answer, files
  <1>9. CASE Relink(s) \/ LinkCreate(s) \/ LinkEnd(s) \/ LinkFails(s)
    <2>1. CASE LinkEnd(s)
      BY <1>1, <1>6, <2>1 DEF LinkEnd
    <2>2. CASE Relink(s) \/ LinkCreate(s)
      BY <1>1, <2>2 DEF Relink, LinkCreate, Goto, Answer
    <2>3. CASE LinkFails(s)
      BY <1>1, <2>3 DEF LinkFails, Answer
    <2> QED
      BY <1>9, <2>1, <2>2, <2>3
  <1>8. CASE Ctest(s) \/ RuntimeCheck(s) \/ Exec(s) \/ RuntimeEnds(s)
    BY <1>1, <1>8 DEF Ctest, RuntimeCheck, Exec, RuntimeEnds, Goto, Answer, files
  <1> QED
    BY <1>2, <1>3, <1>4, <1>5, <1>7, <1>8, <1>9 DEF Step

(* Only a request that removes or links changes the binary, and only one   *)
(* that removes takes the directory away.                                  *)
LEMMA FilesKept ==
  ASSUME WebTypeOK, NEW s \in Requests, Step(s), ~Interferes(s), ~Interferes(s)'
  PROVE  binary' = binary /\ (dir => dir')
  BY DEF WebTypeOK, Interferes, Removing, Linking, files, Step, Receive, SeeBinary, SeeDir,
         Stat, Scan, Remove, Emptied, Rmdir, Mkdir, IsDir, Configure, ConfigureFails,
         UpToDate, MakeFails, Relink, LinkCreate, LinkEnd, LinkFails, Ctest, RuntimeCheck,
         Exec, RuntimeEnds, Goto, Answer, Built

LEMMA KindedStep ==
  ASSUME WebTypeOK, WebTypeOK', NEW s \in Requests, Step(s), \A r \in Requests : Kinded(r)
  PROVE  \A r \in Requests : Kinded(r)'
  <1> SUFFICES ASSUME NEW r \in Requests PROVE Kinded(r)'
    OBVIOUS
  <1>1. CASE r # s
    BY <1>1, OwnThread DEF Kinded
  <1>2. CASE r = s
    <2> USE <1>2 DEF WebTypeOK, Kinded, StatusLabels, Served, Outcomes, Labels, Removing, Linking
    <2>1. CASE Receive(s)
      BY <2>1, WebAssumption DEF Receive, FirstLabel, AllKinds
    <2>2. CASE SeeBinary(s) \/ SeeDir(s) \/ Stat(s)
      BY <2>2 DEF SeeBinary, SeeDir, Stat, Goto, Answer
    <2>3. CASE Scan(s) \/ Remove(s) \/ Emptied(s) \/ Rmdir(s) \/ Mkdir(s) \/ IsDir(s)
      BY <2>3 DEF Scan, Remove, Emptied, Rmdir, Mkdir, IsDir, Goto, Answer
    <2>4. CASE Configure(s) \/ ConfigureFails(s) \/ UpToDate(s) \/ MakeFails(s)
      BY <2>4 DEF Configure, ConfigureFails, UpToDate, MakeFails, Built, Goto, Answer
    <2>5. CASE Relink(s) \/ LinkCreate(s) \/ LinkEnd(s) \/ LinkFails(s)
      BY <2>5 DEF Relink, LinkCreate, LinkEnd, LinkFails, Built, Goto, Answer
    <2>6. CASE Ctest(s) \/ RuntimeCheck(s) \/ Exec(s) \/ RuntimeEnds(s)
      BY <2>6 DEF Ctest, RuntimeCheck, Exec, RuntimeEnds, Goto, Answer
    <2> QED
      BY <2>1, <2>2, <2>3, <2>4, <2>5, <2>6 DEF Step
  <1> QED
    BY <1>1, <1>2

LEMMA ObservedStep ==
  ASSUME WebTypeOK, NEW q \in Requests, Step(q), Observe
  PROVE  Observed'
  BY DEF Observe, Observed, Interferes
(* The other threads: what an undisturbed one has found stays so.          *)
LEMMA OthersFound ==
  ASSUME WebInv, WebTypeOK', NEW s \in Requests, Step(s), Observe,
         NEW r \in Requests, r # s, r \notin disturbed'
  PROVE  Found(r)'
  <1>1. pc'[r] = pc[r] /\ seen'[r] = seen[r]
    BY OwnThread DEF WebInv
  <1>2. CASE pc[r] \in Served
    BY <1>1, <1>2 DEF Found, Served, Outcomes
  <1>3. CASE pc[r] \notin Served
    <2>1. r \notin disturbed /\ ~Interferes(s)'
      BY <1>1, <1>3 DEF Observe
    <2>2. ~Interferes(s)
      BY <1>3, <2>1 DEF WebInv, Observed
    <2>3. binary' = binary /\ (dir => dir')
      BY <2>1, <2>2, FilesKept DEF WebInv
    <2> QED
      BY <1>1, <2>1, <2>3 DEF WebInv, Found
  <1> QED
    BY <1>2, <1>3

(* Where an undisturbed request runs nobody else is linking, so a binary   *)
(* that exists is complete.                                                *)
LEMMA Complete ==
  ASSUME WebInv, NEW s \in Requests, s \notin disturbed,
         pc[s] \in {"exists", "make", "check"}, binary # "none"
  PROVE  binary = "whole" /\ dir
  BY WebAssumption DEF WebInv, WebTypeOK, Linker, Housed, Observed, Interferes, Linking,
     Served, Outcomes

(* The acting thread.                                                      *)
LEMMA OwnFound ==
  ASSUME WebInv, WebTypeOK', NEW s \in Requests, Step(s), Observe, s \notin disturbed'
  PROVE  Found(s)'
  <1> USE DEF Found
  <1>1. WebTypeOK
    BY DEF WebInv
  <1>2. pc'[s] \notin Served => s \notin disturbed
    BY DEF Observe
  <1>3. pc'[s] \in Served => Found(s)'
    BY DEF Served, Outcomes
  <1> SUFFICES ASSUME pc'[s] \notin Served PROVE Found(s)'
    BY <1>3
  <1>4. s \notin disturbed /\ Found(s)
    BY <1>2 DEF WebInv
  <1>5. ASSUME Built(s), binary' = "whole" PROVE Found(s)'
    BY <1>1, <1>5 DEF Built, Goto, Answer, WebTypeOK, Served, Outcomes
  <1> USE <1>1, <1>4 DEF WebTypeOK, Served, Outcomes
  <1>6. CASE Receive(s)
    BY <1>6, WebAssumption DEF Receive, FirstLabel, AllKinds
  <1>7. CASE SeeBinary(s)
    BY <1>7, Complete DEF SeeBinary, Goto, files
  <1>8. CASE SeeDir(s) \/ Stat(s)
    BY <1>8 DEF WebInv, Housed, SeeDir, Stat, Goto, Answer, files
  <1>9. CASE Scan(s) \/ Remove(s) \/ Emptied(s) \/ Rmdir(s) \/ Mkdir(s) \/ IsDir(s)
    BY <1>9 DEF Scan, Remove, Emptied, Rmdir, Mkdir, IsDir, Goto, Answer
  <1>10. CASE Configure(s) \/ ConfigureFails(s) \/ MakeFails(s) \/ Relink(s)
    BY <1>10 DEF Configure, ConfigureFails, MakeFails, Relink, Goto, Answer
  <1>11. CASE UpToDate(s)
    BY <1>5, <1>11, Complete DEF UpToDate, files
  <1>12. CASE LinkCreate(s) \/ LinkFails(s)
    BY <1>12 DEF LinkCreate, LinkFails, Goto, Answer
  <1>13. CASE LinkEnd(s)
    BY <1>5, <1>13 DEF LinkEnd
  <1>14. CASE RuntimeCheck(s)
    BY <1>14, Complete DEF RuntimeCheck, Goto, files
  <1>15. CASE Ctest(s) \/ Exec(s) \/ RuntimeEnds(s)
    BY <1>15 DEF Ctest, Exec, RuntimeEnds, Goto, Answer, files
  <1> QED
    BY <1>6, <1>7, <1>8, <1>9, <1>10, <1>11, <1>12, <1>13, <1>14, <1>15 DEF Step

LEMMA LinkerStep ==
  ASSUME WebInv, WebTypeOK', NEW s \in Requests, Step(s)
  PROVE  Linker' /\ Housed'
  <1> USE WebAssumption DEF WebInv, WebTypeOK, Linker, Housed
  <1>1. CASE Receive(s) \/ SeeBinary(s) \/ SeeDir(s) \/ Stat(s)
    BY <1>1 DEF Receive, SeeBinary, SeeDir, Stat, Goto, Answer, files, Served, Outcomes
  <1>2. CASE Scan(s) \/ Remove(s) \/ Emptied(s) \/ Rmdir(s) \/ Mkdir(s) \/ IsDir(s)
    BY <1>2 DEF Scan, Remove, Emptied, Rmdir, Mkdir, IsDir, Goto, Answer, files
  <1>3. CASE Configure(s) \/ ConfigureFails(s) \/ UpToDate(s) \/ MakeFails(s)
    BY <1>3 DEF Configure, ConfigureFails, UpToDate, MakeFails, Built, Goto, Answer, files
  <1>4. CASE Relink(s) \/ LinkCreate(s)
    BY <1>4 DEF Relink, LinkCreate, Goto, Answer
  <1>5. CASE LinkEnd(s) \/ LinkFails(s)
    BY <1>5 DEF LinkEnd, LinkFails, Built, Goto, Answer
  <1>6. CASE Ctest(s) \/ RuntimeCheck(s) \/ Exec(s) \/ RuntimeEnds(s)
    BY <1>6 DEF Ctest, RuntimeCheck, Exec, RuntimeEnds, Goto, Answer, files
  <1> QED
    BY <1>1, <1>2, <1>3, <1>4, <1>5, <1>6 DEF Step

LEMMA StepWebInv == WebInv /\ [Next]_vars => WebInv'
  <1> SUFFICES ASSUME WebInv, [Next]_vars PROVE WebInv'
    OBVIOUS
  <1>1. CASE Next
    <2>1. PICK s \in Requests : Step(s) /\ Observe
      BY <1>1 DEF Next
    <2>2. WebTypeOK'
      BY <2>1, StepType DEF WebInv
    <2>3. \A r \in Requests : Kinded(r)'
      BY <2>1, <2>2, KindedStep DEF WebInv
    <2>4. Linker' /\ Housed'
      BY <2>1, <2>2, LinkerStep
    <2>5. Observed'
      BY <2>1, ObservedStep DEF WebInv
    <2>6. \A r \in Requests \ disturbed' : Found(r)'
      BY <2>1, <2>2, OwnFound, OthersFound
    <2> QED
      BY <2>2, <2>3, <2>4, <2>5, <2>6 DEF WebInv
  <1>2. CASE UNCHANGED vars
    BY <1>2 DEF vars, WebInv, WebTypeOK, Kinded, Linker, Housed, Observed, Interferes, Found
  <1> QED
    BY <1>1, <1>2

(* The account of what each request has found is inductive, for any set of *)
(* concurrent requests.                                                    *)
THEOREM WebInvariance == Spec => []WebInv
  BY InitWebInv, StepWebInv, PTL DEF Spec

(* Every variable of the console keeps its type.                           *)
THEOREM WebTypes == Spec => []WebTypeOK
  BY WebInvariance, PTL DEF WebInv

-----------------------------------------------------------------------------
(* How a request that nobody disturbs can answer.                          *)
LEMMA UndisturbedAnswer ==
  ASSUME WebInv, [Next]_vars, NEW r \in Requests, NEW o \in Outcomes, Answers(r, o),
         r \notin disturbed
  PROVE  /\ o # "raised"
         /\ o = "ok" /\ kind[r] # "status" => binary' = "whole"
         /\ o = "ok" /\ kind[r] = "status" =>
              /\ seen'[r].binary => seen'[r].dir
              /\ binary' = IF seen'[r].binary THEN "whole" ELSE "none"
  <1>1. pc'[r] # pc[r] /\ pc'[r] = o /\ pc[r] \notin Served /\ o \in {"ok", "failed", "raised"}
    BY DEF Answers, Served, Outcomes
  <1>2. WebTypeOK /\ Found(r) /\ Kinded(r) /\ Housed
    BY DEF WebInv
  <1>3. PICK s \in Requests : Step(s)
    BY <1>1 DEF Next, vars
  <1>4. Step(r)
    BY <1>1, <1>2, <1>3, OwnThread
  <1> USE <1>1, <1>2 DEF Found, Kinded, StatusLabels, Served, Outcomes, WebTypeOK
  <1>5. CASE Receive(r)
    BY <1>5 DEF Receive
  <1>6. CASE SeeBinary(r) \/ SeeDir(r) \/ Stat(r)
    BY <1>6 DEF SeeBinary, SeeDir, Stat, Goto, Answer, files, Housed
  <1>7. CASE Scan(r) \/ Remove(r) \/ Emptied(r) \/ Rmdir(r) \/ Mkdir(r) \/ IsDir(r)
    BY <1>7 DEF Scan, Remove, Emptied, Rmdir, Mkdir, IsDir, Goto, Answer
  <1>8. CASE Configure(r) \/ ConfigureFails(r) \/ MakeFails(r) \/ Relink(r)
    BY <1>8 DEF Configure, ConfigureFails, MakeFails, Relink, Goto, Answer
  <1>9. CASE UpToDate(r)
    <2>1. binary = "whole"
      BY <1>9, Complete DEF UpToDate
    <2> QED
      BY <1>9, <2>1 DEF UpToDate, Built, Goto, Answer, files
  <1>10. CASE LinkCreate(r) \/ LinkEnd(r) \/ LinkFails(r)
    BY <1>10 DEF LinkCreate, LinkEnd, LinkFails, Built, Goto, Answer
  <1>11. CASE Ctest(r) \/ RuntimeCheck(r) \/ Exec(r) \/ RuntimeEnds(r)
    BY <1>11 DEF Ctest, RuntimeCheck, Exec, RuntimeEnds, Goto, Answer, files
  <1> QED
    BY <1>4, <1>5, <1>6, <1>7, <1>8, <1>9, <1>10, <1>11 DEF Step

(* An exception reaches Flask only beside a request that removes or links, *)
(* for any number of requests.                                             *)
THEOREM ExceptionsExplained == Spec => RaisesOnlyDisturbed
  <1>1. WebInv /\ [Next]_vars
          => \A r \in Requests : Answers(r, "raised") => r \in disturbed
    BY UndisturbedAnswer DEF Outcomes
  <1> QED
    BY <1>1, WebInvariance, PTL DEF Spec, RaisesOnlyDisturbed

(* Reported success means a complete binary.                               *)
THEOREM SuccessIsDelivered == Spec => SuccessDelivers
  <1>1. WebInv /\ [Next]_vars
          => \A r \in Requests :
               Answers(r, "ok") /\ kind[r] # "status" /\ r \notin disturbed => binary' = "whole"
    BY UndisturbedAnswer DEF Outcomes
  <1> QED
    BY <1>1, WebInvariance, PTL DEF Spec, SuccessDelivers

(* The parts of a status report fit together.                              *)
THEOREM StatusIsConsistent == Spec => StatusConsistent
  <1>1. WebInv /\ [Next]_vars
          => \A r \in Requests :
               Answers(r, "ok") /\ kind[r] = "status" /\ r \notin disturbed =>
                 /\ seen'[r].binary => seen'[r].dir
                 /\ binary' = IF seen'[r].binary THEN "whole" ELSE "none"
    BY UndisturbedAnswer DEF Outcomes
  <1> QED
    BY <1>1, WebInvariance, PTL DEF Spec, StatusConsistent

-----------------------------------------------------------------------------
(* How far a request is from its answer: the stage it is at, and how much  *)
(* of its list rmtree still has to remove.                                 *)
StageRank == [rmtree |-> 13, remove |-> 10, rmdir |-> 9, check |-> 9, mkdir |-> 8, is_dir |-> 7,
              configure |-> 6, make |-> 5, create |-> 4, link |-> 3, ctest |-> 2, exec |-> 2,
              running |-> 1, exists |-> 3, dir_exists |-> 2, stat |-> 1,
              idle |-> 0, ok |-> 0, failed |-> 0, raised |-> 0]
ToRemove(r) == (IF "config" \in todo[r] THEN 1 ELSE 0) + (IF "binary" \in todo[r] THEN 1 ELSE 0)
RequestLeft(r) == StageRank[pc[r]] + (IF pc[r] = "remove" THEN ToRemove(r) ELSE 0)

(* No request sets another back, and each of its own steps brings it       *)
(* nearer to its answer: nothing is tried again when another request has   *)
(* removed what it needs.                                                  *)
RequestsShrink ==
  [][\A r \in Requests : pc[r] \notin Served =>
       /\ RequestLeft(r)' <= RequestLeft(r)
       /\ Step(r) => RequestLeft(r)' < RequestLeft(r)]_vars

LEMMA StageRanks ==
  /\ StageRank["rmtree"] = 13 /\ StageRank["remove"] = 10 /\ StageRank["rmdir"] = 9
  /\ StageRank["check"] = 9 /\ StageRank["mkdir"] = 8 /\ StageRank["is_dir"] = 7
  /\ StageRank["configure"] = 6 /\ StageRank["make"] = 5 /\ StageRank["create"] = 4
  /\ StageRank["link"] = 3 /\ StageRank["ctest"] = 2 /\ StageRank["exec"] = 2
  /\ StageRank["running"] = 1 /\ StageRank["exists"] = 3 /\ StageRank["dir_exists"] = 2
  /\ StageRank["stat"] = 1 /\ StageRank["idle"] = 0 /\ StageRank["ok"] = 0
  /\ StageRank["failed"] = 0 /\ StageRank["raised"] = 0
  BY DEF StageRank

LEMMA StageRange == \A l \in Labels : StageRank[l] \in 0..13
  BY StageRanks DEF Labels, Removing, Linking, Served, Outcomes

LEMMA RequestLeftRange ==
  ASSUME WebTypeOK, NEW r \in Requests
  PROVE  RequestLeft(r) \in 0..13
  <1>1. pc[r] \in Labels /\ ToRemove(r) \in 0..2
    BY DEF WebTypeOK, ToRemove
  <1>2. StageRank[pc[r]] \in 0..13 /\ (pc[r] = "remove" => StageRank[pc[r]] = 10)
    BY <1>1, StageRange, StageRanks
  <1> QED
    BY <1>1, <1>2 DEF RequestLeft

LEMMA OwnList ==
  ASSUME WebTypeOK, NEW s \in Requests, Step(s), NEW r \in Requests, r # s
  PROVE  todo'[r] = todo[r]
  BY DEF WebTypeOK, Step, Receive, SeeBinary, SeeDir, Stat, Scan, Remove, Emptied, Rmdir,
         Mkdir, IsDir, Configure, ConfigureFails, UpToDate, MakeFails, Relink, LinkCreate,
         LinkEnd, LinkFails, Ctest, RuntimeCheck, Exec, RuntimeEnds

(* The way through a request.                                              *)
LEMMA Onward ==
  ASSUME WebTypeOK, NEW r \in Requests, Step(r), pc[r] \notin Served
  PROVE  \/ Remove(r)
         \/ pc[r] = "exists" /\ pc'[r] = "dir_exists"
         \/ pc[r] = "dir_exists" /\ pc'[r] \in {"stat", "ok"}
         \/ pc[r] = "stat" /\ pc'[r] \in {"ok", "raised"}
         \/ pc[r] = "rmtree" /\ pc'[r] \in {"remove", "mkdir"}
         \/ pc[r] = "remove" /\ pc'[r] = "rmdir"
         \/ pc[r] = "rmdir" /\ pc'[r] = "mkdir"
         \/ pc[r] = "mkdir" /\ pc'[r] \in {"is_dir", "configure"}
         \/ pc[r] = "is_dir" /\ pc'[r] \in {"configure", "raised"}
         \/ pc[r] = "configure" /\ pc'[r] \in {"make", "failed"}
         \/ pc[r] = "make" /\ pc'[r] \in {"create", "ctest", "exec", "ok", "failed"}
         \/ pc[r] = "create" /\ pc'[r] \in {"link", "failed"}
         \/ pc[r] = "link" /\ pc'[r] \in {"ctest", "exec", "ok", "failed"}
         \/ pc[r] = "check" /\ pc'[r] \in {"exec", "mkdir"}
         \/ pc[r] = "exec" /\ pc'[r] \in {"running", "raised"}
         \/ pc[r] \in {"ctest", "running"} /\ pc'[r] \in {"ok", "failed"}
  <1>1. /\ \A l : Goto(r, l) => pc'[r] = l
        /\ \A o : Answer(r, o) => pc'[r] = o
    BY DEF Goto, Answer, WebTypeOK
  <1>2. Built(r) => pc'[r] \in {"ctest", "exec", "ok"}
    BY <1>1 DEF Built
  <1>3. CASE SeeBinary(r) \/ SeeDir(r) \/ Stat(r) \/ Scan(r) \/ Remove(r) \/ Emptied(r)
    BY <1>1, <1>3 DEF SeeBinary, SeeDir, Stat, Scan, Emptied
  <1>4. CASE Rmdir(r) \/ Mkdir(r) \/ IsDir(r) \/ Configure(r) \/ ConfigureFails(r)
    BY <1>1, <1>4 DEF Rmdir, Mkdir, IsDir, Configure, ConfigureFails
  <1>5. CASE UpToDate(r) \/ MakeFails(r) \/ Relink(r) \/ LinkCreate(r)
    BY <1>1, <1>2, <1>5 DEF UpToDate, MakeFails, Relink, LinkCreate
  <1>6. CASE LinkEnd(r) \/ LinkFails(r) \/ Ctest(r)
    BY <1>1, <1>2, <1>6 DEF LinkEnd, LinkFails, Ctest
  <1>7. CASE RuntimeCheck(r) \/ Exec(r) \/ RuntimeEnds(r)
    BY <1>1, <1>7 DEF RuntimeCheck, Exec, RuntimeEnds
  <1> QED
    BY <1>3, <1>4, <1>5, <1>6, <1>7 DEF Step, Receive

LEMMA OwnRequestShrinks ==
  ASSUME WebTypeOK, NEW r \in Requests, Step(r), pc[r] \notin Served
  PROVE  RequestLeft(r)' < RequestLeft(r)
  <1>1. ToRemove(r) \in 0..2 /\ ToRemove(r)' \in 0..2
    BY DEF ToRemove
  <1>2. CASE Remove(r)
    <2>1. PICK e \in todo[r] : todo' = [todo EXCEPT ![r] = @ \ {e}]
      BY <1>2 DEF Remove
    <2>2. todo'[r] = todo[r] \ {e} /\ e \in {"config", "binary"}
      BY <2>1 DEF WebTypeOK
    <2>3. ToRemove(r)' < ToRemove(r)
      BY <2>1, <2>2 DEF ToRemove
    <2>4. pc[r] = "remove" /\ pc'[r] = "remove"
      BY <1>2 DEF Remove
    <2> QED
      BY <1>1, <2>3, <2>4, StageRanks DEF RequestLeft
  <1>3. CASE ~Remove(r)
    BY <1>1, <1>3, Onward, StageRanks DEF RequestLeft
  <1> QED
    BY <1>2, <1>3

(* A request of the console takes at most thirteen steps, children         *)
(* included, whatever the requests beside it do to the files it works on:  *)
(* only a child that does not end can keep it.                             *)
THEOREM RequestsDescend ==
  Spec => [](\A r \in Requests : RequestLeft(r) \in 0..13) /\ RequestsShrink
  <1>1. WebTypeOK => \A r \in Requests : RequestLeft(r) \in 0..13
    BY RequestLeftRange
  <1>2. WebTypeOK /\ [Next]_vars =>
          [\A r \in Requests : pc[r] \notin Served =>
             /\ RequestLeft(r)' <= RequestLeft(r)
             /\ Step(r) => RequestLeft(r)' < RequestLeft(r)]_vars
    <2> SUFFICES ASSUME WebTypeOK, Next, NEW r \in Requests, pc[r] \notin Served
                 PROVE  /\ RequestLeft(r)' <= RequestLeft(r)
                        /\ Step(r) => RequestLeft(r)' < RequestLeft(r)
      OBVIOUS
    <2>1. PICK s \in Requests : Step(s) /\ Observe
      BY DEF Next
    <2>2. RequestLeft(r) \in Nat /\ RequestLeft(r)' \in Nat
      <3>1. WebTypeOK'
        BY <2>1, StepType
      <3>2. pc'[r] \in Labels /\ ToRemove(r)' \in 0..2
        BY <3>1 DEF WebTypeOK, ToRemove
      <3> QED
        BY <3>2, RequestLeftRange, StageRange DEF RequestLeft
    <2>3. CASE Step(r)
      BY <2>2, <2>3, OwnRequestShrinks
    <2>4. CASE ~Step(r)
      <3>1. pc'[r] = pc[r] /\ todo'[r] = todo[r]
        BY <2>1, <2>4, OwnThread, OwnList
      <3> QED
        BY <2>2, <2>4, <3>1 DEF RequestLeft, ToRemove
    <2> QED
      BY <2>3, <2>4
  <1> QED
    BY <1>1, <1>2, WebTypes, PTL DEF Spec, RequestsShrink
=============================================================================
